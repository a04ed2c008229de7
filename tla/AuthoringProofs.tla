---------------------------- MODULE AuthoringProofs ----------------------------
(***************************************************************************)
(* Proofs about Packer and AuthoringJob for every sequence, option, host   *)
(* and number of jobs.                                                     *)
(***************************************************************************)
EXTENDS AuthoringJob, SequenceTheorems, TLAPS

-----------------------------------------------------------------------------
(* The packer: the inductive invariant.                                    *)

Payloads == {"none", "small", "points", "ordered"}
Packet == [mode : {"whole", "moved"}, key : Nat, topology : Nat, payload : Payloads]
File == [samples : Seq(Packet), keys : SUBSET Frames, tagged : BOOLEAN, intact : BOOLEAN]

Steps == {"idle", "prepare", "mux", "tag", "layout", "verify", "rename", "done", "failed"}

PackTyped ==
  /\ task \in Task
  /\ pack \in [at : Steps, packets : Seq(Packet), key : Nat, updates : BOOLEAN,
               window : Nat, temporary : File]

\* The frames since the last keyframe: what the next update relies on.
WindowIsOpen ==
  LET n == Len(pack.packets)
      k == pack.key
  IN /\ n <= N /\ (k = 0 => n = 0)
     /\ k > 0 =>
          /\ k <= n /\ pack.window = n - k + 1
          /\ pack.packets[k].mode = "whole"
          /\ pack.packets[k].topology = task.topology[n]
          /\ pack.updates => pack.packets[k].payload = "ordered"
          /\ ~pack.updates => k = n
          /\ \A j \in k + 1 .. n : ~Starts(j)
          /\ task.most > 0 => pack.window <= task.most

PackInv == PackTyped /\ WindowIsOpen /\ UpdatesDecode

\* A sequence whose item k has another payload.
LEMMA OtherPayload ==
  ASSUME NEW q \in Seq(Packet), NEW k \in 1 .. Len(q), NEW v \in Payloads,
         NEW r, r = [q EXCEPT ![k].payload = v]
  PROVE  /\ r \in Seq(Packet) /\ Len(r) = Len(q)
         /\ \A i \in 1 .. Len(q) : r[i] = IF i = k THEN [q[k] EXCEPT !.payload = v] ELSE q[i]
         /\ r[k].payload = v
<1>1. Len(q) \in Nat /\ q \in [1 .. Len(q) -> Packet]
  BY LenProperties
<1>2. q[k] \in Packet
  BY <1>1
<1>3. [q[k] EXCEPT !.payload = v] \in Packet /\ [q[k] EXCEPT !.payload = v].payload = v
  BY <1>2 DEF Packet
<1>4. r \in [1 .. Len(q) -> Packet]
  BY <1>1, <1>3
<1>5. r \in Seq(Packet) /\ Len(r) = Len(q)
  BY <1>1, <1>4, IsASeq, LenProperties
<1> QED
  BY <1>1, <1>3, <1>5

\* A frame stays decodable when packets are appended and one payload changes, if that
\* packet is then in the order of the source or no update names it.
LEMMA StaysDecodable ==
  ASSUME NEW q \in Seq(Packet), NEW r \in Seq(Packet), NEW k \in Nat, NEW i \in 1 .. Len(q),
         \A j \in 1 .. Len(q) :
           /\ r[j].mode = q[j].mode /\ r[j].key = q[j].key /\ r[j].topology = q[j].topology
           /\ j # k => r[j].payload = q[j].payload,
         r[k].payload = "ordered" \/ \A j \in 1 .. Len(q) : q[j].mode = "moved" => q[j].key # k,
         Decodable(q, i)
  PROVE  Decodable(r, i)
<1>1. Len(q) \in Nat
  BY LenProperties
<1>2. q[i].key \in 1 .. i /\ q[i].key \in 1 .. Len(q)
  BY <1>1 DEF Decodable
<1>3. r[i].key = q[i].key /\ r[i].mode = q[i].mode /\ r[i].topology = q[i].topology
  OBVIOUS
<1>4. /\ r[q[i].key].mode = q[q[i].key].mode /\ r[q[i].key].topology = q[q[i].key].topology
      /\ q[i].key # k => r[q[i].key].payload = q[q[i].key].payload
  BY <1>2
<1>5. q[i].mode = "moved" /\ q[i].key = k => r[k].payload = "ordered"
  OBVIOUS
<1> QED
  BY <1>2, <1>3, <1>4, <1>5 DEF Decodable

\* finish_active_keyframe() changes no more than the payload of the keyframe, and only
\* when no update names it.
LEMMA FinishedPackets ==
  ASSUME PackInv
  PROVE  /\ Finished \in Seq(Packet) /\ Len(Finished) = Len(pack.packets)
         /\ \A j \in 1 .. Len(pack.packets) :
              /\ Finished[j].mode = pack.packets[j].mode
              /\ Finished[j].key = pack.packets[j].key
              /\ Finished[j].topology = pack.packets[j].topology
              /\ j # pack.key => Finished[j].payload = pack.packets[j].payload
         /\ pack.updates \/ pack.key = 0 => Finished = pack.packets
<1> DEFINE q == pack.packets
<1>1. q \in Seq(Packet) /\ pack.key \in Nat /\ Len(q) \in Nat
  BY LenProperties DEF PackInv, PackTyped
<1>2. CASE pack.key = 0 \/ pack.updates
  <2>1. Finished = q
    BY <1>2 DEF Finished
  <2> QED
    BY <1>1, <2>1
<1>3. CASE ~(pack.key = 0 \/ pack.updates)
  <2> DEFINE r == [q EXCEPT ![pack.key].payload = "small"]
  <2>1. pack.key \in 1 .. Len(q) /\ Finished = r
    BY <1>1, <1>3 DEF PackInv, WindowIsOpen, Finished
  <2>2. "small" \in Payloads
    BY DEF Payloads
  <2>3. /\ r \in Seq(Packet) /\ Len(r) = Len(q)
        /\ \A i \in 1 .. Len(q) :
             r[i] = IF i = pack.key THEN [q[pack.key] EXCEPT !.payload = "small"] ELSE q[i]
    <3> HIDE DEF q
    <3> QED
      BY <1>1, <2>1, <2>2, OtherPayload
  <2>4. q[pack.key] \in Packet
    BY <1>1, <2>1, ElementOfSeq
  <2>5. ASSUME NEW j \in 1 .. Len(q)
        PROVE  /\ r[j].mode = q[j].mode /\ r[j].key = q[j].key /\ r[j].topology = q[j].topology
               /\ j # pack.key => r[j].payload = q[j].payload
    <3> HIDE DEF q, r
    <3>1. r[j] = IF j = pack.key THEN [q[pack.key] EXCEPT !.payload = "small"] ELSE q[j]
      BY <2>3
    <3> QED
      BY <2>4, <3>1 DEF Packet
  <2> HIDE DEF r
  <2> QED
    BY <1>3, <2>1, <2>3, <2>5
<1> QED
  BY <1>2, <1>3

\* The frames prepared so far stay decodable when the keyframe is finished.
LEMMA FinishedDecode ==
  ASSUME PackInv, NEW r \in Seq(Packet), Len(r) >= Len(pack.packets),
         \A j \in 1 .. Len(pack.packets) : r[j] = Finished[j]
  PROVE  \A i \in 1 .. Len(pack.packets) : Decodable(r, i)
<1> DEFINE q == pack.packets
<1>1. q \in Seq(Packet) /\ pack.key \in Nat /\ Len(q) \in Nat /\ Finished \in Seq(Packet)
  BY LenProperties, FinishedPackets DEF PackInv, PackTyped
<1>2. \A j \in 1 .. Len(q) : Decodable(q, j)
  BY <1>1, LenProperties DEF PackInv, UpdatesDecode
<1>3. ASSUME NEW i \in 1 .. Len(q)
      PROVE  Decodable(r, i)
  <2>1. \A j \in 1 .. Len(q) :
          /\ r[j].mode = q[j].mode /\ r[j].key = q[j].key /\ r[j].topology = q[j].topology
          /\ j # pack.key => r[j].payload = q[j].payload
    BY FinishedPackets
  <2>2. r[pack.key].payload = "ordered" \/ \A j \in 1 .. Len(q) : q[j].mode = "moved" => q[j].key # pack.key
    <3>1. CASE pack.key = 0
      <4>1. Len(q) = 0
        BY <1>1, <3>1 DEF PackInv, WindowIsOpen
      <4> QED
        BY <4>1
    <3>2. CASE pack.key # 0 /\ pack.updates
      <4>1. q[pack.key].payload = "ordered" /\ pack.key \in 1 .. Len(q) /\ Finished = q
        BY <1>1, <3>2, FinishedPackets DEF PackInv, WindowIsOpen
      <4> QED
        BY <4>1
    <3>3. CASE pack.key # 0 /\ ~pack.updates
      <4>1. pack.key > 0 /\ pack.key = Len(q)
        BY <1>1, <3>3 DEF PackInv, WindowIsOpen
      <4>3. q[Len(q)].mode = "whole"
        BY <4>1 DEF PackInv, WindowIsOpen
      <4>2. ASSUME NEW j \in 1 .. Len(q), q[j].mode = "moved"
            PROVE  q[j].key # pack.key
        <5>1. q[j].key \in 1 .. j /\ q[q[j].key].mode = "whole"
          BY <1>2 DEF Decodable
        <5>2. j # Len(q)
          BY <4>3, <4>2
        <5> QED
          BY <1>1, <4>1, <5>1, <5>2
      <4> QED
        BY <4>2
    <3> QED
      BY <3>1, <3>2, <3>3
  <2>3. Decodable(q, i)
    BY <1>2
  <2> DEFINE k == pack.key
  <2>4. k \in Nat /\ q \in Seq(Packet)
    BY <1>1
  <2>5. \A j \in 1 .. Len(q) :
          /\ r[j].mode = q[j].mode /\ r[j].key = q[j].key /\ r[j].topology = q[j].topology
          /\ j # k => r[j].payload = q[j].payload
    BY <2>1
  <2>6. r[k].payload = "ordered" \/ \A j \in 1 .. Len(q) : q[j].mode = "moved" => q[j].key # k
    BY <2>2
  <2> HIDE DEF q, k
  <2> QED
    BY <2>3, <2>4, <2>5, <2>6, StaysDecodable
<1> QED
  BY <1>3

\* What is decodable depends on the packets and the options alone.
LEMMA PacketsKept ==
  ASSUME PackInv, task' = task, pack'.packets = pack.packets, pack'.key = pack.key,
         pack'.updates = pack.updates, pack'.window = pack.window
  PROVE  WindowIsOpen' /\ UpdatesDecode'
<1>1. WindowIsOpen'
  BY DEF PackInv, WindowIsOpen, Starts
<1>2. UpdatesDecode'
  BY DEF PackInv, UpdatesDecode, Decodable, Starts
<1> QED
  BY <1>1, <1>2

\* Nothing is prepared.
LEMMA NothingPrepared ==
  ASSUME pack'.packets = <<>>, pack'.key = 0
  PROVE  WindowIsOpen' /\ UpdatesDecode'
<1>1. Len(<<>>) = 0 /\ DOMAIN <<>> = {}
  BY EmptySeq
<1>2. WindowIsOpen'
  BY <1>1, PackerAssumption DEF WindowIsOpen
<1>3. UpdatesDecode'
  BY <1>1 DEF UpdatesDecode
<1> QED
  BY <1>2, <1>3

\* A keyframe starts a window of its own.
LEMMA KeyframeStep ==
  ASSUME PackInv, PrepareKeyframe
  PROVE  PackInv'
<1> DEFINE n == Len(pack.packets)
           r == Append(Finished, Whole(n + 1))
<1>1. /\ task \in Task /\ task' = task /\ n \in Nat /\ n + 1 <= N /\ n + 1 \in Frames
      /\ Finished \in Seq(Packet) /\ Len(Finished) = n
  BY LenProperties, FinishedPackets, PackerAssumption
  DEF PackInv, PackTyped, PrepareKeyframe, Upcoming, Frames
<1>2. Whole(n + 1) \in Packet
  BY <1>1 DEF Whole, Packet, Payloads, Task
<1>3. /\ r \in Seq(Packet) /\ Len(r) = n + 1 /\ r[n + 1] = Whole(n + 1)
      /\ \A j \in 1 .. n : r[j] = Finished[j]
  BY <1>1, <1>2, AppendProperties
<1>4. pack' = [pack EXCEPT !.packets = r, !.key = n + 1, !.updates = FALSE, !.window = 1]
  BY DEF PrepareKeyframe, Upcoming
<1> HIDE DEF r
<1>5. PackTyped'
  <2>1. n + 1 \in Nat /\ r \in Seq(Packet) /\ FALSE \in BOOLEAN /\ 1 \in Nat
    BY <1>1, <1>3
  <2>2. PackTyped
    BY DEF PackInv
  <2> HIDE DEF n
  <2> QED
    BY <1>1, <1>4, <2>1, <2>2 DEF PackTyped
<1>6. /\ pack'.packets = r /\ pack'.key = n + 1 /\ pack'.updates = FALSE /\ pack'.window = 1
  BY <1>4 DEF PackInv, PackTyped
<1>7. /\ Whole(n + 1).mode = "whole" /\ Whole(n + 1).key = n + 1
      /\ Whole(n + 1).topology = task.topology[n + 1]
  BY DEF Whole
<1>8. task.most \in Nat
  BY <1>1 DEF Task
<1>9. WindowIsOpen'
  BY <1>1, <1>3, <1>6, <1>7, <1>8 DEF WindowIsOpen
<1>10. \A i \in 1 .. n : Decodable(r, i)
  BY <1>1, <1>3, FinishedDecode
<1>11. Decodable(r, n + 1)
  BY <1>1, <1>3, <1>7, <1>8 DEF Decodable
<1>12. \A i \in DOMAIN r : Decodable(r, i)
  BY <1>1, <1>3, <1>10, <1>11, LenProperties
<1>13. UpdatesDecode'
  BY <1>1, <1>6, <1>12 DEF UpdatesDecode, Decodable, Starts
<1> QED
  BY <1>5, <1>9, <1>13 DEF PackInv

\* An update extends the window by one frame and needs its keyframe in order.
LEMMA UpdateStep ==
  ASSUME PackInv, PrepareUpdate
  PROVE  PackInv'
<1> DEFINE q == pack.packets
           n == Len(q)
           k == pack.key
           o == [q EXCEPT ![k].payload = "ordered"]
           r == Append(o, Moved(n + 1))
<1>1. /\ task \in Task /\ task' = task /\ n \in Nat /\ n + 1 <= N /\ n + 1 \in Frames /\ n > 0
      /\ q \in Seq(Packet) /\ k \in Nat /\ pack.window \in Nat /\ pack.updates \in BOOLEAN
  BY LenProperties, PackerAssumption
  DEF PackInv, PackTyped, PrepareUpdate, IsUpdate, Upcoming, Frames
<1>2. /\ task.topology[n + 1] = task.topology[n] /\ ~Starts(n + 1)
      /\ task.most > 0 => pack.window < task.most
  BY <1>1 DEF PrepareUpdate, IsUpdate, Upcoming
<1>3. k > 0 /\ k \in 1 .. n
  BY <1>1 DEF PackInv, WindowIsOpen
<1>4. /\ pack.window = n - k + 1 /\ q[k].mode = "whole" /\ q[k].topology = task.topology[n]
      /\ pack.updates => q[k].payload = "ordered"
      /\ \A j \in k + 1 .. n : ~Starts(j)
  BY <1>1, <1>3 DEF PackInv, WindowIsOpen
<1>5. q[k] \in Packet
  BY <1>1, <1>3, ElementOfSeq
<1>6. /\ o \in Seq(Packet) /\ Len(o) = n
      /\ \A i \in 1 .. n : o[i] = IF i = k THEN [q[k] EXCEPT !.payload = "ordered"] ELSE q[i]
      /\ o[k].payload = "ordered"
  <2>1. "ordered" \in Payloads
    BY DEF Payloads
  <2>2. o = [q EXCEPT ![k].payload = "ordered"]
    OBVIOUS
  <2> HIDE DEF q, k, o
  <2> QED
    BY <1>1, <1>3, <2>1, <2>2, OtherPayload, SMTT(30)
<1>7. ASSUME NEW i \in 1 .. n
      PROVE  /\ o[i].mode = q[i].mode /\ o[i].key = q[i].key /\ o[i].topology = q[i].topology
             /\ i # k => o[i].payload = q[i].payload
  <2> HIDE DEF q, k, o
  <2>1. o[i] = IF i = k THEN [q[k] EXCEPT !.payload = "ordered"] ELSE q[i]
    BY <1>6
  <2> QED
    BY <1>5, <2>1 DEF Packet
<1>8. /\ Moved(n + 1) \in Packet /\ Moved(n + 1).mode = "moved" /\ Moved(n + 1).key = k
      /\ Moved(n + 1).topology = task.topology[n + 1]
  BY <1>1 DEF Moved, Packet, Payloads, Task
<1>9. /\ r \in Seq(Packet) /\ Len(r) = n + 1 /\ r[n + 1] = Moved(n + 1)
      /\ \A i \in 1 .. n : r[i] = o[i]
  <2> HIDE DEF o, n
  <2> QED
    BY <1>1, <1>6, <1>8, AppendProperties
<1>10. o = [q EXCEPT ![k].payload = IF pack.updates THEN @ ELSE "ordered"]
  <2>1. CASE pack.updates
    BY <1>4, <2>1
  <2>2. CASE ~pack.updates
    BY <2>2
  <2> QED
    BY <2>1, <2>2
<1>11. pack' = [pack EXCEPT !.packets = r, !.updates = TRUE, !.window = @ + 1]
  BY <1>10 DEF PrepareUpdate, Upcoming
<1>12. PackTyped'
  <2>1. pack.window + 1 \in Nat /\ TRUE \in BOOLEAN
    BY <1>1
  <2>2. PackTyped
    BY DEF PackInv
  <2> HIDE DEF r
  <2> QED
    BY <1>1, <1>9, <1>11, <2>1, <2>2 DEF PackTyped
<1>13. /\ pack'.packets = r /\ pack'.key = k /\ pack'.updates = TRUE /\ pack'.window = n - k + 2
  <2> HIDE DEF r
  <2> QED
    BY <1>1, <1>3, <1>4, <1>11 DEF PackInv, PackTyped
<1>14. /\ r[k].mode = "whole" /\ r[k].topology = task.topology[n + 1] /\ r[k].payload = "ordered"
       /\ \A j \in k + 1 .. n + 1 : ~Starts(j)
       /\ task.most \in Nat /\ (task.most > 0 => n - k + 2 <= task.most)
  BY <1>1, <1>2, <1>3, <1>4, <1>6, <1>7, <1>9, SMTT(30) DEF Task
<1> HIDE DEF q, n, k, o, r
<1>15. WindowIsOpen'
  BY <1>1, <1>3, <1>9, <1>13, <1>14 DEF WindowIsOpen, Starts
<1>16. \A i \in 1 .. n : Decodable(q, i)
  BY <1>1, LenProperties DEF PackInv, UpdatesDecode, q, n
<1>17. \A i \in 1 .. n :
         /\ r[i].mode = q[i].mode /\ r[i].key = q[i].key /\ r[i].topology = q[i].topology
         /\ i # k => r[i].payload = q[i].payload
  BY <1>7, <1>9
<1>18. ASSUME NEW i \in 1 .. n
       PROVE  Decodable(r, i)
  BY <1>1, <1>9, <1>14, <1>16, <1>17, StaysDecodable, ZenonT(30) DEF n
<1>19. Decodable(r, n + 1)
  BY <1>1, <1>3, <1>8, <1>9, <1>14 DEF Decodable
<1>20. \A i \in DOMAIN r : Decodable(r, i)
  BY <1>1, <1>9, <1>18, <1>19, LenProperties
<1>21. UpdatesDecode'
  BY <1>1, <1>13, <1>20 DEF UpdatesDecode, Decodable, Starts
<1> QED
  BY <1>12, <1>15, <1>21 DEF PackInv

\* The last keyframe is finished when there are no more frames.
LEMMA PreparedStep ==
  ASSUME PackInv, Prepared
  PROVE  PackInv'
<1> DEFINE q == pack.packets
           n == Len(q)
           k == pack.key
           r == Finished
<1>1. /\ task' = task /\ n \in Nat /\ r \in Seq(Packet) /\ Len(r) = n
      /\ q \in Seq(Packet) /\ k \in Nat /\ pack.updates \in BOOLEAN
  BY LenProperties, FinishedPackets DEF PackInv, PackTyped, Prepared
<1>2. pack' = [pack EXCEPT !.at = "mux", !.packets = r]
  BY DEF Prepared
<1>3. /\ pack'.packets = r /\ pack'.key = k /\ pack'.updates = pack.updates
      /\ pack'.window = pack.window
  BY <1>2 DEF PackInv, PackTyped
<1>4. PackTyped'
  <2>1. "mux" \in Steps
    BY DEF Steps
  <2> HIDE DEF r
  <2> QED
    BY <1>1, <1>2, <2>1 DEF PackTyped, PackInv
<1>5. \A j \in 1 .. n : r[j].mode = q[j].mode /\ r[j].topology = q[j].topology
  BY FinishedPackets
<1>6. pack.updates => r = q
  BY FinishedPackets
<1>7. \A i \in 1 .. n : Decodable(r, i)
  BY <1>1, FinishedDecode
<1>8. WindowIsOpen'
  <2>1. n <= N /\ (k = 0 => n = 0)
    BY DEF PackInv, WindowIsOpen
  <2>2. ASSUME k > 0
        PROVE  /\ k <= n /\ pack.window = n - k + 1 /\ q[k].mode = "whole"
               /\ q[k].topology = task.topology[n]
               /\ pack.updates => q[k].payload = "ordered"
               /\ ~pack.updates => k = n
               /\ \A j \in k + 1 .. n : ~Starts(j)
               /\ task.most > 0 => pack.window <= task.most
    BY <2>2 DEF PackInv, WindowIsOpen
  <2>3. k > 0 => k \in 1 .. n
    BY <1>1, <2>2
  <2> HIDE DEF q, n, k, r
  <2> QED
    BY <1>1, <1>3, <1>5, <1>6, <2>1, <2>2, <2>3 DEF WindowIsOpen, Starts
<1> HIDE DEF q, n, k, r
<1>9. \A i \in DOMAIN r : Decodable(r, i)
  BY <1>1, <1>7, LenProperties
<1>10. UpdatesDecode'
  BY <1>1, <1>3, <1>9 DEF UpdatesDecode, Decodable, Starts
<1> QED
  BY <1>4, <1>8, <1>10 DEF PackInv

\* A call that has prepared nothing.
Cleared(at) ==
  [at |-> at, packets |-> <<>>, key |-> 0, updates |-> FALSE, window |-> 0, temporary |-> NoFile]

\* Nothing is prepared when a call begins, fails, ends or is abandoned.
LEMMA IdleStep ==
  ASSUME task' \in Task, NEW at \in Steps, pack' = Cleared(at)
  PROVE  PackInv'
<1>1. pack'.packets = <<>> /\ pack'.key = 0
  BY DEF Cleared
<1>2. <<>> \in Seq(Packet)
  BY EmptySeq
<1>4. NoFile \in File
  <2>1. {} \in SUBSET Frames /\ FALSE \in BOOLEAN
    OBVIOUS
  <2> QED
    BY <1>2, <2>1 DEF NoFile, File
<1>3. PackTyped'
  BY <1>2, <1>4 DEF PackTyped, Cleared
<1> QED
  BY <1>1, <1>3, NothingPrepared DEF PackInv

\* Every step of the packer keeps the invariant.
LEMMA PackStep ==
  ASSUME PackInv, [PackNext]_packVars
  PROVE  PackInv'
<1> USE DEF PackInv
<1>1. ASSUME PrepareKeyframe PROVE PackInv'
  BY <1>1, KeyframeStep
<1>2. ASSUME PrepareUpdate PROVE PackInv'
  BY <1>2, UpdateStep
<1>3. ASSUME Prepared PROVE PackInv'
  BY <1>3, PreparedStep
<1>4. ASSUME Mux PROVE PackInv'
  <2>1. PICK intact \in BOOLEAN :
          pack' = [pack EXCEPT !.at = "tag",
                               !.temporary = [samples |-> pack.packets, keys |-> task.keys,
                                              tagged |-> FALSE, intact |-> intact]]
    BY <1>4 DEF Mux
  <2> DEFINE file == [samples |-> pack.packets, keys |-> task.keys, tagged |-> FALSE, intact |-> intact]
  <2>2. file \in File
    BY DEF PackTyped, Task, File
  <2> HIDE DEF file
  <2>3. task' = task /\ pack' = [pack EXCEPT !.at = "tag", !.temporary = file]
    BY <1>4, <2>1 DEF Mux, file
  <2>4. PackTyped'
    BY <2>2, <2>3 DEF PackTyped, Steps
  <2> QED
    BY <2>3, <2>4, PacketsKept DEF PackTyped
<1>5. ASSUME Tag PROVE PackInv'
  <2>1. task' = task /\ pack' = [pack EXCEPT !.at = "layout", !.temporary.tagged = TRUE]
    BY <1>5 DEF Tag
  <2> DEFINE file == [pack.temporary EXCEPT !.tagged = TRUE]
  <2>2. file \in File
    BY DEF PackTyped, File
  <2>3. pack' = [pack EXCEPT !.at = "layout", !.temporary = file]
    BY <2>1 DEF PackTyped
  <2> HIDE DEF file
  <2>4. PackTyped'
    BY <2>1, <2>2, <2>3 DEF PackTyped, Steps
  <2> QED
    BY <2>1, <2>3, <2>4, PacketsKept DEF PackTyped
<1>6. ASSUME Layout \/ Verify PROVE PackInv'
  <2>1. PICK at \in Steps : task' = task /\ pack' = [pack EXCEPT !.at = at]
    BY <1>6 DEF Layout, Verify, Steps
  <2>2. PackTyped'
    BY <2>1 DEF PackTyped
  <2> QED
    BY <2>1, <2>2, PacketsKept DEF PackTyped
<1>7. ASSUME Rename \/ Fail PROVE PackInv'
  <2>1. PICK at \in Steps : task' = task /\ pack' = Cleared(at)
    BY <1>7 DEF Rename, Fail, Steps, Idle, Cleared
  <2> QED
    BY <2>1, IdleStep DEF PackTyped
<1>8. ASSUME task' \in Task, Begin(task') PROVE PackInv'
  <2>1. PICK at \in Steps : pack' = Cleared(at)
    BY <1>8 DEF Begin, Steps, Idle, Cleared
  <2> QED
    BY <1>8, <2>1, IdleStep
<1>9. ASSUME TakeAway PROVE PackInv'
  <2>1. CASE pack' = pack
    BY <1>9, <2>1, PacketsKept DEF TakeAway, PackTyped
  <2>2. CASE pack' = Idle
    <3>1. "idle" \in Steps /\ pack' = Cleared("idle")
      BY <2>2 DEF Idle, Cleared, Steps
    <3> QED
      BY <1>9, <3>1, IdleStep DEF TakeAway, PackTyped
  <2> QED
    BY <1>9, <2>1, <2>2 DEF TakeAway
<1>10. ASSUME UNCHANGED packVars PROVE PackInv'
  BY <1>10, PacketsKept DEF packVars, PackTyped
<1> QED
  BY <1>1, <1>2, <1>3, <1>4, <1>5, <1>6, <1>7, <1>8, <1>9, <1>10 DEF PackNext, PackSteps

\* No call has been made.
LEMMA PackInitially ==
  ASSUME PackInit
  PROVE  PackInv
<1>1. pack.packets = <<>> /\ pack.key = 0 /\ task \in Task /\ pack = Cleared("idle")
  BY DEF PackInit, Idle, Cleared
<1>2. Len(<<>>) = 0 /\ DOMAIN <<>> = {} /\ <<>> \in Seq(Packet)
  BY EmptySeq
<1>3. NoFile \in File
  <2>1. {} \in SUBSET Frames /\ FALSE \in BOOLEAN
    OBVIOUS
  <2> QED
    BY <1>2, <2>1 DEF NoFile, File
<1>4. PackTyped
  BY <1>1, <1>2, <1>3 DEF PackTyped, Cleared, Steps
<1>5. WindowIsOpen /\ UpdatesDecode
  BY <1>1, <1>2, PackerAssumption DEF WindowIsOpen, UpdatesDecode
<1> QED
  BY <1>4, <1>5 DEF PackInv

\* The packer, whatever sequences and options it is called with, never names a whole
\* mesh that the player could not decode an update from.
THEOREM PackerDecodes == PackSpec => []UpdatesDecode
<1>1. PackInit => PackInv
  BY PackInitially
<1>2. PackInv /\ [PackNext]_packVars => PackInv'
  BY PackStep
<1>3. PackInv => UpdatesDecode
  BY DEF PackInv
<1> QED
  BY <1>1, <1>2, <1>3, PTL DEF PackSpec

-----------------------------------------------------------------------------
(* The host: every step of a job is a step of the packer or leaves it alone. *)

\* The window's settings are those of the run.
SetupKept == setup \in Setups

\* No step of a job changes the settings of the window.
LEMMA SetupStep ==
  ASSUME SetupKept, [Next]_vars
  PROVE  SetupKept'
BY DEF SetupKept, Next, vars, jobVars, Start, Cancel, Encode, EncodeFails, Cancelled,
       StartPacking, Packing, Packed, PackingFails, UnityPublishes, UnrealDeletes, UnrealMoves,
       UnrealMoveFails, StageManifest, ManifestRefused, DeleteOld, MoveStaged, Move,
       PublishingFails, UnrealRemovesManifest, UnrealRenamesManifest, Complete, Crash,
       End, OnlyJob, Consumed

\* What a host does is a step of the packer, takes the file away, or neither.
LEMMA JobStepPacks ==
  ASSUME SetupKept, [Next]_vars
  PROVE  [PackNext]_packVars
<1>1. ASSUME EncodeFails \/ Cancelled \/ PackingFails \/ UnrealMoveFails \/ ManifestRefused
             \/ PublishingFails \/ Complete \/ Crash
      PROVE  TakeAway
  BY <1>1 DEF EncodeFails, Cancelled, PackingFails, UnrealMoveFails, ManifestRefused,
     PublishingFails, Complete, Crash, End, TakeAway
<1>2. ASSUME UnityPublishes \/ UnrealMoves PROVE TakeAway
  BY <1>2 DEF UnityPublishes, UnrealMoves, Consumed, TakeAway
<1>3. ASSUME StartPacking PROVE task' \in Task /\ Begin(task')
  BY <1>3, JobAssumption DEF StartPacking, Begin, SetupKept
<1>4. ASSUME Packing PROVE PackSteps
  BY <1>4 DEF Packing
<1>5. ASSUME \/ Start \/ Cancel \/ Encode \/ Packed \/ UnrealDeletes \/ StageManifest
             \/ UnrealRemovesManifest \/ UnrealRenamesManifest
      PROVE  UNCHANGED packVars
  BY <1>5 DEF Start, Cancel, Encode, Packed, UnrealDeletes, StageManifest,
     UnrealRemovesManifest, UnrealRenamesManifest, OnlyJob
<1>6. ASSUME DeleteOld \/ MoveStaged PROVE UNCHANGED packVars
  BY <1>6 DEF DeleteOld, MoveStaged, Move
<1>7. ASSUME UNCHANGED vars PROVE UNCHANGED packVars
  BY <1>7 DEF vars
<1> QED
  BY <1>1, <1>2, <1>3, <1>4, <1>5, <1>6, <1>7 DEF Next, PackNext

\* The hosts call the packer as it means to be called.
THEOREM JobsPack == Spec => PackSpec
<1>1. Init => PackInit /\ SetupKept
  BY JobAssumption DEF Init, PackInit, SetupKept
<1>2. SetupKept /\ [Next]_vars => SetupKept'
  BY SetupStep
<1>3. SetupKept /\ [Next]_vars => [PackNext]_packVars
  BY JobStepPacks
<1> QED
  BY <1>1, <1>2, <1>3, PTL DEF Spec, PackSpec

\* So no job of either host prepares an update that cannot be decoded.
THEOREM JobsDecode == Spec => []UpdatesDecode
BY JobsPack, PackerDecodes, PTL

-----------------------------------------------------------------------------
(* Publishing: the inductive invariant of a job.                           *)

Making == {"geometry", "video", "encoded", "packing", "packed", "moving"}
Stages == Making \cup {"idle", "both", "delete", "move", "manifest", "rename", "published"}

JobTyped ==
  /\ job \in [n : Nat, at : Stages, rep : 1 .. 2, cancel : BOOLEAN,
              ended : {"none", "complete", "failed", "cancelled", "killed"}]
  /\ disk \in [Places -> Nat] /\ staged \in [Places -> Nat]
  /\ job.at # "idle" => job.n > 0
  /\ job.rep = 2 => setup.adaptive

\* Which host is where.
HostOfStage ==
  /\ job.at = "moving" => ~Unity
  /\ job.at \in {"both", "delete", "move"} => Unity

\* Where the low and the high file of this job are by the time of its manifest.
PairIsReady ==
  /\ job.at \in Making /\ job.rep = 2 =>
       IF Unity THEN staged.low = job.n ELSE disk.low = job.n
  /\ job.at \in {"both", "delete"} => staged.low = job.n /\ staged.high = job.n
  /\ job.at = "move" =>
       /\ staged.low = job.n \/ (staged.low = Nothing /\ disk.low = job.n)
       /\ staged.high = job.n \/ (staged.high = Nothing /\ disk.high = job.n)
  /\ job.at \in {"delete", "move"} => staged.manifest = job.n
  /\ job.at \in {"manifest", "rename"} => disk.low = job.n /\ disk.high = job.n

\* Unity writes to no destination before its last look at the cancel button.
Untouched ==
  /\ Unity /\ job.at \in Making \cup {"both"} => disk = before
  /\ Unity /\ job.ended = "cancelled" => disk = before
  /\ job.at # "idle" => job.ended = "none"

JobInv == JobTyped /\ HostOfStage /\ PairIsReady /\ Untouched

\* No job has been started.
LEMMA JobInit == Init => JobInv
BY DEF Init, JobInv, JobTyped, HostOfStage, PairIsReady, Untouched, Making, Stages, Empty, Places,
   Nothing

\* A job ends: what matters then is whether it was cancelled.
LEMMA EndStep ==
  ASSUME JobInv, job.at # "idle",
         NEW how \in {"complete", "failed", "cancelled"}, End(how),
         Unity /\ how = "cancelled" => disk = before
  PROVE  JobInv'
<1>1. /\ job' = [job EXCEPT !.at = "idle", !.ended = how] /\ staged' = Empty
      /\ setup' = setup /\ disk' = disk /\ before' = before
  BY DEF End
<1>2. JobTyped'
  BY <1>1 DEF JobInv, JobTyped, Stages, Empty, Places, Nothing
<1>3. job'.at = "idle" /\ job'.ended = how
  BY <1>1 DEF JobInv, JobTyped
<1>4. HostOfStage' /\ PairIsReady' /\ Untouched'
  BY <1>1, <1>3 DEF HostOfStage, PairIsReady, Untouched, Making, Unity
<1> QED
  BY <1>2, <1>4 DEF JobInv

\* A step of the representation that is being made, which publishes nothing.
LEMMA MakingStep ==
  ASSUME JobInv, job.at \in Making, NEW to \in Making, to # "moving",
         job' = [job EXCEPT !.at = to], UNCHANGED <<setup, disk, staged, before>>
  PROVE  JobInv'
<1>1. job'.at = to /\ job'.n = job.n /\ job'.rep = job.rep /\ job'.ended = job.ended
  BY DEF JobInv, JobTyped
<1>2. JobTyped'
  BY DEF JobInv, JobTyped, Stages, Making
<1>3. HostOfStage' /\ PairIsReady' /\ Untouched'
  BY <1>1 DEF JobInv, HostOfStage, PairIsReady, Untouched, Making, Unity
<1> QED
  BY <1>2, <1>3 DEF JobInv

\* The next representation, or what follows the last.
LEMMA AdvanceStep ==
  ASSUME JobInv, job.at \in {"packed", "moving"}, UNCHANGED <<setup, before>>,
         disk' \in [Places -> Nat], staged' \in [Places -> Nat],
         IF Unity THEN staged' = [staged EXCEPT ![Place] = job.n] /\ disk' = disk
         ELSE disk' = [disk EXCEPT ![Place] = job.n] /\ staged' = staged,
         setup.adaptive,
         Advance(IF Unity THEN "both" ELSE "manifest")
  PROVE  JobInv'
<1>1. Len(Representations) = 2 /\ Representations[1] = "low" /\ Representations[2] = "high"
  BY DEF Representations
<1>2. CASE job.rep = 1
  <2>1. job' = [job EXCEPT !.rep = 2, !.at = "geometry"] /\ Place = "low"
    BY <1>1, <1>2 DEF Advance, Place
  <2>2. job'.at = "geometry" /\ job'.rep = 2 /\ job'.n = job.n /\ job'.ended = job.ended
    BY <2>1 DEF JobInv, JobTyped
  <2>3. JobTyped'
    <3>1. "geometry" \in Stages /\ 2 \in 1 .. 2
      BY DEF Stages, Making
    <3>2. job'.rep = 2 => setup'.adaptive
      OBVIOUS
    <3>3. job.n > 0
      BY DEF JobInv, JobTyped
    <3> QED
      BY <2>1, <2>2, <3>1, <3>2, <3>3 DEF JobInv, JobTyped
  <2>4. PairIsReady'
    BY <2>1, <2>2 DEF JobInv, JobTyped, PairIsReady, Making, Unity, Places
  <2>5. HostOfStage' /\ Untouched'
    BY <2>2 DEF JobInv, HostOfStage, Untouched, Making, Unity
  <2> QED
    BY <2>3, <2>4, <2>5 DEF JobInv
<1>3. CASE job.rep = 2
  <2>1. job' = [job EXCEPT !.at = IF Unity THEN "both" ELSE "manifest"] /\ Place = "high"
    BY <1>1, <1>3 DEF Advance, Place
  <2>2. /\ job'.at = IF Unity THEN "both" ELSE "manifest"
        /\ job'.rep = 2 /\ job'.n = job.n /\ job'.ended = job.ended
    BY <1>3, <2>1 DEF JobInv, JobTyped
  <2>3. JobTyped'
    BY <2>1 DEF JobInv, JobTyped, Stages, Making
  <2>4. PairIsReady'
    <3>1. CASE Unity
      <4>1. staged'.low = job.n /\ staged'.high = job.n
        BY <1>3, <2>1, <3>1 DEF JobInv, JobTyped, PairIsReady, Making, Places
      <4> QED
        BY <2>2, <3>1, <4>1 DEF PairIsReady, Making
    <3>2. CASE ~Unity
      <4>1. disk'.low = job.n /\ disk'.high = job.n
        BY <1>3, <2>1, <3>2 DEF JobInv, JobTyped, PairIsReady, Making, Places
      <4> QED
        BY <2>2, <3>2, <4>1 DEF PairIsReady, Making
    <3> QED
      BY <3>1, <3>2
  <2>5. HostOfStage' /\ Untouched'
    BY <2>2 DEF JobInv, HostOfStage, Untouched, Making, Unity
  <2> QED
    BY <2>3, <2>4, <2>5 DEF JobInv
<1> QED
  BY <1>2, <1>3 DEF JobInv, JobTyped

\* A single file is published, and the job only has to end.
LEMMA PublishedStep ==
  ASSUME JobInv, job.at # "idle", job' = [job EXCEPT !.at = "published"],
         UNCHANGED <<setup, before>>, disk' \in [Places -> Nat], staged' \in [Places -> Nat]
  PROVE  JobInv'
<1>1. job'.at = "published" /\ job'.ended = job.ended /\ job.ended = "none"
  BY DEF JobInv, JobTyped, Untouched
<1>2. JobTyped'
  BY DEF JobInv, JobTyped, Stages
<1>3. HostOfStage' /\ PairIsReady' /\ Untouched'
  BY <1>1 DEF HostOfStage, PairIsReady, Untouched, Making, Unity
<1> QED
  BY <1>2, <1>3 DEF JobInv

\* Unreal deletes what is at the destination of the representation it has ready.
LEMMA UnrealDeletesStep ==
  ASSUME JobInv, UnrealDeletes
  PROVE  JobInv'
<1>1. /\ job' = [job EXCEPT !.at = "moving"] /\ job.at = "packed" /\ ~Unity
      /\ UNCHANGED <<setup, staged, before>>
  BY DEF UnrealDeletes, At, To
<1>2. /\ job'.at = "moving" /\ job'.n = job.n /\ job'.rep = job.rep /\ job'.ended = job.ended
  BY <1>1 DEF JobInv, JobTyped
<1>3. Place \in Places /\ (job.rep = 2 => Place = "high")
  BY DEF JobInv, JobTyped, Place, Places, Representations
<1>4. disk' \in [Places -> Nat] /\ (job.rep = 2 => disk'.low = disk.low)
  BY <1>3 DEF JobInv, JobTyped, UnrealDeletes, Nothing, Places
<1>5. JobTyped'
  BY <1>1, <1>4 DEF JobInv, JobTyped, Stages, Making
<1>6. HostOfStage' /\ PairIsReady' /\ Untouched'
  BY <1>1, <1>2, <1>4 DEF JobInv, HostOfStage, PairIsReady, Untouched, Making, Unity
<1> QED
  BY <1>5, <1>6 DEF JobInv

\* Both hosts put the file of a representation where it belongs.
LEMMA PublishRepresentation ==
  ASSUME JobInv, UnityPublishes \/ UnrealMoves
  PROVE  JobInv'
<1>1. job.at \in {"packed", "moving"} /\ UNCHANGED <<setup, before>> /\ job.at # "idle"
  BY DEF UnityPublishes, UnrealMoves, At, Consumed
<1>2. /\ Representations = IF setup.adaptive THEN <<"low", "high">> ELSE <<"single">>
      /\ job.rep = 2 => setup.adaptive
      /\ job.rep \in 1 .. 2
  BY DEF Representations, JobInv, JobTyped
<1>3. Place \in Places
  BY <1>2 DEF Place, Places
<1>4. CASE setup.adaptive
  <2>1. CASE UnityPublishes
    <3>1. /\ Unity /\ staged' = [staged EXCEPT ![Place] = job.n] /\ disk' = disk
          /\ Advance("both")
      BY <1>4, <2>1 DEF UnityPublishes
    <3>2. disk' \in [Places -> Nat] /\ staged' \in [Places -> Nat]
      BY <1>3, <3>1 DEF JobInv, JobTyped
    <3> QED
      BY <1>1, <1>4, <3>1, <3>2, AdvanceStep
  <2>2. CASE UnrealMoves
    <3>1. ~Unity /\ job.at = "moving"
      BY <2>2 DEF UnrealMoves, At, JobInv, HostOfStage
    <3>2. /\ disk' = [disk EXCEPT ![Place] = job.n] /\ staged' = staged
          /\ Advance("manifest")
      BY <1>4, <2>2 DEF UnrealMoves
    <3>3. disk' \in [Places -> Nat] /\ staged' \in [Places -> Nat]
      BY <1>3, <3>2 DEF JobInv, JobTyped
    <3> QED
      BY <1>1, <1>4, <3>1, <3>2, <3>3, AdvanceStep
  <2> QED
    BY <2>1, <2>2
<1>5. CASE ~setup.adaptive
  <2>1. Len(Representations) = 1 /\ job.rep = 1
    BY <1>2, <1>5
  <2>2. Advance("published")
    BY <1>5 DEF UnityPublishes, UnrealMoves
  <2>3. job' = [job EXCEPT !.at = "published"]
    BY <2>1, <2>2 DEF Advance
  <2>4. "single" \in Places
    BY DEF Places
  <2>5. disk' \in [Places -> Nat] /\ staged' \in [Places -> Nat]
    BY <1>3, <1>5, <2>4 DEF UnityPublishes, UnrealMoves, JobInv, JobTyped
  <2> QED
    BY <1>1, <2>3, <2>5, PublishedStep
<1> QED
  BY <1>4, <1>5

\* Unity's package: staged, then deleted, then moved.
LEMMA UnityPackageStep ==
  ASSUME JobInv, StageManifest \/ DeleteOld \/ MoveStaged
  PROVE  JobInv'
<1>1. /\ Unity /\ UNCHANGED <<setup, before>> /\ job.n \in Nat /\ job.n > 0 /\ Unity' = Unity
      /\ job.ended = "none"
  BY DEF StageManifest, DeleteOld, MoveStaged, Move, At, Unity, JobInv, JobTyped, HostOfStage, Untouched
<1>2. ASSUME StageManifest PROVE JobInv'
  <2>1. /\ job' = [job EXCEPT !.at = "delete"] /\ job.at = "both" /\ disk' = disk
        /\ staged' = [staged EXCEPT !.manifest = job.n]
    BY <1>2 DEF StageManifest, At, To
  <2>2. /\ job'.at = "delete" /\ job'.n = job.n /\ job'.ended = "none"
        /\ staged'.manifest = job.n /\ staged'.low = job.n /\ staged'.high = job.n
    BY <1>1, <2>1 DEF JobInv, JobTyped, PairIsReady, Places
  <2>3. JobTyped'
    BY <1>1, <2>1 DEF JobInv, JobTyped, Stages, Places
  <2>4. HostOfStage' /\ PairIsReady' /\ Untouched'
    BY <1>1, <2>2 DEF HostOfStage, PairIsReady, Untouched, Making
  <2> QED
    BY <2>3, <2>4 DEF JobInv
<1>3. ASSUME DeleteOld PROVE JobInv'
  <2>1. job.at = "delete" /\ staged' = staged /\ disk' \in [Places -> Nat]
    BY <1>3 DEF DeleteOld, At, JobInv, JobTyped, Nothing, Places
  <2>2. PICK to \in {"delete", "move"} : job' = [job EXCEPT !.at = to]
    <3>1. UNCHANGED job \/ job' = [job EXCEPT !.at = "move"]
      BY <1>3 DEF DeleteOld, To
    <3>2. job = [job EXCEPT !.at = "delete"]
      BY <2>1 DEF JobInv, JobTyped
    <3> QED
      BY <3>1, <3>2
  <2>3. job'.at = to /\ job'.n = job.n /\ job'.ended = "none"
    BY <1>1, <2>2 DEF JobInv, JobTyped
  <2>4. JobTyped'
    BY <1>1, <2>1, <2>2 DEF JobInv, JobTyped, Stages
  <2>5. staged.low = job.n /\ staged.high = job.n /\ staged.manifest = job.n
    BY <2>1 DEF JobInv, PairIsReady
  <2>6. HostOfStage' /\ PairIsReady' /\ Untouched'
    BY <1>1, <2>1, <2>3, <2>5 DEF HostOfStage, PairIsReady, Untouched, Making
  <2> QED
    BY <2>4, <2>6 DEF JobInv
<1>4. ASSUME MoveStaged PROVE JobInv'
  <2>1. job.at = "move" /\ Places = {"single", "low", "high", "manifest"}
    BY <1>4 DEF MoveStaged, At, Places
  <2>2. /\ staged.low = job.n \/ (staged.low = Nothing /\ disk.low = job.n)
        /\ staged.high = job.n \/ (staged.high = Nothing /\ disk.high = job.n)
        /\ staged.manifest = job.n
    BY <2>1 DEF JobInv, PairIsReady
  <2>3. ASSUME NEW p \in Places, Move(p)
        PROVE  /\ disk' \in [Places -> Nat] /\ staged' \in [Places -> Nat]
               /\ disk'[p] = staged[p] /\ staged'[p] = Nothing
               /\ \A r \in Places \ {p} : disk'[r] = disk[r] /\ staged'[r] = staged[r]
    BY <2>3 DEF Move, JobInv, JobTyped, Nothing
  <2>4. ASSUME NEW p \in {"low", "high"}, staged[p] # Nothing, Move(p), UNCHANGED job
        PROVE  JobInv'
    <3>1. JobTyped'
      BY <1>1, <2>1, <2>3, <2>4 DEF JobInv, JobTyped
    <3>2. PairIsReady'
      BY <2>1, <2>2, <2>3, <2>4 DEF PairIsReady, Making
    <3>3. HostOfStage' /\ Untouched'
      BY <1>1, <2>1, <2>4 DEF HostOfStage, Untouched, Making
    <3> QED
      BY <3>1, <3>2, <3>3 DEF JobInv
  <2>5. ASSUME Move("manifest"), job' = [job EXCEPT !.at = "published"]
        PROVE  JobInv'
    BY <1>1, <2>1, <2>3, <2>5, PublishedStep
  <2> QED
    BY <1>4, <2>4, <2>5 DEF MoveStaged, To
<1> QED
  BY <1>2, <1>3, <1>4

\* Unreal's manifest: the old one is removed, the new one renamed.
LEMMA UnrealManifestStep ==
  ASSUME JobInv, UnrealRemovesManifest \/ UnrealRenamesManifest
  PROVE  JobInv'
<1>1. /\ job.at \in {"manifest", "rename"} /\ UNCHANGED <<setup, staged, before>>
      /\ job.n \in Nat /\ job.ended = "none"
      /\ disk.low = job.n /\ disk.high = job.n
  BY DEF UnrealRemovesManifest, UnrealRenamesManifest, At, JobInv, JobTyped, PairIsReady, Untouched
<1>2. /\ disk' \in [Places -> Nat] /\ disk'.low = disk.low /\ disk'.high = disk.high
  BY DEF UnrealRemovesManifest, UnrealRenamesManifest, JobInv, JobTyped, Places, Nothing
<1>3. PICK to \in {"rename", "published"} : job' = [job EXCEPT !.at = to]
  BY DEF UnrealRemovesManifest, UnrealRenamesManifest, To
<1>4. job'.at = to /\ job'.n = job.n /\ job'.ended = "none"
  BY <1>1, <1>3 DEF JobInv, JobTyped
<1>5. JobTyped'
  BY <1>1, <1>2, <1>3 DEF JobInv, JobTyped, Stages
<1>6. HostOfStage' /\ PairIsReady' /\ Untouched'
  BY <1>1, <1>2, <1>4 DEF HostOfStage, PairIsReady, Untouched, Making
<1> QED
  BY <1>5, <1>6 DEF JobInv

\* Every step of a job keeps the invariant.
LEMMA JobStep ==
  ASSUME JobInv, [Next]_vars
  PROVE  JobInv'
<1>1. ASSUME Start PROVE JobInv'
  <2>1. /\ job' = [n |-> job.n + 1, at |-> "geometry", rep |-> 1, cancel |-> FALSE, ended |-> "none"]
        /\ before' = disk /\ UNCHANGED <<setup, disk, staged>>
    BY <1>1 DEF Start
  <2>2. JobTyped'
    BY <2>1 DEF JobInv, JobTyped, Stages, Making
  <2>3. HostOfStage' /\ PairIsReady' /\ Untouched'
    BY <2>1 DEF HostOfStage, PairIsReady, Untouched, Making
  <2> QED
    BY <2>2, <2>3 DEF JobInv
<1>2. ASSUME Cancel PROVE JobInv'
  <2>1. job' = [job EXCEPT !.cancel = TRUE] /\ UNCHANGED <<setup, disk, staged, before>>
    BY <1>2 DEF Cancel, OnlyJob
  <2>2. job'.at = job.at /\ job'.n = job.n /\ job'.rep = job.rep /\ job'.ended = job.ended
    BY <2>1 DEF JobInv, JobTyped
  <2>3. JobTyped'
    BY <2>1 DEF JobInv, JobTyped
  <2>4. HostOfStage' /\ PairIsReady' /\ Untouched'
    BY <2>1, <2>2 DEF JobInv, HostOfStage, PairIsReady, Untouched, Unity
  <2> QED
    BY <2>3, <2>4 DEF JobInv
<1>3. ASSUME Encode \/ StartPacking \/ Packed PROVE JobInv'
  <2>1. PICK to \in {"video", "encoded", "packing", "packed"} : job' = [job EXCEPT !.at = to]
    BY <1>3 DEF Encode, StartPacking, Packed, To
  <2>2. job.at \in Making /\ UNCHANGED <<setup, disk, staged, before>>
    BY <1>3 DEF Encode, StartPacking, Packed, At, OnlyJob, Making
  <2> QED
    BY <2>1, <2>2, MakingStep DEF Making
<1>4. ASSUME EncodeFails \/ PackingFails \/ UnrealMoveFails \/ ManifestRefused \/ PublishingFails
      PROVE  JobInv'
  <2>1. job.at # "idle" /\ End("failed")
    BY <1>4 DEF EncodeFails, PackingFails, UnrealMoveFails, ManifestRefused, PublishingFails, At
  <2> QED
    BY <2>1, EndStep
<1>5. ASSUME Cancelled PROVE JobInv'
  <2>1. job.at # "idle" /\ End("cancelled") /\ job.at \in CancelPoints
    BY <1>5 DEF Cancelled, CancelPoints
  <2>2. Unity => disk = before
    BY <2>1 DEF CancelPoints, Making, JobInv, Untouched
  <2> QED
    BY <2>1, <2>2, EndStep
<1>6. ASSUME Complete PROVE JobInv'
  <2>1. job.at # "idle" /\ End(IF job.cancel /\ ~Unity THEN "cancelled" ELSE "complete")
    BY <1>6 DEF Complete, At
  <2>2. CASE job.cancel /\ ~Unity
    BY <2>1, <2>2, EndStep
  <2>3. CASE ~(job.cancel /\ ~Unity)
    BY <2>1, <2>3, EndStep
  <2> QED
    BY <2>2, <2>3
<1>7. ASSUME Crash PROVE JobInv'
  <2>1. /\ job' = [job EXCEPT !.at = "idle", !.ended = "killed"] /\ staged' = Empty
        /\ UNCHANGED <<setup, disk, before>>
    BY <1>7 DEF Crash
  <2>2. job'.at = "idle" /\ job'.ended = "killed"
    BY <2>1 DEF JobInv, JobTyped
  <2>3. JobTyped'
    BY <2>1 DEF JobInv, JobTyped, Stages, Empty, Places, Nothing
  <2>4. HostOfStage' /\ PairIsReady' /\ Untouched'
    BY <2>1, <2>2 DEF HostOfStage, PairIsReady, Untouched, Making, Unity
  <2> QED
    BY <2>3, <2>4 DEF JobInv
<1>8. ASSUME Packing \/ UNCHANGED vars PROVE JobInv'
  <2>1. UNCHANGED jobVars
    BY <1>8 DEF Packing, vars
  <2> QED
    BY <2>1 DEF jobVars, JobInv, JobTyped, HostOfStage, PairIsReady, Untouched, Unity
<1> QED
  BY <1>1, <1>2, <1>3, <1>4, <1>5, <1>6, <1>7, <1>8, UnrealDeletesStep, PublishRepresentation,
     UnityPackageStep, UnrealManifestStep
  DEF Next

\* The invariant of a job holds for ever.
LEMMA JobInvariant == Spec => []JobInv
<1>1. JobInv /\ [Next]_vars => JobInv'
  BY JobStep
<1> QED
  BY <1>1, JobInit, PTL DEF Spec

\* A cancelled job of Unity changes no destination, however far it was.
THEOREM CancelChangesNothing == Spec => []CancelKeepsOutputs
<1>1. JobInv => CancelKeepsOutputs
  BY DEF JobInv, Untouched, CancelKeepsOutputs
<1> QED
  BY <1>1, JobInvariant, PTL

\* The only steps that write a manifest are Unity's last move and Unreal's rename.
THEOREM ManifestFollowsPair == Spec => ManifestIsLast
<1>1. ASSUME JobInv, [Next]_vars, disk'.manifest \notin {disk.manifest, Nothing}
      PROVE  disk'.low = disk'.manifest /\ disk'.high = disk'.manifest
  <2>1. disk' # disk /\ disk \in [Places -> Nat] /\ staged \in [Places -> Nat]
    BY <1>1 DEF JobInv, JobTyped
  <2>2. CASE UnityPublishes
    <3>1. disk' = [disk EXCEPT !.single = job.n]
      BY <2>1, <2>2 DEF UnityPublishes
    <3> QED
      BY <1>1, <2>1, <3>1 DEF Places
  <2>3. CASE UnrealDeletes \/ UnrealMoves
    <3>1. Place \in {"single", "low", "high"}
      BY <1>1 DEF Place, Representations, JobInv, JobTyped
    <3>2. disk'.manifest = disk.manifest
      BY <2>1, <2>3, <3>1 DEF UnrealDeletes, UnrealMoves, Places
    <3> QED
      BY <1>1, <3>2
  <2>4. CASE DeleteOld \/ UnrealRemovesManifest
    <3>1. disk'.manifest \in {disk.manifest, Nothing}
      BY <2>1, <2>4 DEF DeleteOld, UnrealRemovesManifest, Places
    <3> QED
      BY <1>1, <3>1
  <2>5. CASE MoveStaged
    <3>1. job.at = "move" /\ staged.manifest = job.n
      BY <1>1, <2>5 DEF MoveStaged, At, JobInv, PairIsReady
    <3>2. CASE Move("low") \/ Move("high")
      <4>1. disk'.manifest = disk.manifest
        BY <2>1, <3>2 DEF Move, Places
      <4> QED
        BY <1>1, <4>1
    <3>3. CASE staged.low = Nothing /\ staged.high = Nothing /\ Move("manifest")
      <4>1. job.n # Nothing
        BY <1>1, <3>1 DEF JobInv, JobTyped, Nothing
      <4>2. disk.low = job.n /\ disk.high = job.n
        BY <1>1, <3>1, <3>3, <4>1 DEF JobInv, PairIsReady
      <4>3. disk'.manifest = job.n /\ disk'.low = disk.low /\ disk'.high = disk.high
        BY <2>1, <3>1, <3>3 DEF Move, Places
      <4> QED
        BY <4>2, <4>3
    <3> QED
      BY <2>5, <3>2, <3>3 DEF MoveStaged
  <2>6. CASE UnrealRenamesManifest
    <3>1. disk.low = job.n /\ disk.high = job.n
      BY <1>1, <2>6 DEF UnrealRenamesManifest, At, JobInv, PairIsReady
    <3>2. disk' = [disk EXCEPT !.manifest = job.n]
      BY <2>6 DEF UnrealRenamesManifest
    <3> QED
      BY <2>1, <3>1, <3>2 DEF Places
  <2>7. ASSUME \/ Start \/ Cancel \/ Encode \/ EncodeFails \/ Cancelled \/ StartPacking \/ Packing
               \/ Packed \/ PackingFails \/ UnrealMoveFails \/ StageManifest \/ ManifestRefused
               \/ PublishingFails \/ Complete \/ Crash \/ UNCHANGED vars
        PROVE  disk' = disk
    BY <2>7 DEF Start, Cancel, Encode, EncodeFails, Cancelled, StartPacking, Packing, Packed,
       PackingFails, UnrealMoveFails, StageManifest, ManifestRefused, PublishingFails, Complete,
       Crash, End, OnlyJob, vars, jobVars
  <2> QED
    BY <1>1, <2>1, <2>2, <2>3, <2>4, <2>5, <2>6, <2>7 DEF Next
<1>2. JobInv /\ [Next]_vars =>
        (disk'.manifest \notin {disk.manifest, Nothing} =>
           disk'.low = disk'.manifest /\ disk'.high = disk'.manifest)
  BY <1>1
<1> QED
  BY <1>2, JobInvariant, PTL DEF Spec, ManifestIsLast

-----------------------------------------------------------------------------
(* The output path.                                                        *)

\* The temporary file is tagged before its layout is looked at, and is what was meant
\* once it has been read back.
TemporaryIsVerified ==
  /\ pack.at \in {"layout", "verify", "rename"} => pack.temporary.tagged
  /\ pack.at = "rename" => pack.temporary.intact

VerifiedInv == PackInv /\ TemporaryIsVerified /\ OutputIsVerified

\* Whatever fails, and wherever a call is abandoned, a file at the output path was
\* written as prepared, tagged and read back.
THEOREM OutputWasVerified == PackSpec => []OutputIsVerified
<1>1. PackInit => TemporaryIsVerified /\ OutputIsVerified
  BY DEF PackInit, Idle, TemporaryIsVerified, OutputIsVerified
<1>2. ASSUME VerifiedInv, [PackNext]_packVars
      PROVE  TemporaryIsVerified' /\ OutputIsVerified'
  <2>1. ASSUME PrepareKeyframe \/ PrepareUpdate \/ Prepared \/ Mux \/ Fail \/ Begin(task')
        PROVE  TemporaryIsVerified' /\ OutputIsVerified'
    <3>1. packaged' = packaged /\ pack'.at \in {"prepare", "mux", "tag", "failed"}
      BY <1>2, <2>1 DEF PrepareKeyframe, PrepareUpdate, Prepared, Mux, Fail, Begin, Idle,
         VerifiedInv, PackInv, PackTyped
    <3> QED
      BY <1>2, <3>1 DEF VerifiedInv, TemporaryIsVerified, OutputIsVerified
  <2>2. ASSUME Tag \/ Layout \/ Verify PROVE TemporaryIsVerified' /\ OutputIsVerified'
    <3>4. packaged' = packaged /\ pack'.at \in {"layout", "verify", "rename"}
      BY <1>2, <2>2 DEF Tag, Layout, Verify, VerifiedInv, PackInv, PackTyped
    <3>5. ASSUME Tag PROVE pack'.temporary.tagged
      <4>1. pack'.temporary = [pack.temporary EXCEPT !.tagged = TRUE]
        BY <1>2, <3>5 DEF Tag, VerifiedInv, PackInv, PackTyped
      <4>2. pack.temporary \in File
        BY <1>2 DEF VerifiedInv, PackInv, PackTyped
      <4> QED
        BY <4>1, <4>2 DEF File
    <3>6. ASSUME Layout \/ Verify PROVE pack'.temporary.tagged
      <4>1. pack'.temporary = pack.temporary
        BY <1>2, <3>6 DEF Layout, Verify, VerifiedInv, PackInv, PackTyped
      <4>2. pack.temporary.tagged
        BY <1>2, <3>6 DEF Layout, Verify, VerifiedInv, TemporaryIsVerified
      <4> QED
        BY <4>1, <4>2
    <3>1. packaged' = packaged /\ pack'.temporary.tagged /\ pack'.at \in {"layout", "verify", "rename"}
      BY <2>2, <3>4, <3>5, <3>6
    <3>2. pack'.at = "rename" => pack'.temporary.intact
      BY <1>2, <2>2 DEF Tag, Layout, Verify, VerifiedInv, PackInv, PackTyped
    <3> QED
      BY <1>2, <3>1, <3>2 DEF VerifiedInv, TemporaryIsVerified, OutputIsVerified
  <2>3. ASSUME Rename PROVE TemporaryIsVerified' /\ OutputIsVerified'
    <3>1. packaged' = pack.temporary /\ pack.temporary.tagged /\ pack.temporary.intact
      BY <1>2, <2>3 DEF Rename, VerifiedInv, TemporaryIsVerified
    <3>2. pack'.at = "done"
      BY <2>3 DEF Rename, Idle
    <3> QED
      BY <3>1, <3>2 DEF TemporaryIsVerified, OutputIsVerified
  <2>4. ASSUME TakeAway PROVE TemporaryIsVerified' /\ OutputIsVerified'
    <3>1. packaged' = NoFile /\ (pack' = pack \/ pack'.at = "idle")
      BY <2>4 DEF TakeAway, Idle
    <3> QED
      BY <1>2, <3>1 DEF VerifiedInv, TemporaryIsVerified, OutputIsVerified
  <2>5. CASE UNCHANGED packVars
    BY <1>2, <2>5 DEF packVars, VerifiedInv, TemporaryIsVerified, OutputIsVerified
  <2> QED
    BY <1>2, <2>1, <2>2, <2>3, <2>4, <2>5 DEF PackNext, PackSteps
<1>3. PackInit => PackInv
  BY PackInitially
<1>4. VerifiedInv /\ [PackNext]_packVars => VerifiedInv'
  BY <1>2, PackStep DEF VerifiedInv
<1> QED
  BY <1>1, <1>3, <1>4, PTL DEF PackSpec, VerifiedInv
==============================================================================
