---------------------------- MODULE StreamEndsProofs ---------------------------
(***************************************************************************)
(* Proofs about the two ends of the native pipeline: AudioRing, where PCM  *)
(* leaves it for the host, and HttpRangeSource, where bytes enter it.      *)
(*                                                                         *)
(* AudioRing, for a ring, packets, blocks, a track and a number of seeks   *)
(* of any size, and a host that lets no audio callback overlap a seek      *)
(* (~overlap, what Unity's component does): what is heard is the track in  *)
(* order, the read time that is computed from three loads is exact, and    *)
(* nothing of before a seek is heard after it.  Of every host, also one    *)
(* that seeks under a callback: what is buffered never wraps below zero.   *)
(* One number carries the argument: Due, the media time of the sample that *)
(* will be at the write position.  It gives every position its time        *)
(* (TimeAt), which a push leaves as it is and only a seek moves.  What is  *)
(* in the slots (Filled), what the origin says (Timeline), what an         *)
(* observer is about to say (Observed) and what was heard last (InOrder)   *)
(* all agree with it.  Positions stay far below the wrap, so that distances *)
(* modulo 2^64 and slots modulo the ring are those of the integers.        *)
(*                                                                         *)
(* HttpRangeSource, for a resource, a cache and files of any size: its     *)
(* variables keep their types and, when the blocks fetched ahead of a      *)
(* block leave room for it (RoomAhead, which the code's bound in bytes     *)
(* does not say), no reader sleeps on while what it needs is neither there *)
(* nor on its way.  Told says that no wake-up is lost between a test and   *)
(* the sleep it decides on; Owed, that the block a reader waits for is     *)
(* asked for, being fetched, or in the cache and not about to be evicted   *)
(* by what the worker still fetches (Spared).                              *)
(***************************************************************************)
EXTENDS AudioRing, HttpRangeSource, SequenceTheorems, FiniteSetTheorems, WellFoundedInduction, TLAPS

-----------------------------------------------------------------------------
(* Positions.                                                              *)

\* Multiples are a modulus apart.
LEMMA Product ==
  ASSUME NEW d \in Nat \ {0}, NEW x \in Int, NEW y \in Int, x < y
  PROVE  d * x + d <= d * y
<1>1. y - x \in Nat /\ y - x >= 1
  OBVIOUS
<1>2. d * (y - x) >= d
  BY <1>1
<1>3. d * (y - x) = d * y - d * x
  OBVIOUS
<1>4. d * x \in Int /\ d * y \in Int
  OBVIOUS
<1> QED
  BY <1>2, <1>3, <1>4

\* A remainder is unique.
LEMMA Unique ==
  ASSUME NEW d \in Nat \ {0}, NEW q \in Int, NEW p \in Int, NEW r \in 0 .. d - 1, NEW s \in 0 .. d - 1,
         d * q + r = d * p + s
  PROVE  r = s
<1>0. d * q \in Int /\ d * p \in Int
  OBVIOUS
<1>1. CASE q < p
  BY <1>0, <1>1, Product
<1>2. CASE p < q
  BY <1>0, <1>2, Product
<1>3. CASE p = q
  BY <1>0, <1>3
<1> QED
  BY <1>1, <1>2, <1>3

\* What % and \div are.
LEMMA Division ==
  ASSUME NEW d \in Nat \ {0}, NEW a \in Int
  PROVE  a % d \in 0 .. d - 1 /\ a \div d \in Int /\ a = d * (a \div d) + (a % d)
OBVIOUS

\* The remainder of a multiple and a rest is the rest.
LEMMA Remainder ==
  ASSUME NEW d \in Nat \ {0}, NEW q \in Int, NEW r \in 0 .. d - 1
  PROVE  (d * q + r) % d = r
<1> DEFINE a == d * q + r
<1>1. a \in Int
  OBVIOUS
<1>2. a % d \in 0 .. d - 1 /\ a \div d \in Int /\ a = d * (a \div d) + (a % d)
  BY <1>1, Division
<1> QED
  BY <1>2, Unique

\* What is smaller than the modulus is its own remainder.
LEMMA Small ==
  ASSUME NEW d \in Nat \ {0}, NEW r \in 0 .. d - 1
  PROVE  r % d = r
<1>1. d * 0 + r = r
  OBVIOUS
<1> QED
  BY <1>1, Remainder

\* The slot of position p lies p - w slots after the slot of w, around the ring.
LEMMA SlotDistance ==
  ASSUME NEW d \in Nat \ {0}, NEW p \in Nat, NEW w \in Nat
  PROVE  /\ p % d \in 0 .. d - 1
         /\ p >= w /\ p - w < d => ((p % d) - w) % d = p - w
         /\ p < w /\ w - p <= d => ((p % d) - w) % d = p - w + d
<1> DEFINE r == p % d
           k == p \div d
<1>1. r \in 0 .. d - 1 /\ k \in Int /\ p = d * k + r
  BY Division
<1>2. d * k \in Int
  BY <1>1
<1> HIDE DEF r, k
<1>3. ASSUME p >= w, p - w < d PROVE (r - w) % d = p - w
  <2>1. -k \in Int /\ p - w \in 0 .. d - 1
    BY <1>1, <1>3
  <2>2. d * (-k) = -(d * k)
    BY <1>1
  <2>3. r - w = d * (-k) + (p - w)
    BY <1>1, <1>2, <2>2
  <2> QED
    BY <2>1, <2>3, Remainder
<1>4. ASSUME p < w, w - p <= d PROVE (r - w) % d = p - w + d
  <2>1. -k - 1 \in Int /\ p - w + d \in 0 .. d - 1
    BY <1>1, <1>4
  <2>2. d * (-k - 1) = -(d * k) - d
    BY <1>1
  <2>3. r - w = d * (-k - 1) + (p - w + d)
    BY <1>1, <1>2, <2>2
  <2> QED
    BY <2>1, <2>3, Remainder
<1> QED
  BY <1>1, <1>3, <1>4 DEF r
-----------------------------------------------------------------------------
(* The invariant.                                                          *)

Flushing == ppc \in {"origin", "time"}
Pushing == ppc \in {"push", "publish"}

\* The media time of the sample that will be at the write position, and of those before it.
Due ==
  IF held # <<>> THEN Head(held).time ELSE IF discard # NoDiscard THEN discard ELSE pos
TimeAt(p) == Due - (write - p)

\* Up to where samples have been handed to the host.
Heard == IF cpc = "store" THEN read + cCount ELSE read

\* The positions never wrap, and the ring never holds more than it has slots.
Positions ==
  /\ read \in Nat /\ write \in Nat /\ originPosition \in Nat
  /\ read <= write /\ write - read <= Size /\ write <= MaxPosition
Producing ==
  /\ ppc \in {"idle", "push", "publish", "origin", "time"} /\ ~failed
  /\ Pushing => held # <<>> /\ write + Len(held) <= MaxPosition /\ write - read + Len(held) <= Size
  /\ ~Pushing => held = <<>>
  /\ Flushing => read = write /\ opc \in {"idle", "done"}
  /\ ppc = "time" => originPosition = read
Consuming ==
  /\ cpc \in {"idle", "count", "copy", "store"} /\ cCount \in Nat
  /\ cpc # "idle" => cRead = read /\ cSeek = seek /\ ~Flushing
  /\ cpc \in {"copy", "store"} => cCount <= write - read

\* What is not read yet follows sample by sample up to what is decoded next.
Decoding ==
  /\ seek \in Nat /\ pos \in Nat /\ seekTo \in Time /\ discard \in Time \cup {NoDiscard}
  /\ held \in Seq([seek : Nat, time : Nat])
  /\ \A i \in 1 .. Len(held) : held[i] = [seek |-> seek, time |-> Due + i - 1]
  /\ held # <<>> => discard = NoDiscard /\ pos = Due + Len(held)
  /\ Flushing => pos <= seekTo
  /\ ~Flushing /\ discard # NoDiscard => pos <= discard
Filled ==
  /\ \A p \in read .. write - 1 : slots[p % Size] = [seek |-> seek, time |-> TimeAt(p)]
  /\ ppc = "publish" => \A i \in 1 .. Len(held) : slots[(write + i - 1) % Size] = held[i]

\* The origin and its time tell the time of the read position.
Timeline ==
  /\ originTime \in Nat
  /\ ~Flushing => originPosition <= read /\ TimeAt(read) = originTime + (read - originPosition)
Observed ==
  /\ opc \in {"idle", "origin", "time", "done"}
  /\ opc \in {"origin", "time"} =>
       /\ oRead \in Nat /\ originPosition <= oRead /\ oRead <= write
       /\ oNext = originTime + (oRead - originPosition)
  /\ opc = "time" => oOrigin = originPosition
  /\ opc = "done" => oTime = oNext

\* What was heard last is followed by what is read next.
Follows(a, b) ==
  \/ b.seek = a.seek /\ b.time = a.time + 1
  \/ b.seek > a.seek /\ b.time = targets[b.seek]
InOrder ==
  /\ heard \in Seq([seek : Nat, time : Nat, begun : Nat])
  /\ targets \in Seq(Nat) /\ Len(targets) = seek
  /\ \A i \in 1 .. Len(heard) : heard[i].seek <= seek /\ heard[i].begun <= heard[i].seek
  /\ \A i \in 1 .. Len(heard) - 1 : Follows(heard[i], heard[i + 1])
  /\ heard # <<>> /\ ~Flushing =>
       Follows(heard[Len(heard)], [seek |-> seek, time |-> TimeAt(Heard)])

RingInv == Positions /\ Producing /\ Consuming /\ Decoding /\ Filled /\ Timeline /\ Observed /\ InOrder


-----------------------------------------------------------------------------
(* What the invariant says of distances and times.                         *)

\* Positions are far from the wrap.
LEMMA Distances ==
  ASSUME NEW a \in Nat, NEW b \in Nat, b <= a, a <= MaxPosition + Size
  PROVE  Distance(a, b) = a - b
<1>1. Wrap \in Nat \ {0} /\ a - b \in 0 .. Wrap - 1
  BY RingAssumption
<1> QED
  BY <1>1, Small DEF Distance

\* The producer's count of the room is exact.
LEMMA Room ==
  ASSUME Positions
  PROVE  /\ Distance(write, read) = write - read
         /\ Available = Size - (write - read)
<1>1. Distance(write, read) = write - read
  BY Distances, RingAssumption DEF Positions
<1>2. Distance(Size, write - read) = Size - (write - read)
  BY Distances, RingAssumption DEF Positions
<1> QED
  BY <1>1, <1>2 DEF Available

\* What is due is a time of the track or after it.
LEMMA DueIsTime ==
  ASSUME Decoding
  PROVE  Due \in Nat
<1>1. discard \in Nat /\ pos \in Nat
  BY RingAssumption DEF Decoding, Time, NoDiscard
<1>2. ASSUME held # <<>> PROVE Head(held).time \in Nat
  <2>1. held \in Seq([seek : Nat, time : Nat])
    BY DEF Decoding
  <2>2. Head(held) \in [seek : Nat, time : Nat]
    BY <1>2, <2>1, HeadTailProperties
  <2> QED
    BY <2>2
<1> QED
  BY <1>1, <1>2 DEF Due

\* A packet decoded after the last one is the run of the samples that are due.
LEMMA DecodesDue ==
  ASSUME Decoding, Positions, Producing, Decode
  PROVE  /\ Due' = Due
         /\ held' \in Seq([seek : Nat, time : Nat]) /\ Len(held') <= Packet
         /\ \A i \in 1 .. Len(held') : held'[i] = [seek |-> seek, time |-> Due + i - 1]
         /\ held' # <<>> => discard' = NoDiscard /\ pos' = Due + Len(held')
         /\ held' = <<>> => discard' = discard /\ (discard # NoDiscard => pos' <= discard)
         /\ pos' \in Nat
<1> DEFINE f == FirstKept(pos)
           t == pos + Packet
<1>1. /\ held = <<>> /\ held' = Run(f, t) /\ pos' = t /\ ppc = "idle"
      /\ discard' = IF held' = <<>> THEN discard ELSE NoDiscard
  BY DEF Decode, Producing, Pushing
<1>2. /\ pos \in Nat /\ seek \in Nat /\ Packet \in Nat /\ Packet >= 1
      /\ discard \in Nat /\ (discard # NoDiscard => pos <= discard)
  BY <1>1, RingAssumption DEF Decoding, Time, NoDiscard, Flushing
<1>3. Due = IF discard # NoDiscard THEN discard ELSE pos
  BY <1>1 DEF Due
<1>4. /\ f \in Nat /\ t \in Nat /\ f <= t /\ t - f <= Packet
      /\ f < t => f = Due
      /\ f = t => discard # NoDiscard /\ t <= discard
  BY <1>2, <1>3 DEF FirstKept
<1> HIDE DEF f, t
<1> DEFINE n == t - f
<1>5. n \in Nat /\ held' = [i \in 1 .. n |-> [seek |-> seek, time |-> f + i - 1]]
  BY <1>1, <1>4 DEF Run
<1> HIDE DEF n
<1>6. \A i \in 1 .. n : [seek |-> seek, time |-> f + i - 1] \in [seek : Nat, time : Nat]
  BY <1>2, <1>4, <1>5
<1>7. /\ held' \in Seq([seek : Nat, time : Nat]) /\ Len(held') = n
      /\ \A i \in 1 .. n : held'[i] = [seek |-> seek, time |-> f + i - 1]
  <2>1. \A i \in 1 .. n : held'[i] = [seek |-> seek, time |-> f + i - 1]
    BY <1>5
  <2>2. held' \in Seq([seek : Nat, time : Nat])
    BY <1>5, <1>6
  <2>3. Len(held') = n
    BY <1>5
  <2> QED
    BY <2>1, <2>2, <2>3
<1>8. held' = <<>> <=> n = 0
  BY <1>5, <1>7, EmptySeq
<1>9. CASE n = 0
  <2>1. f = t /\ held' = <<>>
    BY <1>4, <1>8, <1>9 DEF n
  <2>2. Due' = Due
    BY <1>1, <1>3, <1>4, <2>1 DEF Due
  <2> QED
    BY <1>1, <1>2, <1>4, <1>7, <1>9, <2>1, <2>2
<1>10. CASE n # 0
  <2>1. f < t /\ held' # <<>> /\ f = Due /\ n = t - f
    BY <1>4, <1>8, <1>10 DEF n
  <2>2. Head(held') = held'[1] /\ 1 \in 1 .. n
    BY <1>5, <1>7, <1>10, <2>1, HeadTailProperties
  <2>3. Head(held').time = f
    BY <1>7, <2>2, <1>4
  <2>4. Due' = Due
    BY <2>1, <2>3 DEF Due
  <2>5. pos' = Due + n /\ n <= Packet
    BY <1>1, <1>4, <2>1
  <2> QED
    BY <1>1, <1>4, <1>7, <2>1, <2>4, <2>5
<1> QED
  BY <1>9, <1>10

-----------------------------------------------------------------------------
(* The invariant holds at first and while nothing changes.                 *)

\* The ring is empty and the first sample is due.
LEMMA InitRing == Init => RingInv
<1> SUFFICES ASSUME Init PROVE RingInv
  OBVIOUS
<1>1. <<>> \in Seq([seek : Nat, time : Nat]) /\ Len(<<>>) = 0 /\ <<>> \in Seq(Nat)
      /\ <<>> \in Seq([seek : Nat, time : Nat, begun : Nat]) /\ 1 .. 0 = {} /\ 0 .. -1 = {}
  OBVIOUS
<1>2. Positions /\ Producing /\ Consuming
  BY RingAssumption DEF Init, Positions, Producing, Consuming, Pushing, Flushing
<1>3. Decoding
  BY <1>1, RingAssumption DEF Init, Decoding, Time, NoDiscard
<1>4. Due = 0
  BY DEF Init, Due
<1>5. Filled /\ Timeline /\ Observed
  BY <1>4 DEF Init, Filled, Timeline, Observed, TimeAt
<1>6. InOrder
  BY <1>1 DEF Init, InOrder
<1> QED
  BY <1>2, <1>3, <1>5, <1>6 DEF RingInv

\* A step of nobody.
LEMMA RingStutters ==
  ASSUME RingInv, UNCHANGED vars
  PROVE  RingInv'
<1> USE DEF vars, ringVars, originVars, producerVars, consumerVars, observerVars
<1>1. Due' = Due /\ Heard' = Heard /\ \A p : TimeAt(p)' = TimeAt(p)
  BY DEF Due, Heard, TimeAt
<1>2. Positions' /\ Producing' /\ Consuming'
  BY DEF RingInv, Positions, Producing, Consuming, Pushing, Flushing
<1>3. Decoding' /\ Filled'
  BY <1>1 DEF RingInv, Decoding, Filled, Flushing, TimeAt
<1>4. Timeline' /\ Observed' /\ InOrder'
  BY <1>1 DEF RingInv, Timeline, Observed, InOrder, Flushing, Follows
<1> QED
  BY <1>2, <1>3, <1>4 DEF RingInv

\* While the time of the samples and what was heard stay, so does the order.
LEMMA OrderKept ==
  ASSUME RingInv, UNCHANGED <<heard, targets, seek>>,
         ~Flushing' => ~Flushing /\ TimeAt(Heard)' = TimeAt(Heard)
  PROVE  InOrder'
BY DEF RingInv, InOrder, Follows

-----------------------------------------------------------------------------
(* The demux thread keeps it.                                              *)

\* What is decoded is what is due.
LEMMA DecodeKeeps ==
  ASSUME RingInv, Decode
  PROVE  RingInv'
<1> USE DEF ringVars, originVars, consumerVars, observerVars
<1>0. Positions /\ Producing /\ Consuming /\ Decoding /\ Filled /\ Timeline /\ Observed
  BY DEF RingInv
<1>1. /\ ppc = "idle" /\ AcceptsPacket /\ write + Packet <= MaxPosition
      /\ ppc' = IF held' = <<>> THEN "idle" ELSE "push"
      /\ UNCHANGED <<slots, write, read, originPosition, originTime, seek, seekTo, targets, failed,
                     cpc, cRead, cCount, cSeek, heard, opc, oRead, oOrigin, oTime, oNext>>
  BY DEF Decode
<1>2. /\ Due' = Due
      /\ held' \in Seq([seek : Nat, time : Nat]) /\ Len(held') <= Packet /\ Len(held') \in Nat
      /\ \A i \in 1 .. Len(held') : held'[i] = [seek |-> seek, time |-> Due + i - 1]
      /\ held' # <<>> => discard' = NoDiscard /\ pos' = Due + Len(held')
      /\ held' = <<>> => discard' = discard /\ (discard # NoDiscard => pos' <= discard)
      /\ pos' \in Nat
  BY <1>0, DecodesDue, LenProperties
<1>3. ~Flushing /\ ~Flushing' /\ (Pushing' <=> held' # <<>>)
  BY <1>1 DEF Flushing, Pushing
<1>4. Heard' = Heard /\ \A p : TimeAt(p)' = TimeAt(p)
  BY <1>1, <1>2 DEF Heard, TimeAt
<1>5. Positions'
  BY <1>0, <1>1 DEF Positions
<1>6. Producing'
  <2>1. Size - (write - read) >= Packet /\ Packet \in Nat
    BY <1>0, <1>1, Room, RingAssumption DEF AcceptsPacket, Positions
  <2> QED
    BY <1>0, <1>1, <1>2, <1>3, <2>1, RingAssumption DEF Producing, Positions
<1>7. Consuming'
  BY <1>0, <1>1, <1>3 DEF Consuming
<1>8. Decoding'
  BY <1>0, <1>1, <1>2, <1>3 DEF Decoding
<1>9. Filled'
  BY <1>0, <1>1, <1>4 DEF Filled
<1>10. Timeline' /\ Observed'
  BY <1>0, <1>1, <1>3, <1>4 DEF Timeline, Observed
<1>11. InOrder'
  <2>1. TimeAt(Heard)' = TimeAt(Heard)
    BY <1>2, <1>4, <1>1 DEF TimeAt
  <2> QED
    BY <1>1, <1>3, <2>1, OrderKept
<1> QED
  BY <1>5, <1>6, <1>7, <1>8, <1>9, <1>10, <1>11 DEF RingInv

\* The slots that are filled are not those that wait to be read.
LEMMA PushKeeps ==
  ASSUME RingInv, Push
  PROVE  RingInv'
<1> USE DEF ringVars, originVars, consumerVars, observerVars
<1>0. Positions /\ Producing /\ Consuming /\ Decoding /\ Filled /\ Timeline /\ Observed
  BY DEF RingInv
<1>1. /\ ppc = "push" /\ UNCHANGED <<write, read>>
      /\ UNCHANGED <<originPosition, originTime, discard, seek, pos, held, seekTo, targets>>
      /\ UNCHANGED <<cpc, cRead, cCount, cSeek, heard, opc, oRead, oOrigin, oTime, oNext>>
  BY DEF Push
<1>2. /\ held # <<>> /\ write + Len(held) <= MaxPosition /\ write - read + Len(held) <= Size
      /\ Len(held) \in Nat /\ ~failed
  BY <1>0, <1>1, LenProperties DEF Producing, Pushing, Decoding
<1>3. ~(Len(held) > Available)
  <2>1. Available = Size - (write - read)
    BY <1>0, Room
  <2> QED
    BY <1>0, <1>2, <2>1, RingAssumption DEF Positions
<1> DEFINE n(i) == ((i - write) % Size) + 1
<1>4. /\ ppc' = "publish" /\ UNCHANGED failed
      /\ slots' = [i \in 0 .. Size - 1 |-> IF n(i) <= Len(held) THEN held[n(i)] ELSE slots[i]]
  BY <1>3 DEF Push
<1> HIDE DEF n
<1>5. ~Flushing /\ ~Flushing' /\ Pushing' /\ Due' = Due /\ Heard' = Heard /\ \A p : TimeAt(p)' = TimeAt(p)
  BY <1>1, <1>4 DEF Flushing, Pushing, Due, Heard, TimeAt
<1>6. Positions' /\ Producing' /\ Consuming'
  BY <1>0, <1>1, <1>2, <1>4, <1>5 DEF Positions, Producing, Consuming
<1>7. Decoding'
  BY <1>0, <1>1, <1>5 DEF Decoding
<1>8. Filled'
  <2>1. ASSUME NEW p \in read .. write - 1 PROVE slots'[p % Size] = slots[p % Size]
    <3>1. p \in Nat /\ write \in Nat /\ p < write /\ write - p <= Size /\ p - write + Size + 1 > Len(held)
      BY <1>0, <1>2, RingAssumption DEF Positions
    <3>2. p % Size \in 0 .. Size - 1 /\ ((p % Size) - write) % Size = p - write + Size
      BY <3>1, SlotDistance, RingAssumption
    <3>3. n(p % Size) = p - write + Size + 1
      BY <3>2 DEF n
    <3>4. ~(n(p % Size) <= Len(held))
      BY <1>2, <3>1, <3>3, RingAssumption
    <3> QED
      BY <1>4, <3>2, <3>4
  <2>2. ASSUME NEW i \in 1 .. Len(held) PROVE slots'[(write + i - 1) % Size] = held[i]
    <3> DEFINE p == write + i - 1
    <3>1. p \in Nat /\ write \in Nat /\ p >= write /\ p - write < Size /\ p - write + 1 = i
      BY <1>0, <1>2, RingAssumption DEF Positions
    <3> HIDE DEF p
    <3>2. Size \in Nat \ {0}
      BY RingAssumption
    <3>3. p % Size \in 0 .. Size - 1 /\ ((p % Size) - write) % Size = p - write
      BY <3>1, <3>2, SlotDistance
    <3>4. n(p % Size) = i
      BY <3>1, <3>3 DEF n
    <3>5. slots'[p % Size] = held[i]
      BY <1>2, <1>4, <3>3, <3>4
    <3> QED
      BY <3>5 DEF p
  <2> QED
    BY <1>0, <1>1, <1>5, <2>1, <2>2 DEF Filled
<1>9. Timeline' /\ Observed'
  BY <1>0, <1>1, <1>5 DEF Timeline, Observed
<1>10. InOrder'
  <2>1. TimeAt(Heard)' = TimeAt(Heard)
    BY <1>1, <1>5 DEF TimeAt
  <2> QED
    BY <1>1, <1>5, <2>1, OrderKept
<1> QED
  BY <1>6, <1>7, <1>8, <1>9, <1>10 DEF RingInv

\* What was pushed is what is waiting to be read.
LEMMA PublishKeeps ==
  ASSUME RingInv, Publish
  PROVE  RingInv'
<1> USE DEF ringVars, originVars, consumerVars, observerVars
<1>0. Positions /\ Producing /\ Consuming /\ Decoding /\ Filled /\ Timeline /\ Observed
  BY DEF RingInv
<1> DEFINE l == Len(held)
<1>1. /\ ppc = "publish" /\ ppc' = "idle" /\ held' = <<>> /\ write' = (write + l) % Wrap
      /\ UNCHANGED <<slots, read, failed, originPosition, originTime, discard, seek, pos, seekTo, targets>>
      /\ UNCHANGED <<cpc, cRead, cCount, cSeek, heard, opc, oRead, oOrigin, oTime, oNext>>
  BY DEF Publish
<1>2. /\ held # <<>> /\ write + l <= MaxPosition /\ write - read + l <= Size /\ l \in Nat
      /\ read \in Nat /\ write \in Nat /\ read <= write
  BY <1>0, <1>1, LenProperties DEF Producing, Pushing, Decoding, Positions
<1>3. write' = write + l
  <2>1. write + l \in 0 .. Wrap - 1 /\ Wrap \in Nat \ {0}
    BY <1>2, RingAssumption
  <2> QED
    BY <1>1, <2>1, Small
<1>4. Due' = Due + l /\ discard = NoDiscard /\ pos = Due + l /\ Due \in Nat
  <2>1. discard = NoDiscard /\ pos = Due + l
    BY <1>0, <1>2 DEF Decoding
  <2>2. Due' = pos
    BY <1>1, <2>1 DEF Due
  <2> QED
    BY <1>0, <2>1, <2>2, DueIsTime
<1> HIDE DEF l
<1>5. ~Flushing /\ ~Flushing' /\ ~Pushing' /\ Heard' = Heard
  BY <1>1 DEF Flushing, Pushing, Heard
<1>6. ASSUME NEW p \in Int PROVE Due' - (write' - p) = TimeAt(p)
  BY <1>2, <1>3, <1>4 DEF TimeAt
<1>7. Positions' /\ Producing' /\ Consuming'
  <2>1. Positions'
    BY <1>0, <1>1, <1>2, <1>3 DEF Positions
  <2>2. Producing'
    BY <1>0, <1>1, <1>5 DEF Producing
  <2>3. Consuming'
    BY <1>0, <1>1, <1>2, <1>3, <1>5 DEF Consuming
  <2> QED
    BY <2>1, <2>2, <2>3
<1>8. Decoding'
  <2>1. held' \in Seq([seek : Nat, time : Nat]) /\ Len(held') = 0
    BY <1>1
  <2> QED
    BY <1>0, <1>1, <1>4, <1>5, <2>1 DEF Decoding
<1>9. Filled'
  <2>1. ASSUME NEW p \in read .. write' - 1 PROVE slots[p % Size] = [seek |-> seek, time |-> TimeAt(p)]
    <3>1. CASE p < write
      BY <1>0, <1>2, <1>3, <3>1 DEF Filled
    <3>2. CASE p >= write
      <4> DEFINE i == p - write + 1
      <4>1. i \in 1 .. l /\ write + i - 1 = p /\ Due + i - 1 = TimeAt(p)
        BY <1>2, <1>3, <1>4, <3>2 DEF TimeAt
      <4> HIDE DEF i
      <4>2. slots[(write + i - 1) % Size] = held[i] /\ held[i] = [seek |-> seek, time |-> Due + i - 1]
        BY <1>0, <1>1, <4>1 DEF Filled, Decoding, l
      <4> QED
        BY <4>1, <4>2
    <3> QED
      BY <1>2, <1>3, <3>1, <3>2
  <2>2. ASSUME NEW p \in read' .. write' - 1 PROVE slots'[p % Size] = [seek |-> seek', time |-> Due' - (write' - p)]
    <3>1. p \in read .. write' - 1 /\ p \in Int
      BY <1>1, <1>2, <1>3
    <3> QED
      BY <1>1, <1>6, <2>1, <3>1
  <2> QED
    BY <1>1, <2>2 DEF Filled, TimeAt
<1>10. Timeline' /\ Observed'
  <2>1. Due' - (write' - read) = TimeAt(read)
    BY <1>2, <1>6
  <2>2. TimeAt(read)' = TimeAt(read)
    BY <1>1, <2>1 DEF TimeAt
  <2> QED
    BY <1>0, <1>1, <1>2, <1>3, <1>5, <2>2 DEF Timeline, Observed
<1>11. InOrder'
  <2>1. Heard \in Int
    BY <1>0, <1>2 DEF Heard, Consuming
  <2>2. TimeAt(Heard)' = TimeAt(Heard)
    BY <1>5, <1>6, <2>1 DEF TimeAt
  <2> QED
    BY <1>1, <1>5, <2>2, OrderKept
<1> QED
  BY <1>7, <1>8, <1>9, <1>10, <1>11 DEF RingInv

\* Nobody reads or observes while the buffered samples are discarded...
LEMMA SeekFlushKeeps ==
  ASSUME ~overlap, RingInv, NEW t \in Time, SeekFlush(t)
  PROVE  RingInv'
<1> USE DEF ringVars, originVars, consumerVars, observerVars
<1>0. Positions /\ Producing /\ Consuming /\ Decoding /\ Observed
  BY DEF RingInv
<1>1. /\ ppc = "idle" /\ ppc' = "origin" /\ seekTo' = t /\ read' = write
      /\ UNCHANGED <<slots, write, failed, originPosition, originTime, discard, seek, held, targets>>
      /\ UNCHANGED <<cpc, cRead, cCount, cSeek, heard, opc, oRead, oOrigin, oTime, oNext>>
  BY DEF SeekFlush, Flushed
<1>2. cpc = "idle" /\ opc \in {"idle", "done"}
  BY DEF SeekFlush, Quiet
<1>3. t \in Nat /\ pos' \in Nat /\ pos' <= t
  <2>1. t \in Nat
    BY RingAssumption DEF Time
  <2>2. PICK landing \in 0 .. t : pos' = landing
    BY DEF SeekFlush
  <2> QED
    BY <2>1, <2>2
<1>4. ~Flushing /\ Flushing' /\ ~Pushing /\ ~Pushing' /\ held = <<>>
  BY <1>0, <1>1 DEF Flushing, Pushing, Producing
<1>5. Positions' /\ Producing' /\ Consuming'
  <2>1. Positions'
    BY <1>0, <1>1, RingAssumption DEF Positions
  <2>2. Producing'
    BY <1>0, <1>1, <1>2, <1>4 DEF Producing
  <2>3. Consuming'
    BY <1>0, <1>1, <1>2 DEF Consuming
  <2> QED
    BY <2>1, <2>2, <2>3
<1>6. Decoding'
  <2>1. Len(held) = 0
    BY <1>4
  <2> QED
    BY <1>0, <1>1, <1>3, <1>4, <2>1 DEF Decoding
<1>7. Filled'
  <2>1. read' .. write' - 1 = {}
    BY <1>0, <1>1 DEF Positions
  <2> QED
    BY <1>1, <2>1 DEF Filled
<1>8. Timeline' /\ Observed'
  <2>1. originTime' \in Nat
    BY <1>1 DEF RingInv, Timeline
  <2> QED
    BY <1>0, <1>1, <1>2, <1>4, <2>1 DEF Timeline, Observed
<1>9. InOrder'
  BY <1>1, <1>4, OrderKept
<1> QED
  BY <1>5, <1>6, <1>7, <1>8, <1>9 DEF RingInv

\* ...the origin follows the read position...
LEMMA SeekOriginKeeps ==
  ASSUME RingInv, SeekOrigin
  PROVE  RingInv'
<1> USE DEF ringVars, originVars, consumerVars, observerVars
<1>0. Positions /\ Producing /\ Consuming /\ Decoding /\ Filled /\ Observed
  BY DEF RingInv
<1>1. /\ ppc = "origin" /\ ppc' = "time" /\ originPosition' = read
      /\ UNCHANGED <<slots, write, read, failed, originTime, discard, seek, pos, held, seekTo, targets>>
      /\ UNCHANGED <<cpc, cRead, cCount, cSeek, heard, opc, oRead, oOrigin, oTime, oNext>>
  BY DEF SeekOrigin, OriginMoved
<1>2. Flushing /\ Flushing' /\ ~Pushing /\ ~Pushing' /\ held = <<>> /\ read = write /\ opc \in {"idle", "done"}
  BY <1>0, <1>1 DEF Flushing, Pushing, Producing
<1>3. Due' = Due
  BY <1>1 DEF Due
<1>4. Positions' /\ Producing' /\ Consuming'
  BY <1>0, <1>1, <1>2 DEF Positions, Producing, Consuming
<1>5. Decoding'
  BY <1>0, <1>1, <1>2, <1>3 DEF Decoding
<1>6. Filled'
  <2>1. read' .. write' - 1 = {}
    BY <1>0, <1>1, <1>2 DEF Positions
  <2> QED
    BY <1>1, <2>1 DEF Filled
<1>7. Timeline' /\ Observed'
  <2>1. originTime' \in Nat
    BY <1>1 DEF RingInv, Timeline
  <2> QED
    BY <1>0, <1>1, <1>2, <2>1 DEF Timeline, Observed
<1>8. InOrder'
  BY <1>1, <1>2, OrderKept
<1> QED
  BY <1>4, <1>5, <1>6, <1>7, <1>8 DEF RingInv

\* ...and stands for the time sought, which is due now.
LEMMA SeekTimeKeeps ==
  ASSUME RingInv, SeekTime
  PROVE  RingInv'
<1> USE DEF ringVars, originVars, consumerVars, observerVars
<1>0. Positions /\ Producing /\ Consuming /\ Decoding /\ Filled /\ Timeline /\ Observed /\ InOrder
  BY DEF RingInv
<1>1. /\ ppc = "time" /\ ppc' = "idle" /\ originTime' = seekTo /\ discard' = seekTo
      /\ seek' = seek + 1 /\ targets' = Append(targets, seekTo)
      /\ UNCHANGED <<slots, write, read, failed, originPosition, pos, held, seekTo>>
      /\ UNCHANGED <<cpc, cRead, cCount, cSeek, heard, opc, oRead, oOrigin, oTime, oNext>>
  BY DEF SeekTime
<1>2. /\ Flushing /\ ~Flushing' /\ ~Pushing /\ ~Pushing' /\ held = <<>>
      /\ read = write /\ originPosition = read /\ opc \in {"idle", "done"} /\ cpc = "idle"
  BY <1>0, <1>1 DEF Flushing, Pushing, Producing, Consuming
<1>3. seekTo \in Nat /\ seekTo # NoDiscard /\ seekTo \in Time /\ pos <= seekTo /\ seek \in Nat
  BY <1>0, <1>2, RingAssumption DEF Decoding, Time, NoDiscard
<1>4. Due' = seekTo /\ Heard' = read
  BY <1>1, <1>2, <1>3 DEF Due, Heard
<1>5. TimeAt(read)' = seekTo
  BY <1>0, <1>1, <1>2, <1>3, <1>4 DEF TimeAt, Positions
<1>6. Positions' /\ Producing' /\ Consuming'
  BY <1>0, <1>1, <1>2 DEF Positions, Producing, Consuming
<1>7. Decoding'
  <2>1. Len(held) = 0
    BY <1>2
  <2> QED
    BY <1>0, <1>1, <1>2, <1>3, <2>1 DEF Decoding
<1>8. Filled'
  <2>1. read' .. write' - 1 = {}
    BY <1>0, <1>1, <1>2 DEF Positions
  <2> QED
    BY <1>1, <2>1 DEF Filled
<1>9. Timeline' /\ Observed'
  BY <1>0, <1>1, <1>2, <1>3, <1>5 DEF Timeline, Observed, Positions
<1>10. InOrder'
  <2>1. /\ targets' \in Seq(Nat) /\ Len(targets') = seek + 1 /\ targets'[seek + 1] = seekTo
    BY <1>0, <1>1, <1>3, AppendProperties DEF InOrder
  <2>2. \A i \in 1 .. Len(heard) : heard[i] \in [seek : Nat, time : Nat, begun : Nat] /\ heard[i].seek <= seek
                                   /\ heard[i].begun <= heard[i].seek
    BY <1>0, ElementOfSeq DEF InOrder
  <2>3. Len(heard) \in Nat /\ Len(targets) = seek /\ targets \in Seq(Nat)
    BY <1>0, LenProperties DEF InOrder
  <2>4. ASSUME NEW i \in 1 .. Len(heard) - 1 PROVE Follows(heard[i], heard[i + 1])'
    <3>1. i \in 1 .. Len(heard) /\ i + 1 \in 1 .. Len(heard)
      BY <2>3
    <3>2. Follows(heard[i], heard[i + 1])
      BY <1>0 DEF InOrder
    <3>3. /\ heard[i] \in [seek : Nat, time : Nat, begun : Nat]
          /\ heard[i + 1] \in [seek : Nat, time : Nat, begun : Nat] /\ heard[i + 1].seek <= Len(targets)
      BY <2>2, <2>3, <3>1
    <3> DEFINE a == heard[i]
               b == heard[i + 1]
    <3>4. a' = a /\ b' = b
      BY <1>1
    <3> HIDE DEF a, b
    <3>5. Follows(a, b) =>
            \/ b.seek = a.seek /\ b.time = a.time + 1
            \/ b.seek > a.seek /\ b.time = targets'[b.seek]
      <4>1. a \in [seek : Nat, time : Nat, begun : Nat] /\ b \in [seek : Nat, time : Nat, begun : Nat]
            /\ b.seek <= Len(targets)
        BY <3>3 DEF a, b
      <4>2. \A k \in 1 .. Len(targets) : targets'[k] = targets[k]
        BY <1>1, <1>3, <2>3, AppendProperties
      <4>3. a.seek \in Nat /\ b.seek \in Nat /\ Len(targets) \in Nat
        BY <2>3, <4>1, LenProperties
      <4>4. b.seek > a.seek => targets'[b.seek] = targets[b.seek]
        BY <4>1, <4>2, <4>3
      <4> QED
        BY <4>4 DEF Follows
    <3> QED
      BY <3>2, <3>4, <3>5 DEF Follows, a, b
  <2>5. ASSUME heard # <<>>
        PROVE  Follows(heard[Len(heard)], [seek |-> seek, time |-> TimeAt(Heard)])'
    <3>1. Len(heard) \in 1 .. Len(heard)
      BY <1>0, <2>3, <2>5, EmptySeq DEF InOrder
    <3>2. heard[Len(heard)].seek \in Nat /\ heard[Len(heard)].seek <= seek
      BY <2>2, <3>1
    <3>3. TimeAt(Heard)' = seekTo
      BY <1>1, <1>4, <1>5 DEF TimeAt
    <3> QED
      BY <1>1, <1>3, <2>1, <3>2, <3>3 DEF Follows
  <2>6. ASSUME NEW i \in 1 .. Len(heard)
        PROVE  heard[i].seek <= seek + 1 /\ heard[i].begun <= heard[i].seek
    BY <1>3, <2>2
  <2>7. heard' = heard /\ heard \in Seq([seek : Nat, time : Nat, begun : Nat]) /\ seek' = seek + 1
    BY <1>0, <1>1 DEF InOrder
  <2> HIDE DEF Follows
  <2> QED
    BY <1>2, <2>1, <2>4, <2>5, <2>6, <2>7 DEF InOrder
<1> QED
  BY <1>6, <1>7, <1>8, <1>9, <1>10 DEF RingInv

-----------------------------------------------------------------------------
(* The audio callback keeps it.                                            *)

\* It loads the read position, which nobody else moves until it has stored it.
LEMMA ReadBeginKeeps ==
  ASSUME ~overlap, RingInv, ReadBegin
  PROVE  RingInv'
<1> USE DEF ringVars, originVars, producerVars, observerVars
<1>0. Positions /\ Producing /\ Consuming /\ Decoding /\ Filled /\ Timeline /\ Observed
  BY DEF RingInv
<1>1. /\ cpc = "idle" /\ cpc' = "count" /\ cRead' = read /\ cSeek' = seek
      /\ UNCHANGED <<slots, write, read, failed, originPosition, originTime, discard, seek, pos>>
      /\ UNCHANGED <<ppc, held, seekTo, targets, cCount, heard, opc, oRead, oOrigin, oTime, oNext>>
  BY DEF ReadBegin
<1>2. ~Flushing
  BY DEF ReadBegin, Undisturbed, Flushing
<1>3. Due' = Due /\ Heard' = Heard /\ Flushing' = Flushing /\ Pushing' = Pushing /\ \A p : TimeAt(p)' = TimeAt(p)
  BY <1>1 DEF Due, Heard, TimeAt, Flushing, Pushing
<1>4. Positions' /\ Producing'
  BY <1>0, <1>1, <1>3 DEF Positions, Producing
<1>5. Consuming'
  BY <1>0, <1>1, <1>2, <1>3 DEF Consuming, Decoding
<1>6. Decoding' /\ Filled'
  BY <1>0, <1>1, <1>3 DEF Decoding, Filled
<1>7. Timeline' /\ Observed'
  BY <1>0, <1>1, <1>3 DEF Timeline, Observed
<1>8. InOrder'
  <2>1. TimeAt(Heard)' = TimeAt(Heard)
    BY <1>1, <1>3 DEF TimeAt
  <2> QED
    BY <1>1, <1>2, <2>1, OrderKept
<1> QED
  BY <1>4, <1>5, <1>6, <1>7, <1>8 DEF RingInv

\* It takes no more than is published.
LEMMA ReadCountKeeps ==
  ASSUME RingInv, ReadCount
  PROVE  RingInv'
<1> USE DEF ringVars, originVars, producerVars, observerVars
<1>0. Positions /\ Producing /\ Consuming /\ Decoding /\ Filled /\ Timeline /\ Observed
  BY DEF RingInv
<1>1. /\ cpc = "count" /\ cpc' = "copy" /\ cCount' = Takes
      /\ UNCHANGED <<slots, write, read, failed, originPosition, originTime, discard, seek, pos>>
      /\ UNCHANGED <<ppc, held, seekTo, targets, cRead, cSeek, heard, opc, oRead, oOrigin, oTime, oNext>>
  BY DEF ReadCount
<1>2. cRead = read /\ ~Flushing
  BY <1>0, <1>1 DEF Consuming
<1>3. Due' = Due /\ Heard' = Heard /\ Flushing' = Flushing /\ Pushing' = Pushing /\ \A p : TimeAt(p)' = TimeAt(p)
  BY <1>1 DEF Due, Heard, TimeAt, Flushing, Pushing
<1>4. Positions' /\ Producing'
  BY <1>0, <1>1, <1>3 DEF Positions, Producing
<1>5. Consuming'
  <2>1. Distance(write, cRead) = write - read
    BY <1>0, <1>2, Room
  <2>2. Takes \in Nat /\ Takes <= write - read
    BY <1>0, <2>1, RingAssumption DEF Takes, Positions
  <2> QED
    BY <1>0, <1>1, <1>3, <2>2 DEF Consuming
<1>6. Decoding' /\ Filled'
  BY <1>0, <1>1, <1>3 DEF Decoding, Filled
<1>7. Timeline' /\ Observed'
  BY <1>0, <1>1, <1>3 DEF Timeline, Observed
<1>8. InOrder'
  <2>1. TimeAt(Heard)' = TimeAt(Heard)
    BY <1>1, <1>3 DEF TimeAt
  <2> QED
    BY <1>1, <1>2, <2>1, OrderKept
<1> QED
  BY <1>4, <1>5, <1>6, <1>7, <1>8 DEF RingInv

\* The samples of two histories in a row are in order when each is and they meet.
LEMMA Joined ==
  ASSUME NEW S, NEW h \in Seq(S), NEW c \in Seq(S),
         \A i \in 1 .. Len(h) - 1 : Follows(h[i], h[i + 1]),
         \A i \in 1 .. Len(c) - 1 : Follows(c[i], c[i + 1]),
         h # <<>> /\ c # <<>> => Follows(h[Len(h)], c[1])
  PROVE  /\ h \o c \in Seq(S) /\ Len(h \o c) = Len(h) + Len(c)
         /\ \A i \in 1 .. Len(h) + Len(c) - 1 : Follows((h \o c)[i], (h \o c)[i + 1])
<1>1. Len(h) \in Nat /\ Len(c) \in Nat
  BY LenProperties
<1> DEFINE j == h \o c
<1>2. /\ j \in Seq(S) /\ Len(j) = Len(h) + Len(c)
      /\ \A i \in 1 .. Len(h) + Len(c) : j[i] = IF i <= Len(h) THEN h[i] ELSE c[i - Len(h)]
  BY ConcatProperties
<1> HIDE DEF j
<1>3. ASSUME NEW i \in 1 .. Len(h) + Len(c) - 1 PROVE Follows(j[i], j[i + 1])
  <2>1. CASE i < Len(h)
    <3>1. j[i] = h[i] /\ j[i + 1] = h[i + 1] /\ i \in 1 .. Len(h) - 1
      BY <1>1, <1>2, <2>1
    <3> QED
      BY <3>1
  <2>2. CASE i = Len(h)
    <3>1. j[i] = h[i] /\ j[i + 1] = c[i + 1 - Len(h)] /\ i + 1 - Len(h) = 1 /\ Len(h) # 0 /\ Len(c) # 0
      BY <1>1, <1>2, <2>2
    <3>2. h # <<>> /\ c # <<>>
      BY <3>1, EmptySeq
    <3> QED
      BY <2>2, <3>1, <3>2
  <2>3. CASE i > Len(h)
    <3> DEFINE k == i - Len(h)
    <3>1. k \in 1 .. Len(c) - 1 /\ j[i] = c[k] /\ j[i + 1] = c[i + 1 - Len(h)] /\ i + 1 - Len(h) = k + 1
      BY <1>1, <1>2, <2>3
    <3> HIDE DEF k
    <3> QED
      BY <3>1
  <2> QED
    BY <1>1, <2>1, <2>2, <2>3
<1> QED
  BY <1>2, <1>3 DEF j

\* The history keeps the last samples of what was heard.
LEMMA LatestIsSuffix ==
  ASSUME NEW S, NEW h \in Seq(S)
  PROVE  /\ Latest(h) \in Seq(S)
         /\ \E k \in Nat : /\ k <= Len(h) /\ (h # <<>> => k < Len(h))
                           /\ Len(Latest(h)) = Len(h) - k
                           /\ \A i \in 1 .. Len(h) - k : Latest(h)[i] = h[i + k]
<1> DEFINE n == Len(h)
           m == n - Block
<1>0. n \in Nat /\ Block \in Nat \ {0}
  BY LenProperties, RingAssumption
<1>1. CASE n > Block + 1
  <2>1. m \in 1 .. n + 1 /\ m - 1 \in Nat /\ m - 1 <= n /\ m - 1 < n /\ n - m + 1 = n - (m - 1)
    BY <1>0, <1>1
  <2>2. n \in m - 1 .. n /\ Latest(h) = SubSeq(h, m, n)
    BY <1>0, <1>1, <2>1 DEF Latest
  <2> HIDE DEF m
  <2>3. /\ SubSeq(h, m, n) \in Seq(S) /\ Len(SubSeq(h, m, n)) = n - m + 1
        /\ \A i \in 1 .. n - m + 1 : SubSeq(h, m, n)[i] = h[m + i - 1]
    BY <2>1, <2>2, SubSeqProperties
  <2>4. ASSUME NEW i \in 1 .. n - (m - 1) PROVE Latest(h)[i] = h[i + (m - 1)]
    <3>1. m + i - 1 = i + (m - 1) /\ i \in 1 .. n - m + 1
      BY <1>0, <2>1
    <3> QED
      BY <2>2, <2>3, <3>1
  <2> QED
    BY <2>1, <2>2, <2>3, <2>4
<1>2. CASE ~(n > Block + 1)
  <2>1. Latest(h) = h
    BY <1>2 DEF Latest
  <2>2. \A i \in 1 .. n - 0 : Latest(h)[i] = h[i + 0]
    BY <1>0, <2>1
  <2>3. h # <<>> => 0 < n
    BY <1>0, EmptySeq
  <2> QED
    BY <1>0, <2>1, <2>2, <2>3
<1> QED
  BY <1>1, <1>2

\* What it copies follows what was heard last.
LEMMA ReadCopyKeeps ==
  ASSUME RingInv, ReadCopy
  PROVE  RingInv'
<1> USE DEF ringVars, originVars, producerVars, observerVars
<1>0. Positions /\ Producing /\ Consuming /\ Decoding /\ Filled /\ Timeline /\ Observed /\ InOrder
  BY DEF RingInv
<1> DEFINE S == [seek : Nat, time : Nat, begun : Nat]
           sound(p) == [seek |-> seek, time |-> TimeAt(p), begun |-> cSeek]
           c == [i \in 1 .. cCount |-> LET s == slots[(cRead + i - 1) % Size]
                                       IN  [seek |-> s.seek, time |-> s.time, begun |-> cSeek]]
           j == heard \o c
<1>1. /\ cpc = "copy" /\ cpc' = "store" /\ heard' = Latest(j)
      /\ UNCHANGED <<slots, write, read, failed, originPosition, originTime, discard, seek, pos>>
      /\ UNCHANGED <<ppc, held, seekTo, targets, cRead, cCount, cSeek, opc, oRead, oOrigin, oTime, oNext>>
  BY DEF ReadCopy
<1>2. /\ cRead = read /\ ~Flushing /\ cCount \in Nat /\ cCount <= write - read /\ cSeek = seek
      /\ read \in Nat /\ write \in Nat /\ seek \in Nat
  BY <1>0, <1>1 DEF Consuming, Positions, Decoding
<1>3. \A p \in Nat : p >= read => TimeAt(p) \in Nat /\ TimeAt(p + 1) = TimeAt(p) + 1
  <2>1. Due \in Nat
    BY <1>0, DueIsTime
  <2>2. TimeAt(read) = originTime + (read - originPosition) /\ originPosition <= read /\ originTime \in Nat
        /\ originPosition \in Nat
    BY <1>0, <1>2 DEF Timeline, Positions
  <2> QED
    BY <1>2, <2>1, <2>2 DEF TimeAt
<1>4. \A i \in 1 .. cCount : c[i] = sound(read + i - 1)
  <2> SUFFICES ASSUME NEW i \in 1 .. cCount PROVE c[i] = sound(read + i - 1)
    OBVIOUS
  <2>1. read + i - 1 \in read .. write - 1
    BY <1>2
  <2>2. slots[(read + i - 1) % Size] = [seek |-> seek, time |-> TimeAt(read + i - 1)]
    BY <1>0, <2>1 DEF Filled
  <2> QED
    BY <1>2, <2>2
<1>5. \A i \in 1 .. cCount : sound(read + i - 1) \in S
  <2> SUFFICES ASSUME NEW i \in 1 .. cCount PROVE sound(read + i - 1) \in S
    OBVIOUS
  <2>1. read + i - 1 \in Nat /\ read + i - 1 >= read
    BY <1>2
  <2> QED
    BY <1>2, <1>3, <2>1
<1>6. c \in Seq(S) /\ Len(c) = cCount
  <2>1. c = [i \in 1 .. cCount |-> c[i]] /\ \A i \in 1 .. cCount : c[i] \in S
    BY <1>4, <1>5
  <2> HIDE DEF c, S
  <2> QED
    BY <1>2, <2>1
<1> HIDE DEF c
<1>7. \A i \in 1 .. Len(c) - 1 : Follows(c[i], c[i + 1])
  <2> SUFFICES ASSUME NEW i \in 1 .. cCount - 1 PROVE Follows(c[i], c[i + 1])
    BY <1>6
  <2>1. i \in 1 .. cCount /\ i + 1 \in 1 .. cCount /\ read + i - 1 \in Nat /\ read + i - 1 >= read
        /\ (read + i - 1) + 1 = read + (i + 1) - 1
    BY <1>2
  <2>2. c[i] = sound(read + i - 1) /\ c[i + 1] = sound(read + (i + 1) - 1)
    BY <1>4, <2>1
  <2>3. TimeAt(read + (i + 1) - 1) = TimeAt(read + i - 1) + 1
    BY <1>3, <2>1
  <2> QED
    BY <2>2, <2>3 DEF Follows
<1>8. heard \in Seq(S) /\ Len(heard) \in Nat /\ Heard = read
  BY <1>0, <1>1, LenProperties DEF InOrder, Heard
<1>9. ASSUME heard # <<>>, c # <<>> PROVE Follows(heard[Len(heard)], c[1])
  <2>1. Follows(heard[Len(heard)], [seek |-> seek, time |-> TimeAt(read)])
    BY <1>0, <1>2, <1>8, <1>9 DEF InOrder
  <2>2. 1 \in 1 .. cCount /\ read + 1 - 1 = read
    BY <1>2, <1>6, <1>9, EmptySeq
  <2>3. c[1] = sound(read)
    BY <1>4, <2>2
  <2> QED
    BY <2>1, <2>3 DEF Follows
<1>10. /\ j \in Seq(S) /\ Len(j) = Len(heard) + cCount
       /\ \A i \in 1 .. Len(j) - 1 : Follows(j[i], j[i + 1])
       /\ \A i \in 1 .. Len(j) : j[i] = IF i <= Len(heard) THEN heard[i] ELSE c[i - Len(heard)]
  <2>1. \A i \in 1 .. Len(heard) - 1 : Follows(heard[i], heard[i + 1])
    BY <1>0 DEF InOrder
  <2> HIDE DEF S
  <2>2. /\ heard \o c \in Seq(S) /\ Len(heard \o c) = Len(heard) + Len(c)
        /\ \A i \in 1 .. Len(heard) + Len(c) - 1 : Follows((heard \o c)[i], (heard \o c)[i + 1])
    BY <1>6, <1>7, <1>8, <1>9, <2>1, Joined
  <2>3. \A i \in 1 .. Len(heard) + Len(c) :
          (heard \o c)[i] = IF i <= Len(heard) THEN heard[i] ELSE c[i - Len(heard)]
    BY <1>6, <1>8, ConcatProperties
  <2>4. Len(heard) + Len(c) = Len(j) /\ Len(j) = Len(heard) + cCount
    BY <1>6, <2>2
  <2> HIDE DEF j
  <2>5. j \in Seq(S) /\ \A i \in 1 .. Len(j) - 1 : Follows(j[i], j[i + 1])
    BY <2>2, <2>4 DEF j
  <2>6. \A i \in 1 .. Len(j) : j[i] = IF i <= Len(heard) THEN heard[i] ELSE c[i - Len(heard)]
    BY <2>3, <2>4 DEF j
  <2> QED
    BY <2>4, <2>5, <2>6
<1>11. \A i \in 1 .. Len(j) : j[i].seek <= seek /\ j[i].begun <= j[i].seek
  <2> SUFFICES ASSUME NEW i \in 1 .. Len(j) PROVE j[i].seek <= seek /\ j[i].begun <= j[i].seek
    OBVIOUS
  <2>1. CASE i <= Len(heard)
    <3>1. i \in 1 .. Len(heard) /\ j[i] = heard[i]
      BY <1>8, <1>10, <2>1
    <3> QED
      BY <1>0, <3>1 DEF InOrder
  <2>2. CASE i > Len(heard)
    <3>1. i - Len(heard) \in 1 .. cCount /\ j[i] = c[i - Len(heard)]
      BY <1>2, <1>8, <1>10, <2>2
    <3>2. j[i] = sound(read + (i - Len(heard)) - 1)
      BY <1>4, <3>1
    <3> QED
      BY <1>2, <3>2
  <2> QED
    BY <1>2, <1>8, <1>10, <2>1, <2>2
<1>12. j # <<>> => Follows(j[Len(j)], [seek |-> seek, time |-> TimeAt(read + cCount)])
  <2> SUFFICES ASSUME j # <<>> PROVE Follows(j[Len(j)], [seek |-> seek, time |-> TimeAt(read + cCount)])
    OBVIOUS
  <2>0. Len(j) \in 1 .. Len(j)
    BY <1>2, <1>8, <1>10, EmptySeq
  <2>1. CASE cCount = 0
    <3>1. Len(j) = Len(heard) /\ j[Len(j)] = heard[Len(heard)] /\ read + cCount = read /\ heard # <<>>
      BY <1>2, <1>8, <1>10, <2>0, <2>1, EmptySeq
    <3> QED
      BY <1>0, <1>2, <1>8, <3>1 DEF InOrder
  <2>2. CASE cCount # 0
    <3>1. /\ Len(j) - Len(heard) = cCount /\ cCount \in 1 .. cCount /\ ~(Len(j) <= Len(heard))
          /\ read + cCount - 1 \in Nat /\ read + cCount - 1 >= read /\ (read + cCount - 1) + 1 = read + cCount
      BY <1>2, <1>8, <1>10, <2>2
    <3>2. j[Len(j)] = sound(read + cCount - 1)
      BY <1>4, <1>10, <2>0, <3>1
    <3>3. TimeAt(read + cCount) = TimeAt(read + cCount - 1) + 1
      BY <1>3, <3>1
    <3> QED
      BY <3>2, <3>3 DEF Follows
  <2> QED
    BY <2>1, <2>2
<1> HIDE DEF j, sound
<1>13. Due' = Due /\ Flushing' = Flushing /\ Pushing' = Pushing /\ \A p : TimeAt(p)' = TimeAt(p)
  BY <1>1 DEF Due, TimeAt, Flushing, Pushing
<1>14. Positions' /\ Producing' /\ Consuming'
  BY <1>0, <1>1, <1>2, <1>13 DEF Positions, Producing, Consuming
<1>15. Decoding' /\ Filled'
  BY <1>0, <1>1, <1>13 DEF Decoding, Filled
<1>16. Timeline' /\ Observed'
  BY <1>0, <1>1, <1>13 DEF Timeline, Observed
<1>17. InOrder'
  <2>0. Len(j) \in Nat
    BY <1>10, LenProperties
  <2> HIDE DEF S
  <2>1. heard' \in Seq(S)
    BY <1>1, <1>10, LatestIsSuffix
  <2>2. PICK k \in Nat : /\ k <= Len(j) /\ (j # <<>> => k < Len(j)) /\ Len(heard') = Len(j) - k
                         /\ \A i \in 1 .. Len(j) - k : heard'[i] = j[i + k]
    BY <1>1, <1>10, LatestIsSuffix
  <2>3. ASSUME NEW i \in 1 .. Len(heard') PROVE heard'[i].seek <= seek' /\ heard'[i].begun <= heard'[i].seek
    <3>1. i \in 1 .. Len(j) - k /\ i + k \in 1 .. Len(j)
      BY <2>0, <2>2
    <3>2. heard'[i] = j[i + k]
      BY <2>2, <3>1
    <3> QED
      BY <1>1, <1>11, <3>1, <3>2
  <2>4. ASSUME NEW i \in 1 .. Len(heard') - 1 PROVE Follows(heard[i], heard[i + 1])'
    <3>1. i \in 1 .. Len(j) - k /\ i + 1 \in 1 .. Len(j) - k /\ i + k \in 1 .. Len(j) - 1 /\ (i + 1) + k = (i + k) + 1
      BY <2>0, <2>2
    <3>2. heard'[i] = j[i + k] /\ heard'[i + 1] = j[(i + k) + 1]
      BY <2>2, <3>1
    <3>3. Follows(j[i + k], j[(i + k) + 1])
      BY <1>10, <3>1
    <3> QED
      BY <1>1, <3>2, <3>3 DEF Follows
  <2>5. ASSUME heard' # <<>> PROVE Follows(heard[Len(heard)], [seek |-> seek, time |-> TimeAt(Heard)])'
    <3>1. Len(heard') \in Nat /\ Len(heard') # 0
      BY <2>0, <2>1, <2>2, <2>5, EmptySeq
    <3>2. j # <<>> /\ Len(heard') \in 1 .. Len(j) - k /\ Len(heard') + k = Len(j)
      BY <2>0, <2>2, <3>1, EmptySeq
    <3>3. heard'[Len(heard')] = j[Len(j)]
      BY <2>2, <3>2
    <3>4. Heard' = read + cCount /\ TimeAt(Heard)' = TimeAt(read + cCount)
      BY <1>1 DEF Heard, TimeAt, Due
    <3> QED
      BY <1>1, <1>12, <3>2, <3>3, <3>4 DEF Follows
  <2>6. targets' \in Seq(Nat) /\ Len(targets') = seek'
    BY <1>0, <1>1 DEF InOrder
  <2> QED
    BY <2>1, <2>3, <2>4, <2>5, <2>6 DEF InOrder, S
<1> QED
  BY <1>14, <1>15, <1>16, <1>17 DEF RingInv

\* It moves the read position past what was copied.
LEMMA ReadStoreKeeps ==
  ASSUME RingInv, ReadStore
  PROVE  RingInv'
<1> USE DEF ringVars, originVars, producerVars, observerVars
<1>0. Positions /\ Producing /\ Consuming /\ Decoding /\ Filled /\ Timeline /\ Observed
  BY DEF RingInv
<1>1. /\ cpc = "store" /\ cpc' = "idle" /\ read' = (cRead + cCount) % Wrap
      /\ UNCHANGED <<slots, write, failed, originPosition, originTime, discard, seek, pos>>
      /\ UNCHANGED <<ppc, held, seekTo, targets, cRead, cCount, cSeek, heard, opc, oRead, oOrigin, oTime, oNext>>
  BY DEF ReadStore, ReadUpTo
<1>2. /\ cRead = read /\ ~Flushing /\ cCount \in Nat /\ cCount <= write - read
      /\ read \in Nat /\ write \in Nat /\ write <= MaxPosition
  BY <1>0, <1>1 DEF Consuming, Positions
<1>3. read' = read + cCount
  <2>1. read + cCount \in 0 .. Wrap - 1 /\ Wrap \in Nat \ {0}
    BY <1>2, RingAssumption
  <2> QED
    BY <1>1, <1>2, <2>1, Small
<1>4. Due' = Due /\ Flushing' = Flushing /\ Pushing' = Pushing /\ \A p : TimeAt(p)' = TimeAt(p)
  BY <1>1 DEF Due, TimeAt, Flushing, Pushing
<1>5. Heard' = Heard
  BY <1>1, <1>3 DEF Heard
<1>6. Positions' /\ Producing' /\ Consuming'
  <2>1. Positions'
    BY <1>0, <1>1, <1>2, <1>3, RingAssumption DEF Positions
  <2>2. Producing'
    <3>1. Len(held) \in Nat
      BY <1>0, LenProperties DEF Decoding
    <3>3. write - read + Len(held) <= Size => write - read' + Len(held) <= Size
      BY <1>2, <1>3, <3>1, RingAssumption
    <3>4. Pushing => held # <<>> /\ write + Len(held) <= MaxPosition /\ write - read' + Len(held) <= Size
      BY <1>0, <3>3 DEF Producing
    <3>5. ~Flushing' /\ (Pushing' <=> Pushing) /\ ppc' # "time"
      BY <1>1, <1>2 DEF Flushing, Pushing
    <3>6. ppc \in {"idle", "push", "publish", "origin", "time"} /\ ~failed /\ (~Pushing => held = <<>>)
      BY <1>0 DEF Producing
    <3> HIDE DEF Flushing, Pushing
    <3> QED
      BY <1>1, <3>4, <3>5, <3>6 DEF Producing
  <2>3. Consuming'
    BY <1>0, <1>1 DEF Consuming
  <2> QED
    BY <2>1, <2>2, <2>3
<1>7. Decoding'
  BY <1>0, <1>1, <1>4 DEF Decoding
<1>8. Filled'
  <2>1. \A p \in read' .. write - 1 : p \in read .. write - 1
    BY <1>2, <1>3
  <2> QED
    BY <1>0, <1>1, <1>4, <2>1 DEF Filled
<1>9. Timeline' /\ Observed'
  <2>1. TimeAt(read') = TimeAt(read) + cCount
    <3>1. Due \in Nat
      BY <1>0, DueIsTime
    <3> QED
      BY <1>2, <1>3, <3>1 DEF TimeAt
  <2>2. TimeAt(read)' = TimeAt(read) + cCount
    BY <1>1, <1>4, <2>1 DEF TimeAt
  <2>3. Timeline'
    BY <1>0, <1>1, <1>2, <1>3, <1>4, <2>2 DEF Timeline, Positions
  <2>4. Observed'
    BY <1>0, <1>1 DEF Observed
  <2> QED
    BY <2>3, <2>4
<1>10. InOrder'
  <2>1. TimeAt(Heard)' = TimeAt(Heard)
    BY <1>1, <1>4, <1>5 DEF TimeAt
  <2> QED
    BY <1>1, <1>2, <2>1, OrderKept
<1> QED
  BY <1>6, <1>7, <1>8, <1>9, <1>10 DEF RingInv

-----------------------------------------------------------------------------
(* The observer keeps it.                                                  *)

\* A step that only observes leaves everything but what it observed.
LEMMA ObserverKeeps ==
  ASSUME RingInv, Observed', Flushing => opc' \in {"idle", "done"},
         UNCHANGED <<ringVars, originVars, producerVars, consumerVars>>
  PROVE  RingInv'
<1> USE DEF ringVars, originVars, producerVars, consumerVars
<1>1. Due' = Due /\ Heard' = Heard /\ Flushing' = Flushing /\ Pushing' = Pushing /\ \A p : TimeAt(p)' = TimeAt(p)
  BY DEF Due, Heard, TimeAt, Flushing, Pushing
<1>2. Positions' /\ Producing' /\ Consuming'
  BY <1>1 DEF RingInv, Positions, Producing, Consuming
<1>3. Decoding' /\ Filled'
  BY <1>1 DEF RingInv, Decoding, Filled
<1>4. Timeline'
  BY <1>1 DEF RingInv, Timeline
<1>5. InOrder'
  <2>1. TimeAt(Heard)' = TimeAt(Heard)
    BY <1>1 DEF TimeAt
  <2> QED
    BY <1>1, <2>1, OrderKept
<1> QED
  BY <1>2, <1>3, <1>4, <1>5 DEF RingInv

\* The sample at the read position is the next to be read.
LEMMA ObserveReadKeeps ==
  ASSUME ~overlap, RingInv, ObserveRead
  PROVE  RingInv'
<1> USE DEF ringVars, originVars, producerVars, consumerVars
<1>1. /\ oRead' = read /\ oNext' = NextTime /\ opc' = "origin" /\ ~Flushing
      /\ UNCHANGED <<ringVars, originVars, producerVars, consumerVars>>
  BY DEF ObserveRead, Undisturbed, Flushing
<1>2. NextTime = TimeAt(read)
  <2>1. CASE read # write
    <3>1. read \in read .. write - 1
      BY <2>1 DEF RingInv, Positions
    <3>2. slots[read % Size] = [seek |-> seek, time |-> TimeAt(read)]
      BY <3>1 DEF RingInv, Filled
    <3> QED
      BY <2>1, <3>2 DEF NextTime
  <2>2. CASE read = write
    <3>1. TimeAt(read) = Due
      BY <2>2, DueIsTime DEF RingInv, Positions, TimeAt
    <3> QED
      BY <2>2, <3>1 DEF NextTime, Due
  <2> QED
    BY <2>1, <2>2
<1>3. TimeAt(read) = originTime + (read - originPosition) /\ originPosition <= read /\ read \in Nat /\ read <= write
  BY <1>1 DEF RingInv, Timeline, Positions
<1>4. Observed'
  BY <1>1, <1>2, <1>3 DEF Observed
<1> QED
  BY <1>1, <1>4, ObserverKeeps

\* No seek comes between the position and its origin...
LEMMA ObserveOriginKeeps ==
  ASSUME RingInv, ObserveOrigin
  PROVE  RingInv'
<1> USE DEF ringVars, originVars, producerVars, consumerVars
<1>1. /\ opc = "origin" /\ oOrigin' = originPosition /\ opc' = "time" /\ UNCHANGED <<oRead, oNext>>
      /\ UNCHANGED <<ringVars, originVars, producerVars, consumerVars>>
  BY DEF ObserveOrigin
<1>2. ~Flushing /\ Observed'
  BY <1>1 DEF RingInv, Producing, Observed
<1> QED
  BY <1>1, <1>2, ObserverKeeps

\* ...nor between the origin and its time.
LEMMA ObserveTimeKeeps ==
  ASSUME RingInv, ObserveTime
  PROVE  RingInv'
<1> USE DEF ringVars, originVars, producerVars, consumerVars
<1>1. /\ opc = "time" /\ oTime' = originTime + Distance(oRead, oOrigin) /\ opc' = "done" /\ UNCHANGED <<oRead, oNext>>
      /\ UNCHANGED <<ringVars, originVars, producerVars, consumerVars>>
  BY DEF ObserveTime
<1>2. /\ oRead \in Nat /\ originPosition \in Nat /\ originPosition <= oRead /\ oRead <= MaxPosition + Size
      /\ oNext = originTime + (oRead - originPosition) /\ oOrigin = originPosition
  BY <1>1, RingAssumption DEF RingInv, Observed, Positions
<1>3. Distance(oRead, oOrigin) = oRead - originPosition
  BY <1>2, Distances
<1>4. Observed'
  BY <1>1, <1>2, <1>3 DEF Observed
<1> QED
  BY <1>1, <1>4, ObserverKeeps

-----------------------------------------------------------------------------
\* Under a host that lets no callback overlap a seek.
LEMMA RingHolds == Spec => [](~overlap => RingInv)
<1>1. ASSUME ~overlap, RingInv, [Next]_vars PROVE RingInv'
  <2>1. CASE Decode
    BY <1>1, <2>1, DecodeKeeps
  <2>2. CASE Push
    BY <1>1, <2>2, PushKeeps
  <2>3. CASE Publish
    BY <1>1, <2>3, PublishKeeps
  <2>4. ASSUME NEW t \in Time, SeekFlush(t) PROVE RingInv'
    BY <1>1, <2>4, SeekFlushKeeps
  <2>5. CASE SeekOrigin
    BY <1>1, <2>5, SeekOriginKeeps
  <2>6. CASE SeekTime
    BY <1>1, <2>6, SeekTimeKeeps
  <2>7. CASE ReadBegin
    BY <1>1, <2>7, ReadBeginKeeps
  <2>8. CASE ReadCount
    BY <1>1, <2>8, ReadCountKeeps
  <2>9. CASE ReadCopy
    BY <1>1, <2>9, ReadCopyKeeps
  <2>10. CASE ReadStore
    BY <1>1, <2>10, ReadStoreKeeps
  <2>11. CASE ObserveRead
    BY <1>1, <2>11, ObserveReadKeeps
  <2>12. CASE ObserveOrigin
    BY <1>1, <2>12, ObserveOriginKeeps
  <2>13. CASE ObserveTime
    BY <1>1, <2>13, ObserveTimeKeeps
  <2>14. CASE UNCHANGED vars
    BY <1>1, <2>14, RingStutters
  <2> QED
    BY <1>1, <2>1, <2>2, <2>3, <2>4, <2>5, <2>6, <2>7, <2>8, <2>9, <2>10, <2>11, <2>12, <2>13, <2>14
       DEF Next, Producer, Callback, Observer
<1>2. [Next]_vars => overlap' = overlap
  BY DEF Next, Producer, Callback, Observer, Decode, Push, Publish, SeekFlush, SeekOrigin, SeekTime,
    ReadBegin, ReadCount, ReadCopy, ReadStore, ObserveRead, ObserveOrigin, ObserveTime, vars
<1>3. (~overlap => RingInv) /\ [Next]_vars => (~overlap => RingInv)'
  BY <1>1, <1>2
<1> QED
  BY InitRing, <1>3, PTL DEF Spec

\* For every such host, ring, packet and block: the callback hears the samples of the
\* track one after the other, none lost, repeated or overwritten before it was read, and
\* after a seek the first is the one at the time sought.
THEOREM HeardInOrder == Spec => []SoundInOrder
<1>1. (~overlap => RingInv) => SoundInOrder
  BY DEF RingInv, InOrder, Follows, SoundInOrder
<1> QED
  BY RingHolds, <1>1, PTL

\* For every such host: audio_buffer_info() computes the media time of the sample that was
\* at the read position from three loads between which the ring moved on.
THEOREM ReadTimes == Spec => []ReadTimeIsExact
<1>1. (~overlap => RingInv) => ReadTimeIsExact
  BY DEF RingInv, Observed, ReadTimeIsExact
<1> QED
  BY RingHolds, <1>1, PTL

\* For every such host: a callback never returns PCM of before a seek that it began after,
\* and the room of the ring never wraps below zero.
THEOREM NothingStale == Spec => [](~overlap => NoStalePcm /\ RoomNeverWraps)
<1>1. RingInv => NoStalePcm
  BY DEF RingInv, InOrder, NoStalePcm
<1>2. RingInv => RoomNeverWraps
  BY Room, RingAssumption DEF RingInv, Positions, RoomNeverWraps
<1> QED
  BY RingHolds, <1>1, <1>2, PTL

-----------------------------------------------------------------------------
(* A host that lets its callback run while it seeks: the callback's late   *)
(* store may move the read position back, but never past what is written.  *)

\* Whatever a thread holds to store later lies at or before the write position.
Behind ==
  /\ read \in Nat /\ write \in Nat /\ read <= write /\ write <= MaxPosition
  /\ cpc # "idle" => cRead \in Nat /\ cRead <= write
  /\ cpc \in {"copy", "store"} => cCount \in Nat /\ cRead + cCount <= write
Carried ==
  /\ pos \in Nat /\ discard \in Nat /\ seekTo \in Nat
  /\ Pushing => Len(held) \in Nat /\ write + Len(held) <= MaxPosition

\* A packet holds no more samples than a packet has.
LEMMA DecodesPacket ==
  ASSUME Carried, Decode
  PROVE  Len(held') \in Nat /\ Len(held') <= Packet
<1> DEFINE f == FirstKept(pos)
           n == pos + Packet - f
<1>1. pos \in Nat /\ discard \in Nat /\ Packet \in Nat /\ Packet >= 1
  BY RingAssumption DEF Carried
<1>2. f \in Nat /\ pos <= f /\ f <= pos + Packet
  BY <1>1 DEF FirstKept
<1> HIDE DEF f
<1>3. n \in Nat /\ n <= Packet
  BY <1>1, <1>2
<1>4. held' = [i \in 1 .. n |-> [seek |-> seek, time |-> f + i - 1]]
  <2>1. held' = Run(f, pos + Packet)
    BY DEF Decode, f
  <2> QED
    BY <1>1, <1>2, <1>3, <2>1 DEF Run
<1> HIDE DEF n
<1>5. Len(held') = n
  BY <1>3, <1>4
<1> QED
  BY <1>3, <1>5

LEMMA BehindStep == Behind /\ Carried /\ [Next]_vars => Behind' /\ Carried'
<1> SUFFICES ASSUME Behind, Carried, [Next]_vars PROVE Behind' /\ Carried'
  OBVIOUS
<1> USE DEF ringVars, originVars, producerVars, consumerVars, observerVars
<1>0. Wrap \in Nat \ {0} /\ MaxPosition \in Nat /\ MaxPosition < Wrap
  BY RingAssumption
<1>1. CASE Decode
  <2>1. Len(held') \in Nat /\ Len(held') <= Packet
    BY <1>1, DecodesPacket
  <2>2. write + Packet <= MaxPosition /\ Packet \in Nat /\ write \in Nat
    BY <1>1, RingAssumption DEF Decode, Behind
  <2>3. pos' \in Nat /\ discard' \in Nat
    BY <1>1, RingAssumption DEF Decode, Carried, NoDiscard
  <2>4. UNCHANGED <<read, write, seekTo, consumerVars>>
    BY <1>1 DEF Decode
  <2>5. write' + Len(held') <= MaxPosition
    BY <1>0, <2>1, <2>2, <2>4
  <2> QED
    BY <2>1, <2>3, <2>4, <2>5 DEF Behind, Carried
<1>2. CASE Push
  <2>1. ppc = "push" /\ ppc' \in {"idle", "publish"} /\ UNCHANGED <<read, write, consumerVars>>
        /\ UNCHANGED <<pos, discard, seekTo, held>>
    BY <1>2 DEF Push
  <2> QED
    BY <2>1 DEF Behind, Carried, Pushing
<1>3. CASE Publish
  <2>1. ppc = "publish" /\ ppc' = "idle" /\ write' = (write + Len(held)) % Wrap
        /\ UNCHANGED <<read, consumerVars, pos, discard, seekTo>>
    BY <1>3 DEF Publish
  <2>2. write + Len(held) \in 0 .. Wrap - 1 /\ write + Len(held) <= MaxPosition /\ Len(held) \in Nat
    BY <1>0, <2>1 DEF Behind, Carried, Pushing
  <2>3. write' = write + Len(held)
    BY <1>0, <2>1, <2>2, Small
  <2> QED
    BY <2>1, <2>2, <2>3 DEF Behind, Carried, Pushing
<1>4. ASSUME NEW t \in Time, SeekFlush(t) PROVE Behind' /\ Carried'
  <2>1. t \in Nat
    BY RingAssumption DEF Time
  <2>2. pos' \in Nat /\ seekTo' = t
    BY <1>4, <2>1 DEF SeekFlush
  <2>3. read' = write /\ write' = write /\ ppc' = "origin" /\ UNCHANGED <<consumerVars, discard>>
    BY <1>4 DEF SeekFlush, Flushed
  <2> QED
    BY <2>1, <2>2, <2>3 DEF Behind, Carried, Pushing
<1>5. CASE SeekOrigin
  BY <1>5 DEF SeekOrigin, Behind, Carried, Pushing
<1>6. CASE SeekTime
  BY <1>6 DEF SeekTime, Behind, Carried, Pushing
<1>7. CASE ReadBegin
  BY <1>7 DEF ReadBegin, Behind, Carried, Pushing
<1>8. CASE ReadCount
  <2>1. cRead \in Nat /\ cRead <= write /\ write <= MaxPosition + Size /\ write \in Nat
    BY <1>8, RingAssumption DEF ReadCount, Behind
  <2>2. Distance(write, cRead) = write - cRead
    BY <2>1, Distances
  <2>3. cCount' \in Nat /\ cRead + cCount' <= write
    BY <1>8, <2>1, <2>2, RingAssumption DEF ReadCount, Takes
  <2> QED
    BY <1>8, <2>1, <2>3 DEF ReadCount, Behind, Carried, Pushing
<1>9. CASE ReadCopy
  BY <1>9 DEF ReadCopy, Behind, Carried, Pushing
<1>10. CASE ReadStore
  <2>1. cRead + cCount \in 0 .. Wrap - 1 /\ cRead + cCount <= write
    BY <1>0, <1>10 DEF ReadStore, Behind
  <2>2. read' = cRead + cCount
    BY <1>0, <1>10, <2>1, Small DEF ReadStore, ReadUpTo
  <2> QED
    BY <1>10, <2>1, <2>2 DEF ReadStore, Behind, Carried, Pushing
<1>11. CASE Observer
  BY <1>11 DEF Observer, ObserveRead, ObserveOrigin, ObserveTime, Behind, Carried, Pushing
<1>12. CASE UNCHANGED vars
  BY <1>12 DEF vars, Behind, Carried, Pushing
<1> QED
  BY <1>1, <1>2, <1>3, <1>4, <1>5, <1>6, <1>7, <1>8, <1>9, <1>10, <1>11, <1>12 DEF Next, Producer, Callback

\* For every host, also one that seeks under a callback in flight: the read position that
\* the callback stores in the end is not past the write position, so that what is buffered
\* does not wrap below zero.
THEOREM NeverUnderflows == Spec => []NoUnderflow
<1>1. Init => Behind /\ Carried
  BY RingAssumption DEF Init, Behind, Carried, Pushing, NoDiscard
<1>2. Behind => NoUnderflow
  <2> SUFFICES ASSUME Behind PROVE NoUnderflow
    OBVIOUS
  <2>1. Distance(write, read) = write - read
    BY Distances, RingAssumption DEF Behind
  <2> QED
    BY <2>1, RingAssumption DEF Behind, NoUnderflow
<1> QED
  BY <1>1, <1>2, BehindStep, PTL DEF Spec


-----------------------------------------------------------------------------
(* The byte source: its cache.                                             *)

\* A list of blocks without a repetition.
Distinct(q) == q \in Seq(BlockIndex) /\ \A i, j \in DOMAIN q : q[i] = q[j] => i = j

\* Block t is in q, with at most n blocks behind it.
NearEnd(q, t, n) == \E i \in DOMAIN q : q[i] = t /\ Len(q) - i <= n

\* What insert_block() and read() make of the order: b is last, and no other block
\* comes nearer to the front by more than one place.
LEMMA TouchedIs ==
  ASSUME Distinct(cache), NEW b \in BlockIndex
  PROVE  /\ Distinct(Touched(b)) /\ NearEnd(Touched(b), b, 0)
         /\ Cached(b) => Len(Touched(b)) = Len(cache)
         /\ \A i \in DOMAIN Touched(b) : Touched(b)[i] = b \/ Cached(Touched(b)[i])
         /\ \A t, n : n \in Nat /\ NearEnd(cache, t, n) => NearEnd(Touched(b), t, n + 1)
<1>0. cache \in Seq(BlockIndex) /\ Len(cache) \in Nat /\ DOMAIN cache = 1 .. Len(cache)
  BY DEF Distinct
<1>1. CASE Cached(b)
  <2> DEFINE at == CHOOSE i \in DOMAIN cache : cache[i] = b
             q == MovedToBack(at)
  <2>1. at \in 1 .. Len(cache) /\ cache[at] = b
    BY <1>0, <1>1 DEF Cached
  <2>2. Touched(b) = q
    BY <1>1 DEF Touched
  <2> HIDE DEF at
  <2>3. q = [j \in 1 .. Len(cache) |->
               IF j < at THEN cache[j] ELSE IF j < Len(cache) THEN cache[j + 1] ELSE cache[at]]
    BY <1>0 DEF MovedToBack
  <2> HIDE DEF q
  <2>4. /\ \A j \in 1 .. Len(cache) : cache[j] \in BlockIndex
        /\ \A j \in 1 .. Len(cache) : q[j] \in BlockIndex
    BY <1>0, <2>1, <2>3
  <2>5. q \in Seq(BlockIndex) /\ Len(q) = Len(cache) /\ DOMAIN q = 1 .. Len(cache)
    BY <1>0, <2>3, <2>4
  <2>6. \A i, j \in 1 .. Len(cache) : q[i] = q[j] => i = j
    <3> SUFFICES ASSUME NEW i \in 1 .. Len(cache), NEW j \in 1 .. Len(cache), q[i] = q[j] PROVE i = j
      OBVIOUS
    <3>1. \A x, y \in 1 .. Len(cache) : cache[x] = cache[y] => x = y
      BY <1>0 DEF Distinct
    <3> DEFINE from(x) == IF x < at THEN x ELSE IF x < Len(cache) THEN x + 1 ELSE at
    <3>2. \A x \in 1 .. Len(cache) : from(x) \in 1 .. Len(cache) /\ q[x] = cache[from(x)]
      BY <1>0, <2>1, <2>3
    <3>3. from(i) = from(j)
      BY <3>1, <3>2
    <3> QED
      BY <1>0, <2>1, <3>3
  <2>7. q[Len(cache)] = b /\ Len(cache) \in 1 .. Len(cache)
    BY <1>0, <2>1, <2>3
  <2>8. ASSUME NEW t, NEW n \in Nat, NearEnd(cache, t, n)
        PROVE  NearEnd(q, t, n + 1)
    <3>1. PICK i \in 1 .. Len(cache) : cache[i] = t /\ Len(cache) - i <= n
      BY <1>0, <2>8 DEF NearEnd
    <3>2. CASE i < at
      <4>1. q[i] = t /\ Len(q) - i <= n + 1
        BY <1>0, <2>1, <2>3, <2>5, <3>1, <3>2
      <4> QED
        BY <2>5, <4>1 DEF NearEnd
    <3>3. CASE i = at
      <4>1. q[Len(cache)] = t /\ Len(q) - Len(cache) <= n + 1
        BY <1>0, <2>1, <2>5, <2>7, <3>1, <3>3
      <4> QED
        BY <2>5, <2>7, <4>1 DEF NearEnd
    <3>4. CASE i > at
      <4>1. i - 1 \in 1 .. Len(cache) /\ q[i - 1] = t /\ Len(q) - (i - 1) <= n + 1
        BY <1>0, <2>1, <2>3, <2>5, <3>1, <3>4
      <4> QED
        BY <2>5, <4>1 DEF NearEnd
    <3> QED
      BY <1>0, <2>1, <3>2, <3>3, <3>4
  <2>9. Distinct(q)
    BY <2>5, <2>6 DEF Distinct
  <2>10. NearEnd(q, b, 0)
    BY <1>0, <2>5, <2>7 DEF NearEnd
  <2>11. \A i \in DOMAIN q : Cached(q[i])
    BY <1>0, <2>1, <2>3, <2>5 DEF Cached
  <2> QED
    BY <2>2, <2>5, <2>8, <2>9, <2>10, <2>11
<1>2. CASE ~Cached(b)
  <2> DEFINE q == Append(cache, b)
  <2>1. Touched(b) = q
    BY <1>2 DEF Touched
  <2>2. /\ q \in Seq(BlockIndex) /\ Len(q) = Len(cache) + 1 /\ DOMAIN q = 1 .. Len(cache) + 1
        /\ \A i \in 1 .. Len(cache) : q[i] = cache[i]
        /\ q[Len(cache) + 1] = b
    BY <1>0, AppendProperties
  <2> HIDE DEF q
  <2>3. \A i \in 1 .. Len(cache) : cache[i] # b
    BY <1>0, <1>2 DEF Cached
  <2>4. \A i, j \in 1 .. Len(cache) + 1 : q[i] = q[j] => i = j
    BY <1>0, <2>2, <2>3 DEF Distinct
  <2>5. ASSUME NEW t, NEW n \in Nat, NearEnd(cache, t, n)
        PROVE  NearEnd(q, t, n + 1)
    <3>1. PICK i \in 1 .. Len(cache) : cache[i] = t /\ Len(cache) - i <= n
      BY <1>0, <2>5 DEF NearEnd
    <3>2. i \in 1 .. Len(cache) + 1 /\ q[i] = t /\ Len(q) - i <= n + 1
      BY <1>0, <2>2, <3>1
    <3> QED
      BY <2>2, <3>2 DEF NearEnd
  <2>6. Distinct(q)
    BY <2>2, <2>4 DEF Distinct
  <2>7. NearEnd(q, b, 0)
    <3>1. Len(cache) + 1 \in DOMAIN q /\ Len(q) - (Len(cache) + 1) <= 0
      BY <1>0, <2>2
    <3> QED
      BY <2>2, <3>1 DEF NearEnd
  <2>8. \A i \in DOMAIN q : q[i] = b \/ Cached(q[i])
    BY <1>0, <2>2 DEF Cached
  <2> QED
    BY <1>2, <2>1, <2>5, <2>6, <2>7, <2>8
<1> QED
  BY <1>1, <1>2

\* Eviction takes from the front what exceeds the budget.
LEMMA EvictedIs ==
  ASSUME NEW q, Distinct(q)
  PROVE  /\ Distinct(Evicted(q)) /\ Len(Evicted(q)) <= Budget
         /\ \A i \in DOMAIN Evicted(q) : \E j \in DOMAIN q : Evicted(q)[i] = q[j]
         /\ \A t, n : n \in Nat /\ n < Budget /\ NearEnd(q, t, n) => NearEnd(Evicted(q), t, n)
<1> DEFINE m == IF Len(q) > Budget THEN Len(q) - Budget + 1 ELSE 1
           e == SubSeq(q, m, Len(q))
<1>0. q \in Seq(BlockIndex) /\ Len(q) \in Nat /\ DOMAIN q = 1 .. Len(q) /\ Budget \in Nat \ {0}
  BY SourceAssumption DEF Distinct
<1>1. Evicted(q) = e /\ m \in 1 .. Len(q) + 1 /\ Len(q) - m + 1 <= Budget /\ (m > 1 => Len(q) - m + 1 = Budget)
  BY <1>0 DEF Evicted
<1> HIDE DEF m
<1>2. \A i \in m .. Len(q) : q[i] \in BlockIndex
  BY <1>0, <1>1
<1>3. e \in Seq(BlockIndex) /\ Len(e) = Len(q) - m + 1 /\ DOMAIN e = 1 .. Len(q) - m + 1
  BY <1>0, <1>1, <1>2, SubSeqProperties
<1>4. \A i \in 1 .. Len(q) - m + 1 : e[i] = q[m + i - 1]
  BY <1>0, <1>1, <1>2, SubSeqProperties
<1> HIDE DEF e
<1>5. \A i, j \in 1 .. Len(q) - m + 1 : e[i] = e[j] => i = j
  <2> SUFFICES ASSUME NEW i \in 1 .. Len(q) - m + 1, NEW j \in 1 .. Len(q) - m + 1, e[i] = e[j]
               PROVE  i = j
    OBVIOUS
  <2>1. m + i - 1 \in DOMAIN q /\ m + j - 1 \in DOMAIN q /\ q[m + i - 1] = q[m + j - 1]
    BY <1>0, <1>1, <1>4
  <2>2. m + i - 1 = m + j - 1
    BY <2>1 DEF Distinct
  <2> QED
    BY <1>0, <1>1, <2>2
<1>6. ASSUME NEW t, NEW n \in Nat, n < Budget, NearEnd(q, t, n)
      PROVE  NearEnd(e, t, n)
  <2>1. PICK i \in 1 .. Len(q) : q[i] = t /\ Len(q) - i <= n
    BY <1>0, <1>6 DEF NearEnd
  <2>2. i - m + 1 \in 1 .. Len(q) - m + 1 /\ Len(e) - (i - m + 1) <= n
    BY <1>0, <1>1, <1>3, <1>6, <2>1
  <2>3. e[i - m + 1] = q[m + (i - m + 1) - 1]
    BY <1>4, <2>2
  <2>4. m + (i - m + 1) - 1 = i
    BY <1>0, <1>1
  <2> QED
    BY <1>3, <2>1, <2>2, <2>3, <2>4 DEF NearEnd
<1>7. Distinct(e)
  BY <1>3, <1>5 DEF Distinct
<1>8. \A i \in DOMAIN e : m + i - 1 \in DOMAIN q /\ e[i] = q[m + i - 1]
  BY <1>0, <1>1, <1>3, <1>4
<1> QED
  BY <1>0, <1>1, <1>3, <1>6, <1>7, <1>8

-----------------------------------------------------------------------------
(* The byte source: types, and what a thread may count on where it is.     *)

Outcome == {"index", "indexed", "after", "ahead"}
Places == Downloading \cup {"discover", "index", "indexed", "top", "wait", "checked",
                            "blocked", "after", "ahead", "end", "gone"}
Known == BlockIndex \cup {None}
Looking == {"lookup", "wait", "checked", "blocked", "copy"}

CacheTyped == Distinct(cache) /\ Len(cache) <= Budget
StreamTyped ==
  /\ requested \in Known /\ position \in 0 .. LastBlock + 1
  /\ state \in {"Opening", "Ready", "Rebuffering", "Error", "Cancelled", "Ended"}
  /\ ready \in BOOLEAN /\ error \in BOOLEAN /\ cancelled \in BOOLEAN /\ stopped \in BOOLEAN
  /\ prefetch \in BOOLEAN /\ layout \in Layouts \cup {<<>>} /\ xpc \in {"idle", "lock", "done"}

\* A transfer is of a block, is repeated only if a retry is left, and the index of a
\* file is one of a fragmented file.
WorkerTyped ==
  /\ wpc \in Places /\ block \in Known /\ then \in Outcome /\ tries \in 0 .. Retries
  /\ ahead \subseteq BlockIndex
  /\ wpc = "discover" => then = "index"
  /\ wpc \in Downloading \ {"fail"} => block \in BlockIndex
  /\ wpc \in {"rebuffer", "pause"} => tries < Retries
  /\ wpc = "indexed" \/ (wpc \in Downloading /\ then = "indexed") => layout # <<>>

\* The position moves only between two blocks of a read.
ReaderTyped ==
  /\ rpc \in Looking \cup {"idle", "test"} /\ want \in 0 .. MaxRead /\ target \in Known
  /\ rpc # "idle" => want > 0
  /\ rpc \in Looking => target \in BlockIndex /\ position = target

TypeInv == CacheTyped /\ StreamTyped /\ WorkerTyped /\ ReaderTyped

\* What SourceAssumption says, for the provers.
LEMMA Constants ==
  /\ LastBlock \in Nat /\ Budget \in Nat \ {0} /\ ReadAhead \in 0 .. Budget /\ Retries \in Nat
  /\ MaxRead \in Nat \ {0} /\ 0 \in BlockIndex /\ LastBlock \in BlockIndex
  /\ None \notin BlockIndex /\ BlockIndex \subseteq Nat
  /\ FragmentAhead \in Nat \ {0}
  /\ Layouts \subseteq Seq(Fragment) /\ \A l \in Layouts : Contiguous(l)
BY SourceAssumption DEF BlockIndex, None

\* The first block of the first fragment.
LEMMA FirstBlock ==
  ASSUME layout \in Layouts \cup {<<>>}, layout # <<>>
  PROVE  First(layout[1]) \in BlockIndex
<1>1. layout \in Seq(Fragment) /\ Contiguous(layout)
  BY Constants
<1>2. 1 \in DOMAIN layout
  BY <1>1
<1> QED
  BY <1>1, <1>2 DEF Contiguous

\* The types hold at first.
LEMMA TypeInit == SourceInit => TypeInv
<1> SUFFICES ASSUME SourceInit PROVE TypeInv
  OBVIOUS
<1>1. Distinct(<<>>) /\ Len(<<>>) = 0
  BY DEF Distinct
<1>2. CacheTyped
  BY <1>1, Constants DEF SourceInit, CacheTyped
<1>3. StreamTyped
  <2>1. requested \in Known /\ position \in 0 .. LastBlock + 1
    BY Constants DEF SourceInit, Known
  <2>2. /\ state = "Opening" /\ ready = FALSE /\ error = FALSE /\ cancelled = FALSE /\ stopped = FALSE
        /\ prefetch = FALSE /\ layout \in Layouts /\ xpc = "idle"
    BY DEF SourceInit
  <2> QED
    BY <2>1, <2>2 DEF StreamTyped
<1>4. WorkerTyped
  BY Constants DEF SourceInit, WorkerTyped, Known, Places, Downloading, Outcome
<1>5. ReaderTyped
  BY Constants DEF SourceInit, ReaderTyped, Known, Looking
<1> QED
  BY <1>2, <1>3, <1>4, <1>5 DEF TypeInv

\* A notification moves nobody but a sleeper.
LEMMA NotifiedTyped ==
  ASSUME ReaderTyped, WorkerTyped
  PROVE  /\ NotifiedReader \in Looking \cup {"idle", "test"}
         /\ NotifiedReader # "idle" <=> rpc # "idle"
         /\ NotifiedReader \in Looking <=> rpc \in Looking
         /\ NotifiedWorker \in Places
         /\ NotifiedWorker \in Downloading <=> wpc \in Downloading
         /\ NotifiedWorker # "wait" => NotifiedWorker = wpc
         /\ NotifiedWorker = "wait" => wpc \in {"wait", "blocked"}
BY DEF ReaderTyped, WorkerTyped, NotifiedReader, NotifiedWorker, Looking, Places, Downloading

\* The steps of the worker that leave cache and reader alone.
LEMMA QuietWorkerTyped ==
  ASSUME TypeInv,
         Attempt \/ Transfer \/ Pause \/ Discover \/ Index \/ Loop \/ Await \/ Sleep \/ TakeRequest
           \/ PlanAhead \/ FetchAhead
  PROVE  TypeInv'
<1>1. UNCHANGED <<cache, readerVars, position, state, ready, error, cancelled, stopped, prefetch, xpc>>
  BY DEF Attempt, Transfer, Pause, Discover, Index, Loop, Await, Sleep, TakeRequest, PlanAhead,
         FetchAhead, streamVars, flags, readerVars
<1>2. CacheTyped' /\ ReaderTyped'
  BY <1>1 DEF TypeInv, CacheTyped, ReaderTyped, readerVars
<1>3. requested' \in Known /\ layout' \in Layouts \cup {<<>>}
  BY DEF TypeInv, StreamTyped, Attempt, Transfer, Pause, Discover, Index, Loop, Await, Sleep, TakeRequest,
         PlanAhead, FetchAhead, flags, GivesUp, Known
<1>4. StreamTyped'
  BY <1>1, <1>3 DEF TypeInv, StreamTyped
<1>5. WorkerTyped'
  <2> USE DEF TypeInv, WorkerTyped, Places, Downloading, Outcome, Known
  <2>1. CASE Attempt
    BY <2>1 DEF Attempt, GivesUp
  <2>2. CASE Transfer
    BY <2>2, Constants DEF Transfer, flags
  <2>3. CASE Pause
    BY <2>3, Constants DEF Pause, GivesUp
  <2>4. CASE Discover
    BY <2>4, Constants DEF Discover, Start, flags
  <2>5. CASE Index
    BY <2>5, Constants DEF Index, Start, flags
  <2>6. CASE Loop
    BY <2>6, Constants DEF Loop, flags
  <2>7. CASE Await \/ Sleep
    BY <2>7 DEF Await, Sleep, flags
  <2>8. CASE TakeRequest
    BY <2>8, Constants DEF TakeRequest, HasWork, Start, flags, StreamTyped
  <2>9. CASE PlanAhead
    <3>1. ahead' \subseteq BlockIndex
      BY <2>9 DEF PlanAhead, AheadOf, Window
    <3> QED
      BY <2>9, <3>1 DEF PlanAhead, flags
  <2>10. CASE FetchAhead
    <3>1. ahead' \subseteq BlockIndex /\ layout' = layout
      BY <2>10 DEF FetchAhead, flags
    <3>2. CASE wpc' = "top"
      BY <2>10, <3>1, <3>2 DEF FetchAhead, Start
    <3>3. CASE wpc' # "top"
      <4>1. PICK b \in ahead : IF Cached(b) THEN UNCHANGED <<wpc, block, then, tries>> ELSE Start(b, "ahead")
        BY <2>10, <3>3 DEF FetchAhead
      <4>2. b \in BlockIndex /\ wpc = "ahead"
        BY <2>10, <4>1 DEF FetchAhead
      <4> QED
        BY <3>1, <4>1, <4>2, Constants DEF Start
    <3> QED
      BY <3>2, <3>3
  <2> QED
    BY <2>1, <2>2, <2>3, <2>4, <2>5, <2>6, <2>7, <2>8, <2>9, <2>10
<1> QED
  BY <1>2, <1>4, <1>5 DEF TypeInv

\* The steps of the worker that notify.
LEMMA LoudWorkerTyped ==
  ASSUME TypeInv, Insert \/ Rebuffer \/ Fail \/ Indexed \/ End
  PROVE  TypeInv'
<1>1. UNCHANGED <<position, want, target, prefetch, xpc, cancelled>> /\ rpc' = NotifiedReader
  BY DEF Insert, Rebuffer, Fail, Indexed, End, streamVars, flags
<1>2. ReaderTyped'
  BY <1>1, NotifiedTyped DEF TypeInv, ReaderTyped
<1>3. CacheTyped'
  <2>1. CASE Insert
    <3>1. block \in BlockIndex /\ cache' = Evicted(Touched(block))
      BY <2>1 DEF Insert, TypeInv, WorkerTyped, Downloading
    <3>2. Distinct(Touched(block))
      BY <3>1, TouchedIs DEF TypeInv, CacheTyped
    <3> QED
      BY <3>1, <3>2, EvictedIs DEF CacheTyped
  <2>2. CASE ~Insert
    <3>1. cache' = cache
      BY <2>2 DEF Rebuffer, Fail, Indexed, End
    <3> QED
      BY <3>1 DEF TypeInv, CacheTyped
  <2> QED
    BY <2>1, <2>2
<1>4. requested' \in Known
  <2>1. CASE Indexed
    BY <2>1, FirstBlock DEF Indexed, TypeInv, WorkerTyped, StreamTyped, Known
  <2>2. CASE ~Indexed
    BY <2>2 DEF Insert, Rebuffer, Fail, End, TypeInv, StreamTyped
  <2> QED
    BY <2>1, <2>2
<1>5. StreamTyped'
  BY <1>1, <1>4 DEF Insert, Rebuffer, Fail, Indexed, End, streamVars, flags, GivesUp, TypeInv, StreamTyped
<1>6. WorkerTyped'
  <2> USE DEF TypeInv, WorkerTyped, Places, Downloading, Outcome, Known
  <2>1. CASE Insert
    BY <2>1 DEF Insert, flags
  <2>2. CASE Rebuffer
    BY <2>2 DEF Rebuffer, flags
  <2>3. CASE Fail
    BY <2>3 DEF Fail, GivesUp
  <2>4. CASE Indexed \/ End
    BY <2>4 DEF Indexed, End, flags
  <2> QED
    BY <2>1, <2>2, <2>3, <2>4
<1> QED
  BY <1>2, <1>3, <1>5, <1>6 DEF TypeInv

\* The reader.
LEMMA ReadingTyped ==
  ASSUME TypeInv, Reading \/ (\E n \in 1 .. MaxRead : ReadEnter(n))
  PROVE  TypeInv'
<1>1. UNCHANGED <<ready, error, flags, block, then, tries, ahead>>
  BY DEF Reading, ReadEnter, ReadTest, ReadLookup, ReadSleep, ReadWait, ReadBlock, streamVars, workerVars
<1>2. CacheTyped'
  <2>1. CASE ReadBlock
    <3>1. target \in BlockIndex /\ cache' \in {cache, Touched(target)} /\ (cache' # cache => Cached(target))
      BY <2>1 DEF ReadBlock, TypeInv, ReaderTyped, Looking
    <3>2. Distinct(Touched(target)) /\ (Cached(target) => Len(Touched(target)) = Len(cache))
      BY <3>1, TouchedIs DEF TypeInv, CacheTyped
    <3> QED
      BY <3>1, <3>2 DEF TypeInv, CacheTyped
  <2>2. CASE ~ReadBlock
    <3>1. cache' = cache
      BY <2>2 DEF Reading, ReadEnter, ReadTest, ReadLookup, ReadSleep, ReadWait
    <3> QED
      BY <3>1 DEF TypeInv, CacheTyped
  <2> QED
    BY <2>1, <2>2
<1>3. StreamTyped' /\ ReaderTyped'
  <2> USE Constants DEF TypeInv, StreamTyped, ReaderTyped, Looking, Known
  <2>1. CASE \E n \in 1 .. MaxRead : ReadEnter(n)
    BY <2>1 DEF ReadEnter, streamVars, flags, workerVars
  <2>2. CASE ReadTest
    BY <2>2 DEF ReadTest, ReadReturn, BlockIndex, None, flags
  <2>3. CASE ReadLookup
    BY <2>3 DEF ReadLookup, ReadReturn, streamVars, flags
  <2>4. CASE ReadSleep \/ ReadWait
    BY <2>4 DEF ReadSleep, ReadWait, ReadReturn, streamVars, flags
  <2>5. CASE ReadBlock
    BY <2>5 DEF ReadBlock, ReadReturn, BlockIndex, None, flags
  <2> QED
    BY <2>1, <2>2, <2>3, <2>4, <2>5 DEF Reading
<1>4. WorkerTyped'
  <2>1. wpc' = wpc \/ wpc' = NotifiedWorker
    BY DEF Reading, ReadEnter, ReadTest, ReadLookup, ReadSleep, ReadWait, ReadBlock, workerVars
  <2>2. layout' = layout
    BY <1>1 DEF flags
  <2> QED
    BY <1>1, <2>1, <2>2, NotifiedTyped DEF TypeInv, WorkerTyped, Downloading
<1> QED
  BY <1>2, <1>3, <1>4 DEF TypeInv

\* Seek, prefetch and cancel.
LEMMA CallsTyped ==
  ASSUME TypeInv,
         (\E b \in 0 .. LastBlock + 1 : SeekTo(b)) \/ EnablePrefetch \/ CancelFlag \/ CancelNotify
  PROVE  TypeInv'
<1>1. UNCHANGED <<cache, requested, ready, error, stopped, layout, block, then, tries, ahead, want, target>>
  BY DEF SeekTo, EnablePrefetch, CancelFlag, CancelNotify, streamVars, flags, workerVars, readerVars
<1>2. (rpc' = rpc \/ rpc' = NotifiedReader) /\ (wpc' = wpc \/ wpc' = NotifiedWorker)
  BY DEF SeekTo, EnablePrefetch, CancelFlag, CancelNotify, workerVars, readerVars
<1>3. CacheTyped'
  BY <1>1 DEF TypeInv, CacheTyped
<1>4. StreamTyped'
  <2>1. position' \in 0 .. LastBlock + 1
    BY DEF SeekTo, EnablePrefetch, CancelFlag, CancelNotify, streamVars, TypeInv, StreamTyped
  <2>2. state' \in {state, "Ready", "Cancelled"}
    BY DEF SeekTo, EnablePrefetch, CancelFlag, CancelNotify, streamVars
  <2>3. cancelled' \in {cancelled, TRUE} /\ prefetch' \in {prefetch, TRUE} /\ xpc' \in {xpc, "lock", "done"}
    BY DEF SeekTo, EnablePrefetch, CancelFlag, CancelNotify, flags
  <2>4. state' \in {"Opening", "Ready", "Rebuffering", "Error", "Cancelled", "Ended"}
    BY <2>2 DEF TypeInv, StreamTyped
  <2>5. cancelled' \in BOOLEAN /\ prefetch' \in BOOLEAN /\ xpc' \in {"idle", "lock", "done"}
    BY <2>3 DEF TypeInv, StreamTyped
  <2>6. StreamTyped
    BY DEF TypeInv
  <2> QED
    BY <1>1, <2>1, <2>4, <2>5, <2>6 DEF StreamTyped
<1>5. WorkerTyped'
  BY <1>1, <1>2, NotifiedTyped DEF TypeInv, WorkerTyped, Downloading
<1>6. ReaderTyped'
  <2>1. rpc \in Looking => position' = position
    BY DEF SeekTo, EnablePrefetch, CancelFlag, CancelNotify, streamVars, Looking
  <2> QED
    BY <1>1, <1>2, <2>1, NotifiedTyped DEF TypeInv, ReaderTyped
<1> QED
  BY <1>3, <1>4, <1>5, <1>6 DEF TypeInv

\* Every step keeps the types.
LEMMA TypeStep == TypeInv /\ [SourceNext]_sourceVars => TypeInv'
<1> SUFFICES ASSUME TypeInv, [SourceNext]_sourceVars PROVE TypeInv'
  OBVIOUS
<1>1. CASE Worker
  BY <1>1, QuietWorkerTyped, LoudWorkerTyped DEF Worker, Download
<1>2. CASE Reading \/ (\E n \in 1 .. MaxRead : ReadEnter(n))
  BY <1>2, ReadingTyped
<1>3. CASE (\E b \in 0 .. LastBlock + 1 : SeekTo(b)) \/ EnablePrefetch \/ CancelFlag \/ CancelNotify
  BY <1>3, CallsTyped
<1>4. CASE UNCHANGED sourceVars
  BY <1>4 DEF sourceVars, streamVars, flags, workerVars, readerVars, TypeInv, CacheTyped, StreamTyped,
              WorkerTyped, ReaderTyped
<1> QED
  BY <1>1, <1>2, <1>3, <1>4 DEF SourceNext

\* Every variable of the byte source keeps its type: in particular the cache never
\* holds a block twice or more than its budget, a read stays within the resource, and
\* no transfer is repeated more often than the retries allow.
THEOREM SourceTypesHold == SourceSpec => []SourceTypeOK
<1>1. TypeInv => SourceTypeOK
  BY DEF TypeInv, CacheTyped, StreamTyped, WorkerTyped, ReaderTyped, SourceTypeOK, Distinct, Known, Places,
         Outcome, Looking
<1> QED
  BY <1>1, TypeInit, TypeStep, PTL DEF SourceSpec

-----------------------------------------------------------------------------
(* The byte source: sleepers.                                              *)

\* What is fetched ahead of a block leaves room for the block itself: the blocks that
\* the scheduled fragments touch, which the code bounds by their bytes, are not more
\* than the cache holds.
RoomAhead ==
  ReadAhead < Budget /\ \A l \in Layouts : \A i \in DOMAIN l : Cardinality(Window(l, i)) <= Budget

\* The first block has arrived before anybody can read.
Opened ==
  /\ wpc = "discover" \/ (wpc \in Downloading /\ then = "index") => ~ready
  /\ ~ready => rpc = "idle"

\* Whoever has found nothing to do is told of what comes.
Told ==
  /\ rpc \in {"checked", "blocked"} =>
       ~Cached(target) /\ ~error /\ ~stopped /\ (cancelled => xpc = "lock")
  /\ wpc \in {"checked", "blocked"} => requested = None /\ (cancelled => xpc = "lock")

Awaits == rpc \in {"wait", "checked", "blocked"} /\ ~error /\ ~stopped /\ ~cancelled

\* The target is not evicted by the k-th block from now, and what is left to be fetched.
Spared(k) == \E n \in Nat : NearEnd(cache, target, n) /\ n + k + Cardinality(ahead \ {target}) < Budget

Demanded ==
  /\ requested = target
  /\ Cached(target) => wpc \in {"indexed", "after", "ahead", "top", "wait"} /\ NearEnd(cache, target, 0)
Fetched == requested = None /\ block = target /\ wpc \in Downloading /\ then = "after"
Arrived ==
  /\ requested = None /\ Cached(target)
  /\ wpc \in {"after", "ahead", "top", "wait", "checked", "blocked"} \cup Downloading
  /\ wpc = "after" => block = target /\ NearEnd(cache, target, 0)
  /\ wpc = "ahead" => Spared(0)
  /\ wpc \in Downloading => then = "ahead" /\ Spared(1)
Owed == Awaits => Demanded \/ Fetched \/ Arrived

SleepInv == TypeInv /\ Opened /\ Told /\ Owed

\* The plan for a block fits beside the block.
LEMMA PlanFits ==
  ASSUME RoomAhead, layout \in Layouts \cup {<<>>}, NEW b \in BlockIndex
  PROVE  IsFiniteSet(AheadOf(b)) /\ Cardinality(AheadOf(b) \ {b}) < Budget
<1>0. b \in Nat /\ ReadAhead \in Nat /\ Budget \in Nat \ {0} /\ ReadAhead < Budget
  BY Constants DEF RoomAhead
<1>5. \A x \in BlockIndex : x \in Int
  BY DEF BlockIndex
<1>1. ASSUME NEW S, NEW lo \in Int, NEW hi \in Int, S \subseteq lo .. hi,
             b \in lo .. hi, hi - lo < Budget
      PROVE  IsFiniteSet(S) /\ Cardinality(S \ {b}) < Budget
  <2>1. IsFiniteSet(lo .. hi) /\ Cardinality(lo .. hi) = hi - lo + 1
    BY <1>1, FS_Interval
  <2>2. IsFiniteSet((lo .. hi) \ {b}) /\ Cardinality((lo .. hi) \ {b}) = hi - lo
    <3>1. IsFiniteSet((lo .. hi) \ {b}) /\ Cardinality((lo .. hi) \ {b}) = Cardinality(lo .. hi) - 1
      BY <1>1, <2>1, FS_RemoveElement
    <3> QED
      BY <1>1, <2>1, <3>1
  <2>3. IsFiniteSet(S) /\ IsFiniteSet(S \ {b}) /\ Cardinality(S \ {b}) <= Cardinality((lo .. hi) \ {b})
    BY <1>1, <2>1, <2>2, FS_Subset
  <2>4. Cardinality(S \ {b}) \in Nat
    BY <2>3, FS_CardinalityType
  <2> QED
    BY <1>0, <1>1, <2>2, <2>3, <2>4
<1>2. CASE layout = <<>>
  <2> DEFINE S == {x \in BlockIndex : b < x /\ x <= b + ReadAhead}
  <2>1. AheadOf(b) = S
    BY <1>2 DEF AheadOf
  <2> DEFINE hi == b + ReadAhead
  <2>2. S \subseteq b .. hi /\ b \in b .. hi /\ hi - b < Budget /\ b \in Int /\ hi \in Int
    BY <1>0 DEF BlockIndex
  <2> HIDE DEF S, hi
  <2>3. IsFiniteSet(S) /\ Cardinality(S \ {b}) < Budget
    BY <1>1, <2>2
  <2> QED
    BY <2>1, <2>3
<1>3. CASE layout # <<>> /\ prefetch /\ \E i \in DOMAIN layout : Touches(layout[i], b)
  <2> DEFINE T == {i \in DOMAIN layout : Touches(layout[i], b)}
             f == FragmentOf(b)
  <2>0. layout \in Layouts /\ layout \in Seq(Fragment) /\ DOMAIN layout \subseteq Nat
    BY <1>3, Constants
  <2>1. PICK i \in T : \A j \in T : ~(j < i)
    <3>1. T \subseteq Nat /\ T # {}
      BY <1>3, <2>0
    <3> DEFINE R == OpToRel(<, Nat)
    <3> HIDE DEF T
    <3>2. PICK i \in T : \A j \in T : ~(<<j, i>> \in R)
      BY <3>1, NatLessThanWellFounded, WFMin
    <3>3. ASSUME NEW j \in T PROVE ~(j < i)
      BY <3>1, <3>2 DEF OpToRel
    <3> QED
      BY <3>2, <3>3
  <2>2. /\ i \in DOMAIN layout /\ Touches(layout[i], b)
        /\ \A j \in 1 .. i - 1 : ~Touches(layout[j], b)
    <3>1. \A j \in 1 .. i - 1 : j \in DOMAIN layout
      BY <2>0, <2>1
    <3> QED
      BY <2>0, <2>1, <3>1
  <2>3. f \in DOMAIN layout /\ Touches(layout[f], b)
    BY <2>2 DEF FragmentOf
  <2>4. AheadOf(b) = Window(layout, f)
    BY <1>3 DEF AheadOf
  <2> HIDE DEF f
  <2>5. f \in Scheduled(layout, f)
    BY <2>0, <2>3, Constants DEF Scheduled
  <2>6. b \in Window(layout, f) /\ Window(layout, f) \subseteq BlockIndex
    BY <2>3, <2>5 DEF Window
  <2>7. IsFiniteSet(BlockIndex)
    BY Constants, FS_Interval DEF BlockIndex
  <2>8. IsFiniteSet(Window(layout, f)) /\ Cardinality(Window(layout, f)) \in Nat
    BY <2>6, <2>7, FS_Subset, FS_CardinalityType
  <2>9. Cardinality(Window(layout, f) \ {b}) = Cardinality(Window(layout, f)) - 1
    BY <2>6, <2>8, FS_RemoveElement
  <2>10. Cardinality(Window(layout, f)) <= Budget
    BY <2>0, <2>3 DEF RoomAhead
  <2> QED
    BY <1>0, <2>4, <2>8, <2>9, <2>10
<1>4. CASE layout # <<>> /\ ~(prefetch /\ \E i \in DOMAIN layout : Touches(layout[i], b))
  <2>1. AheadOf(b) = {}
    BY <1>4 DEF AheadOf
  <2>2. {} \subseteq b .. b /\ b \in b .. b /\ b - b < Budget
    BY <1>0
  <2> QED
    BY <1>0, <1>1, <2>1, <2>2
<1> QED
  BY <1>2, <1>3, <1>4

\* What the arrival of a block does to what a reader waits for.
LEMMA InsertServes ==
  ASSUME TypeInv, Insert, NEW t
  PROVE  /\ Cached(t)' => Cached(t) \/ t = block
         /\ NearEnd(cache, block, 0)'
         /\ \A n : n \in Nat /\ n + 1 < Budget /\ NearEnd(cache, t, n) => NearEnd(cache', t, n + 1)
<1> DEFINE q == Touched(block)
<1>1. Distinct(cache) /\ block \in BlockIndex /\ cache' = Evicted(q) /\ block' = block
  BY DEF TypeInv, CacheTyped, WorkerTyped, Insert, Downloading
<1>2. /\ Distinct(q) /\ NearEnd(q, block, 0)
      /\ \A i \in DOMAIN q : q[i] = block \/ Cached(q[i])
      /\ \A u, n : n \in Nat /\ NearEnd(cache, u, n) => NearEnd(q, u, n + 1)
  BY <1>1, TouchedIs
<1> HIDE DEF q
<1>3. /\ \A i \in DOMAIN cache' : \E j \in DOMAIN q : cache'[i] = q[j]
      /\ \A u, n : n \in Nat /\ n < Budget /\ NearEnd(q, u, n) => NearEnd(cache', u, n)
  BY <1>1, <1>2, EvictedIs
<1>4. Cached(t)' => Cached(t) \/ t = block
  BY <1>2, <1>3 DEF Cached
<1>5. NearEnd(cache', block, 0)
  <2>1. 0 \in Nat /\ 0 < Budget
    BY Constants
  <2> QED
    BY <1>2, <1>3, <2>1
<1>6. ASSUME NEW n \in Nat, n + 1 < Budget, NearEnd(cache, t, n)
      PROVE  NearEnd(cache', t, n + 1)
  <2>1. NearEnd(q, t, n + 1)
    BY <1>2, <1>6
  <2>2. n + 1 \in Nat
    OBVIOUS
  <2> QED
    BY <1>3, <1>6, <2>1, <2>2
<1> QED
  BY <1>1, <1>4, <1>5, <1>6

\* Nobody waits at first.
LEMMA SleepInit == SourceInit => SleepInv
<1>1. SourceInit => Opened /\ Told /\ Owed
  BY DEF SourceInit, Opened, Told, Owed, Awaits, Downloading
<1> QED
  BY <1>1, TypeInit DEF SleepInv

\* Every step keeps Opened.
LEMMA OpenedStep ==
  ASSUME TypeInv, Opened, SourceNext
  PROVE  Opened'
<1>1. CASE Worker
  <2>1. ready' = ready \/ Insert
    BY <1>1 DEF Worker, Download, Attempt, Transfer, Rebuffer, Pause, Fail, Discover, Index, Indexed, Loop, Await,
                Sleep, TakeRequest, PlanAhead, FetchAhead, End, streamVars
  <2>2. rpc = "idle" => rpc' = "idle"
    BY <1>1 DEF Worker, Download, Insert, Attempt, Transfer, Rebuffer, Pause, Fail, Discover, Index, Indexed, Loop,
                Await, Sleep, TakeRequest, PlanAhead, FetchAhead, End, readerVars, NotifiedReader
  <2>3. CASE Insert
    BY <2>3 DEF Insert, Opened, TypeInv, WorkerTyped, Outcome, Downloading
  <2>4. CASE ~Insert
    <3>1. wpc' = "discover" \/ (wpc' \in Downloading /\ then' = "index") =>
            wpc = "discover" \/ (wpc \in Downloading /\ then = "index")
      BY <1>1, <2>4 DEF Worker, Download, Attempt, Transfer, Rebuffer, Pause, Fail, Discover, Index, Indexed, Loop,
                Await, Sleep, TakeRequest, PlanAhead, FetchAhead, End, GivesUp, Start, Downloading,
                TypeInv, WorkerTyped, Outcome
    <3> QED
      BY <2>1, <2>2, <2>4, <3>1 DEF Opened
  <2> QED
    BY <2>3, <2>4
<1>2. CASE ~Worker
  <2>1. ready' = ready /\ then' = then /\ (wpc' = wpc \/ wpc' = NotifiedWorker)
    BY <1>2 DEF SourceNext, Reading, ReadEnter, ReadTest, ReadLookup, ReadSleep, ReadWait, ReadBlock, SeekTo,
                EnablePrefetch, CancelFlag, CancelNotify, streamVars, workerVars
  <2>2. ~ready /\ rpc = "idle" => rpc' = "idle"
    BY <1>2 DEF SourceNext, Reading, ReadEnter, ReadTest, ReadLookup, ReadSleep, ReadWait, ReadBlock, SeekTo,
                EnablePrefetch, CancelFlag, CancelNotify, readerVars, NotifiedReader
  <2>3. wpc' \in Downloading \cup {"discover"} => wpc' = wpc
    BY <2>1 DEF NotifiedWorker, Downloading
  <2> QED
    BY <2>1, <2>2, <2>3 DEF Opened
<1> QED
  BY <1>1, <1>2

\* Who is about to sleep holds the lock, or is told by whoever took it.
LEMMA ToldStep ==
  ASSUME TypeInv, Told, SourceNext
  PROVE  Told'
<1> USE DEF Told
<1>1. CASE Insert \/ Rebuffer \/ Fail \/ Indexed \/ End
  <2>1. rpc' = NotifiedReader /\ rpc # "checked" /\ wpc # "checked"
    BY <1>1 DEF Insert, Rebuffer, Fail, Indexed, End, Unlocked
  <2>2. rpc' \notin {"checked", "blocked"}
    BY <2>1 DEF NotifiedReader
  <2>3. wpc' \notin {"checked", "blocked"}
    BY <1>1 DEF Insert, Rebuffer, Fail, Indexed, End, GivesUp, TypeInv, WorkerTyped, Outcome
  <2> QED
    BY <2>2, <2>3
<1>2. CASE Attempt \/ Transfer \/ Pause \/ Discover \/ Index \/ Loop \/ TakeRequest \/ PlanAhead \/ FetchAhead
  <2>1. UNCHANGED <<cache, rpc, target, error, stopped, cancelled, xpc>>
    BY <1>2 DEF Attempt, Transfer, Pause, Discover, Index, Loop, TakeRequest, PlanAhead, FetchAhead, streamVars, flags,
                readerVars
  <2>2. wpc' \notin {"checked", "blocked"}
    BY <1>2 DEF Attempt, Transfer, Pause, Discover, Index, Loop, TakeRequest, PlanAhead, FetchAhead, GivesUp, Start,
                TypeInv, WorkerTyped, Outcome
  <2> QED
    BY <2>1, <2>2 DEF Cached
<1>3. CASE Await \/ Sleep
  BY <1>3 DEF Await, Sleep, HasWork, streamVars, flags, readerVars, Cached
<1>4. CASE (\E n \in 1 .. MaxRead : ReadEnter(n)) \/ ReadTest \/ ReadBlock
  <2>1. UNCHANGED <<requested, cancelled, xpc, wpc>> /\ rpc' \notin {"checked", "blocked"}
    BY <1>4 DEF ReadEnter, ReadTest, ReadBlock, ReadReturn, flags, workerVars
  <2> QED
    BY <2>1
<1>5. CASE ReadLookup
  <2>1. UNCHANGED <<cache, error, stopped, cancelled, xpc>>
    BY <1>5 DEF ReadLookup, streamVars, flags
  <2>2. wpc # "checked"
    BY <1>5 DEF ReadLookup, Unlocked
  <2>3. CASE Cached(target)
    BY <1>5, <2>1, <2>3 DEF ReadLookup
  <2>4. CASE ~Cached(target)
    BY <1>5, <2>1, <2>2, <2>4 DEF ReadLookup, ReadReturn, NotifiedWorker, Cached
  <2> QED
    BY <2>3, <2>4
<1>6. CASE ReadSleep \/ ReadWait
  <2>1. UNCHANGED <<cache, requested, error, stopped, cancelled, xpc, wpc>>
    BY <1>6 DEF ReadSleep, ReadWait, streamVars, flags, workerVars
  <2> QED
    BY <1>6, <2>1 DEF ReadSleep, ReadWait, ReadReturn, Cached
<1>7. CASE (\E b \in 0 .. LastBlock + 1 : SeekTo(b)) \/ EnablePrefetch
  <2>1. UNCHANGED <<cache, requested, error, stopped, cancelled, xpc, wpc, rpc, target>>
    BY <1>7 DEF SeekTo, EnablePrefetch, flags, workerVars, readerVars, streamVars
  <2> QED
    BY <2>1 DEF Cached
<1>8. CASE CancelFlag
  <2>1. UNCHANGED <<cache, requested, error, stopped, wpc, rpc, target>> /\ xpc' = "lock"
    BY <1>8 DEF CancelFlag, flags, workerVars, readerVars, streamVars
  <2> QED
    BY <2>1 DEF Cached
<1>9. CASE CancelNotify
  <2>1. rpc' = NotifiedReader /\ wpc' = NotifiedWorker /\ rpc # "checked" /\ wpc # "checked"
    BY <1>9, Constants DEF CancelNotify, CancelLocks, Unlocked
  <2> QED
    BY <2>1 DEF NotifiedReader, NotifiedWorker
<1> QED
  BY <1>1, <1>2, <1>3, <1>4, <1>5, <1>6, <1>7, <1>8, <1>9 DEF SourceNext, Worker, Download, Reading

\* A reader that goes on waiting for what it waited for, and a worker that goes on.
LEMMA OwedKept ==
  ASSUME Owed, UNCHANGED <<cache, requested, target, block, then, ahead>>,
         Awaits' => Awaits,
         wpc' = wpc \/ wpc' = NotifiedWorker
  PROVE  Owed'
<1> SUFFICES ASSUME Awaits' PROVE (Demanded \/ Fetched \/ Arrived)'
  BY DEF Owed
<1>1. Demanded \/ Fetched \/ Arrived
  BY DEF Owed
<1>2. wpc' = wpc \/ (wpc = "blocked" /\ wpc' = "wait")
  BY DEF NotifiedWorker
<1>3. Demanded => Demanded'
  BY <1>2 DEF Demanded, Cached
<1>4. Fetched => Fetched'
  BY <1>2 DEF Fetched, Downloading
<1>5. Arrived => Arrived'
  <2>1. \A k : Spared(k)' = Spared(k)
    BY DEF Spared
  <2> QED
    BY <1>2, <2>1 DEF Arrived, Cached, Downloading
<1> QED
  BY <1>1, <1>3, <1>4, <1>5

\* The steps of the worker that leave the cache alone.
LEMMA WorkerOwes ==
  ASSUME RoomAhead, TypeInv, Told, Owed, Worker, ~Insert
  PROVE  Owed'
<1>1. UNCHANGED <<cache, target>>
  BY DEF Worker, Download, Attempt, Transfer, Rebuffer, Pause, Fail, Discover, Index, Indexed, Loop, Await,
         Sleep, TakeRequest, PlanAhead, FetchAhead, End, readerVars
<1>2. Awaits' => Awaits /\ ~Fail /\ ~End
  <2>1. rpc' = rpc \/ rpc' = NotifiedReader
    BY DEF Worker, Download, Attempt, Transfer, Rebuffer, Pause, Fail, Discover, Index, Indexed, Loop, Await,
           Sleep, TakeRequest, PlanAhead, FetchAhead, End, readerVars
  <2>2. (error' = error \/ Fail) /\ (stopped => stopped') /\ cancelled' = cancelled
    BY DEF Worker, Download, Attempt, Transfer, Rebuffer, Pause, Fail, Discover, Index, Indexed, Loop, Await,
           Sleep, TakeRequest, PlanAhead, FetchAhead, End, streamVars, flags
  <2>3. Fail \/ End => stopped'
    BY DEF Fail, End
  <2> QED
    BY <2>1, <2>2, <2>3 DEF Awaits, NotifiedReader
<1> SUFFICES ASSUME Awaits', Awaits, ~Fail, ~End PROVE (Demanded \/ Fetched \/ Arrived)'
  BY <1>2 DEF Owed
<1>3. ~cancelled /\ (Demanded \/ Fetched \/ Arrived) /\ target \in BlockIndex /\ target # None
  BY Constants DEF Owed, Awaits, TypeInv, ReaderTyped, Looking
<1>4. Cached(target)' = Cached(target) /\ NearEnd(cache, target, 0)' = NearEnd(cache, target, 0)
  BY <1>1 DEF Cached
<1>5. CASE Attempt \/ Transfer \/ Rebuffer \/ Pause
  <2>1. /\ UNCHANGED <<requested, block, then, ahead>>
        /\ wpc \in Downloading /\ wpc' \in Downloading
    BY <1>3, <1>5 DEF Attempt, Transfer, Rebuffer, Pause, Downloading
  <2>2. Demanded => Demanded'
    BY <1>1, <1>4, <2>1 DEF Demanded, Downloading
  <2>3. Fetched => Fetched'
    BY <1>1, <2>1 DEF Fetched
  <2>4. Arrived => Arrived'
    <3>1. Spared(1)' = Spared(1)
      BY <1>1, <2>1 DEF Spared
    <3> QED
      BY <1>4, <2>1, <3>1 DEF Arrived, Downloading
  <2> QED
    BY <1>3, <2>2, <2>3, <2>4
<1>6. CASE Discover \/ Index
  <2>1. requested' = requested /\ wpc \in {"discover", "index"}
    BY <1>6 DEF Discover, Index
  <2>2. Demanded /\ ~Cached(target)
    BY <1>3, <2>1 DEF Demanded, Fetched, Arrived, Downloading
  <2> QED
    BY <1>1, <1>4, <2>1, <2>2 DEF Demanded
<1>7. CASE Indexed \/ Loop
  <2>1. /\ wpc \in {"indexed", "top"} /\ wpc' \in {"top", "wait"} /\ (wpc = "indexed" => wpc' = "top")
        /\ requested # None => requested' = requested
        /\ wpc = "top" => requested' = requested
    BY <1>3, <1>7 DEF Indexed, Loop
  <2>2. Demanded => Demanded'
    BY <1>1, <1>3, <1>4, <2>1 DEF Demanded
  <2>3. ~Fetched
    BY <2>1 DEF Fetched, Downloading
  <2>4. Arrived => Arrived'
    BY <1>4, <2>1 DEF Arrived, Downloading
  <2> QED
    BY <1>3, <2>2, <2>3, <2>4
<1>8. CASE Await \/ Sleep
  <2>1. requested' = requested /\ requested = None /\ wpc \in {"wait", "checked"} /\ wpc' \in {"checked", "blocked"}
    BY <1>8 DEF Await, Sleep, HasWork, Told
  <2>2. Arrived
    BY <1>3, <2>1 DEF Demanded, Fetched, Downloading
  <2> QED
    BY <1>4, <2>1, <2>2 DEF Arrived, Downloading
<1>9. CASE TakeRequest
  <2>1. Demanded
    BY <1>3, <1>9 DEF TakeRequest, HasWork, Fetched, Arrived, Downloading
  <2>2. requested' = None /\ requested = target
    BY <1>3, <1>9, <2>1 DEF TakeRequest, Demanded
  <2>3. CASE Cached(target)
    <3>1. block' = target /\ wpc' = "after" /\ NearEnd(cache, target, 0)
      BY <1>3, <1>9, <2>1, <2>2, <2>3 DEF TakeRequest, Demanded
    <3> QED
      BY <1>1, <1>4, <2>2, <2>3, <3>1 DEF Arrived, Downloading
  <2>4. CASE ~Cached(target)
    <3>1. block' = target /\ wpc' = "attempt" /\ then' = "after"
      BY <1>3, <1>9, <2>2, <2>4 DEF TakeRequest, Start
    <3> QED
      BY <1>1, <2>2, <3>1 DEF Fetched, Downloading
  <2> QED
    BY <2>3, <2>4
<1>10. CASE PlanAhead
  <2>1. wpc = "after" /\ wpc' = "ahead" /\ requested' = requested /\ ahead' = AheadOf(block)
    BY <1>10 DEF PlanAhead
  <2>2. Demanded => Demanded'
    BY <1>1, <1>4, <2>1 DEF Demanded
  <2>3. ~Fetched
    BY <2>1 DEF Fetched, Downloading
  <2>4. ASSUME Arrived PROVE Arrived'
    <3>1. block = target /\ NearEnd(cache, target, 0) /\ Cached(target) /\ requested = None
      BY <2>1, <2>4 DEF Arrived
    <3>2. Cardinality(ahead' \ {target}) < Budget /\ IsFiniteSet(ahead')
      BY <1>3, <2>1, <3>1, PlanFits DEF TypeInv, StreamTyped
    <3>3. Cardinality(ahead' \ {target}) \in Nat
      BY <3>2, FS_RemoveElement, FS_CardinalityType
    <3>4. 0 + 0 + Cardinality(ahead' \ {target}) < Budget /\ 0 \in Nat
      BY <3>2, <3>3
    <3>5. Spared(0)'
      BY <1>1, <3>1, <3>4 DEF Spared
    <3> QED
      BY <1>4, <2>1, <3>1, <3>5 DEF Arrived, Downloading
  <2> QED
    BY <1>3, <2>2, <2>3, <2>4
<1>11. CASE FetchAhead
  <2>1. wpc = "ahead" /\ requested' = requested /\ wpc' \in {"top", "ahead", "attempt"}
    BY <1>11 DEF FetchAhead, Start
  <2>2. ASSUME Demanded PROVE Demanded'
    <3>1. wpc' = "top"
      BY <1>3, <1>11, <2>2 DEF FetchAhead, Superseded, Demanded
    <3> QED
      BY <1>1, <1>4, <2>1, <2>2, <3>1 DEF Demanded
  <2>3. ~Fetched
    BY <2>1 DEF Fetched, Downloading
  <2>4. ASSUME Arrived PROVE Arrived'
    <3>0. Cached(target) /\ requested = None /\ Spared(0)
      BY <2>1, <2>4 DEF Arrived
    <3>1. CASE wpc' = "top"
      BY <1>4, <2>1, <3>0, <3>1 DEF Arrived, Downloading
    <3>2. CASE wpc' # "top"
      <4>1. PICK b \in ahead : /\ ahead' = ahead \ {b}
                               /\ IF Cached(b) THEN UNCHANGED <<wpc, block, then, tries>> ELSE Start(b, "ahead")
        BY <1>11, <3>2 DEF FetchAhead
      <4>2. PICK n \in Nat : NearEnd(cache, target, n) /\ n + 0 + Cardinality(ahead \ {target}) < Budget
        BY <3>0 DEF Spared
      <4>3. IsFiniteSet(ahead)
        <5>1. ahead \subseteq 0 .. LastBlock /\ IsFiniteSet(0 .. LastBlock)
          BY Constants, FS_Interval DEF TypeInv, WorkerTyped, BlockIndex
        <5> QED
          BY <5>1, FS_Subset
      <4> DEFINE rest == ahead \ {target}
                 less == (ahead \ {b}) \ {target}
      <4>4. IsFiniteSet(rest) /\ Cardinality(rest) \in Nat
        BY <4>3, FS_RemoveElement, FS_CardinalityType
      <4>5. less = rest \ {b}
        OBVIOUS
      <4>6. IsFiniteSet(less) /\ Cardinality(less) = IF b \in rest THEN Cardinality(rest) - 1 ELSE Cardinality(rest)
        BY <4>4, <4>5, FS_RemoveElement
      <4>7. CASE Cached(b)
        <5>1. n + 0 + Cardinality(less) < Budget
          BY <4>2, <4>4, <4>6, Constants
        <5>2. Spared(0)' /\ wpc' = "ahead"
          BY <1>1, <2>1, <4>1, <4>2, <4>7, <5>1 DEF Spared
        <5> QED
          BY <1>4, <2>1, <3>0, <5>2 DEF Arrived, Downloading
      <4>8. CASE ~Cached(b)
        <5>1. b \in rest
          BY <3>0, <4>8
        <5>2. n + 1 + Cardinality(less) < Budget
          BY <4>2, <4>4, <4>6, <5>1, Constants
        <5>3. Spared(1)' /\ wpc' = "attempt" /\ then' = "ahead"
          BY <1>1, <4>1, <4>2, <4>8, <5>2 DEF Spared, Start
        <5> QED
          BY <1>4, <2>1, <3>0, <5>3 DEF Arrived, Downloading
      <4> QED
        BY <4>7, <4>8
    <3> QED
      BY <3>1, <3>2
  <2> QED
    BY <1>3, <2>2, <2>3, <2>4
<1> QED
  BY <1>5, <1>6, <1>7, <1>8, <1>9, <1>10, <1>11 DEF Worker, Download

\* A block arrives: the target, or one that leaves it its place.
LEMMA InsertOwes ==
  ASSUME TypeInv, Opened, Owed, Insert
  PROVE  Owed'
<1>1. /\ UNCHANGED <<requested, target, block, then, ahead, error, stopped, cancelled>>
      /\ wpc = "insert" /\ wpc' = then /\ rpc' = NotifiedReader /\ ready' = TRUE
  BY DEF Insert, flags
<1> SUFFICES ASSUME Awaits' PROVE (Demanded \/ Fetched \/ Arrived)'
  BY DEF Owed
<1>2. Awaits /\ then \in {"indexed", "after", "ahead"}
  <2>1. rpc # "idle" /\ Awaits
    BY <1>1 DEF Awaits, NotifiedReader
  <2> QED
    BY <1>1, <2>1 DEF Opened, Downloading, TypeInv, WorkerTyped, Outcome
<1>3. Demanded \/ Fetched \/ Arrived
  BY <1>2 DEF Owed
<1>4. /\ Cached(target)' => Cached(target) \/ target = block
      /\ NearEnd(cache', block, 0)
      /\ \A n : n \in Nat /\ n + 1 < Budget /\ NearEnd(cache, target, n) => NearEnd(cache', target, n + 1)
  BY <1>1, InsertServes
<1>5. Cardinality(ahead \ {target}) \in Nat /\ Budget \in Nat
  <2>1. ahead \subseteq 0 .. LastBlock /\ IsFiniteSet(0 .. LastBlock)
    BY Constants, FS_Interval DEF TypeInv, WorkerTyped, BlockIndex
  <2>2. IsFiniteSet(ahead)
    BY <2>1, FS_Subset
  <2> QED
    BY <2>2, FS_RemoveElement, FS_CardinalityType, Constants
<1>6. CASE Demanded
  <2>1. ~Cached(target)
    BY <1>1, <1>6 DEF Demanded
  <2>2. Cached(target)' => NearEnd(cache', target, 0)
    BY <1>4, <2>1
  <2> QED
    BY <1>1, <1>2, <1>6, <2>2 DEF Demanded
<1>7. CASE Fetched
  <2>1. NearEnd(cache', target, 0) /\ wpc' = "after" /\ block' = target'
    BY <1>1, <1>4, <1>7 DEF Fetched
  <2>2. Cached(target)'
    BY <1>1, <2>1 DEF NearEnd, Cached
  <2> QED
    BY <1>1, <1>7, <2>1, <2>2 DEF Fetched, Arrived, Downloading
<1>8. CASE Arrived
  <2>1. then = "ahead" /\ requested = None
    BY <1>1, <1>8 DEF Arrived, Downloading
  <2>2. PICK n \in Nat : NearEnd(cache, target, n) /\ n + 1 + Cardinality(ahead \ {target}) < Budget
    BY <1>1, <1>8 DEF Arrived, Downloading, Spared
  <2>3. n + 1 \in Nat /\ n + 1 < Budget /\ (n + 1) + 0 + Cardinality(ahead \ {target}) < Budget
    BY <1>5, <2>2
  <2>4. NearEnd(cache', target, n + 1)
    BY <1>4, <2>2, <2>3
  <2>5. Spared(0)'
    BY <1>1, <2>3, <2>4 DEF Spared
  <2>6. Cached(target)'
    BY <1>1, <2>4 DEF NearEnd, Cached
  <2> QED
    BY <1>1, <2>1, <2>5, <2>6 DEF Arrived, Downloading
<1> QED
  BY <1>3, <1>6, <1>7, <1>8

\* The reader, and the calls of other threads.
LEMMA OthersOwe ==
  ASSUME TypeInv, Owed, SourceNext, ~Worker
  PROVE  Owed'
<1>1. CASE ReadLookup
  <2> SUFFICES ASSUME Awaits' PROVE Demanded'
    BY DEF Owed
  <2>1. ~Cached(target)
    BY <1>1 DEF ReadLookup, Awaits
  <2>2. UNCHANGED <<cache, target>> /\ requested' = target
    BY <1>1, <2>1 DEF ReadLookup, ReadReturn, Awaits
  <2> QED
    BY <2>1, <2>2 DEF Demanded, Cached
<1>2. CASE ReadTest \/ ReadBlock \/ (\E n \in 1 .. MaxRead : ReadEnter(n))
  <2>1. ~Awaits'
    BY <1>2 DEF ReadTest, ReadBlock, ReadEnter, ReadReturn, Awaits
  <2> QED
    BY <2>1 DEF Owed
<1>3. CASE ReadSleep \/ ReadWait
  <2>1. CASE Awaits'
    <3>1. UNCHANGED <<cache, requested, target, block, then, ahead, wpc>> /\ Awaits
      BY <1>3, <2>1 DEF ReadSleep, ReadWait, ReadReturn, Awaits, streamVars, flags, workerVars
    <3> QED
      BY <3>1, OwedKept
  <2>2. CASE ~Awaits'
    BY <2>2 DEF Owed
  <2> QED
    BY <2>1, <2>2
<1>4. CASE (\E b \in 0 .. LastBlock + 1 : SeekTo(b)) \/ EnablePrefetch \/ CancelFlag \/ CancelNotify
  <2>1. UNCHANGED <<cache, requested, error, stopped, target, block, then, ahead>>
    BY <1>4 DEF SeekTo, EnablePrefetch, CancelFlag, CancelNotify, streamVars, flags, workerVars, readerVars
  <2>2. (rpc' = rpc \/ rpc' = NotifiedReader) /\ (wpc' = wpc \/ wpc' = NotifiedWorker) /\ (cancelled => cancelled')
    BY <1>4 DEF SeekTo, EnablePrefetch, CancelFlag, CancelNotify, flags, workerVars, readerVars
  <2>3. Awaits' => Awaits
    BY <2>1, <2>2 DEF Awaits, NotifiedReader
  <2> QED
    BY <2>1, <2>2, <2>3, OwedKept
<1> QED
  BY <1>1, <1>2, <1>3, <1>4 DEF SourceNext, Reading

\* Every step keeps the invariant.
LEMMA SleepStep == RoomAhead /\ SleepInv /\ [SourceNext]_sourceVars => SleepInv'
<1> SUFFICES ASSUME RoomAhead, SleepInv, [SourceNext]_sourceVars PROVE SleepInv'
  OBVIOUS
<1>1. CASE SourceNext
  <2>1. CASE Insert
    BY <1>1, <2>1, TypeStep, OpenedStep, ToldStep, InsertOwes DEF SleepInv
  <2>2. CASE Worker /\ ~Insert
    BY <1>1, <2>2, TypeStep, OpenedStep, ToldStep, WorkerOwes DEF SleepInv
  <2>3. CASE ~Worker
    BY <1>1, <2>3, TypeStep, OpenedStep, ToldStep, OthersOwe DEF SleepInv
  <2> QED
    BY <2>1, <2>2, <2>3
<1>2. CASE UNCHANGED sourceVars
  <2>1. TypeInv'
    BY TypeStep DEF SleepInv
  <2>2. UNCHANGED <<cache, requested, ready, error, cancelled, stopped, xpc, wpc, block, then, ahead, rpc, target>>
    BY <1>2 DEF sourceVars, streamVars, flags, workerVars, readerVars
  <2>3. Opened' /\ Told'
    BY <2>2 DEF SleepInv, Opened, Told, Cached
  <2>4. Awaits' = Awaits
    BY <2>2 DEF Awaits
  <2>5. Owed'
    BY <2>2, <2>4, OwedKept DEF SleepInv
  <2> QED
    BY <2>1, <2>3, <2>5 DEF SleepInv
<1> QED
  BY <1>1, <1>2

\* If the blocks fetched ahead of a block leave room for the block (RoomAhead: without it
\* the demanded block may be evicted under a sleeping reader), no wake-up is lost and no
\* demand forgotten: read() sleeps only while its block is missing and demanded or on
\* its way, and the worker only while nothing is demanded, whatever the file, the cache,
\* the failures and the retries, and wherever the source is cancelled.
THEOREM SleepersAreServed == RoomAhead => (SourceSpec => []NeverAsleepInVain)
<1>1. SleepInv => NeverAsleepInVain
  BY DEF SleepInv, Told, Owed, Awaits, Demanded, Fetched, Arrived, NeverAsleepInVain
<1>2. ASSUME RoomAhead PROVE SourceSpec => []NeverAsleepInVain
  <2>1. SleepInv /\ [SourceNext]_sourceVars => SleepInv'
    BY <1>2, SleepStep
  <2> QED
    BY <1>1, <2>1, SleepInit, PTL DEF SourceSpec
<1> QED
  BY <1>2

================================================================================
