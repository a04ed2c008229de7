---------------------------- MODULE AdaptivePolicy ----------------------------
(***************************************************************************)
(* AdaptivePolicy: which representation to prepare next, and when.  It has *)
(* no thread and no clock: its host calls it with what it observed.  The   *)
(* part of the coordinator that its decisions act on, the one pending      *)
(* switch, is here too (AdaptiveCoordinator models that one in detail).    *)
(*                                                                         *)
(* The three times that the policy remembers are kept as ages, and the     *)
(* host lets them grow (Elapse), so that no clock is needed.               *)
(***************************************************************************)
EXTENDS Integers, Sequences

CONSTANTS
  Bandwidth,       \* bandwidth of each representation, lowest first
  Duration, Segment,
  Lead,            \* kPreparationSegments
  DowngradeDwell, UpgradeDwell,
  FirstBackoff, LastBackoff

ASSUME PolicyAssumption ==
  /\ Bandwidth \in Seq(Nat) /\ Len(Bandwidth) >= 2
  /\ \A i \in 1 .. Len(Bandwidth) - 1 : Bandwidth[i] < Bandwidth[i + 1]
  /\ Duration \in Nat \ {0} /\ Segment \in Nat \ {0} /\ Lead \in Nat
  /\ DowngradeDwell \in Nat /\ UpgradeDwell \in Nat
  /\ FirstBackoff \in Nat \ {0} /\ LastBackoff >= FirstBackoff

Off == 0 - 1                 \* a timer that does not run
Least(a, b) == IF a < b THEN a ELSE b
Backoff(n) == Least(LastBackoff, FirstBackoff * 2 ^ Least(n - 1, 3))

\* The policy: smoothed throughput, the two timers, what is left of the backoff.
NewPolicy == [rate |-> 0, sampled |-> FALSE, down |-> Off, up |-> Off, retry |-> 0, failures |-> 0]

Aged(timer, dwell) == IF timer = Off THEN Off ELSE Least(timer + 1, dwell)
Elapse(p) ==
  [p EXCEPT !.down = Aged(@, DowngradeDwell), !.up = Aged(@, UpgradeDwell),
            !.retry = IF @ > 0 THEN @ - 1 ELSE 0]

TimersOff(p) == [p EXCEPT !.down = Off, !.up = Off]

\* What the host observes: time, Ready or not, throughput of transfers that ended
\* (0 if none did) and of what was downloaded, the coordinator's switch.

Observe(p, o) ==
  LET now == [p EXCEPT !.rate = IF o.transfer > 0 THEN o.transfer ELSE @, !.sampled = TRUE]
  IN IF ~p.sampled \/ o.transfer > 0 \/ o.downloaded = 0 THEN now
     ELSE [now EXCEPT !.rate = IF p.rate = 0 THEN o.downloaded ELSE (3 * p.rate + o.downloaded) \div 4]

Stay(p) == [policy |-> p, action |-> "Stay"]
RetryLater(p) == [policy |-> p, action |-> "RetryLater"]

Boundary(time) == ((time + Lead * Segment + Segment - 1) \div Segment) * Segment

SwitchTo(p, target, time, ignoreBackoff) ==
  IF ~ignoreBackoff /\ p.retry > 0 THEN RetryLater(p)
  ELSE IF Boundary(time) >= Duration THEN Stay(p)
  ELSE [policy |-> TimersOff(p), action |-> "Switch", target |-> target, boundary |-> Boundary(time)]

Insufficient(p, o) ==
  o.active > 1 /\ (o.rebuffering \/ (p.rate > 0 /\ 5 * p.rate < 6 * Bandwidth[o.active]))
Headroom(p, o) ==
  o.active < Len(Bandwidth) /\ o.ready /\ 4 * p.rate >= 7 * Bandwidth[o.active + 1]

WithDowngrade(p, o) ==
  LET since == IF p.down = Off THEN 0 ELSE p.down
      q == [p EXCEPT !.down = since]
  IN IF o.rebuffering \/ since >= DowngradeDwell THEN SwitchTo(q, o.active - 1, o.time, FALSE) ELSE Stay(q)

WithUpgrade(p, o) ==
  LET since == IF p.up = Off THEN 0 ELSE p.up
      q == [p EXCEPT !.down = Off, !.up = since]
  IN IF since >= UpgradeDwell THEN SwitchTo(q, o.active + 1, o.time, FALSE) ELSE Stay(q)

\* Not the code: throughput that recovers does not stop the downgrade timer.
DecideForgetful(p, o) ==
  IF Insufficient(p, o) THEN WithDowngrade(p, o)
  ELSE IF Headroom(p, o) THEN WithUpgrade(p, o)
  ELSE Stay([p EXCEPT !.up = Off])

Decide(p, o) ==
  IF Insufficient(p, o) THEN WithDowngrade(p, o)
  ELSE IF Headroom(p, o) THEN WithUpgrade(p, o)
  ELSE Stay([p EXCEPT !.down = Off, !.up = IF o.active < Len(Bandwidth) THEN Off ELSE @])

\* update().  A switch that was committed clears the past; one that failed is
\* counted, and the host is told to cancel it.
AfterCommit(p, o) ==
  IF o.committed THEN [TimersOff(p) EXCEPT !.retry = 0, !.failures = 0, !.sampled = TRUE] ELSE p

AfterFailure(p) ==
  [TimersOff(p) EXCEPT !.failures = Least(@ + 1, 4), !.retry = Backoff(p.failures + 1)]

\* A commit starts the sample of the throughput anew.
Observed(p, o) ==
  Observe(AfterCommit(p, o), IF o.committed THEN [o EXCEPT !.downloaded = 0] ELSE o)

UpdatePolicy(p, o) ==
  LET q == AfterCommit(p, o)
      r == Observed(p, o)
  IN IF o.state = "Failed" THEN [policy |-> AfterFailure(q), action |-> "Cancel"]
     ELSE IF o.state # "Stable" THEN Stay(q)
     ELSE IF q.retry > 0 THEN RetryLater(r)
     ELSE Decide(r, o)

\* request(): a developer's choice, whatever the backoff and the pending switch.
Request(p, target, o) == IF target = o.active THEN Stay(p) ELSE SwitchTo(p, target, o.time, TRUE)

-----------------------------------------------------------------------------
(* The switch of the coordinator.                                          *)

NewSwitch == [state |-> "Stable", active |-> 1, target |-> 1, boundary |-> 0, committed |-> FALSE]
CancelPending(s) == [s EXCEPT !.state = "Stable", !.target = s.active, !.boundary = 0]
RequestSwitch(s, target, boundary) ==
  [s EXCEPT !.state = "Preparing", !.target = target, !.boundary = boundary]
Commit(s) ==
  [s EXCEPT !.state = "Stable", !.active = s.target, !.boundary = 0, !.committed = TRUE]
Miss(s) == [s EXCEPT !.state = "Failed"]
=============================================================================
