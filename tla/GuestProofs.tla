----------------------------- MODULE GuestProofs -----------------------------
(***************************************************************************)
(* What a running cartridge is promised for every cartridge, period, cost  *)
(* and sample: the pacing of its frames, the place of its tracks, and the   *)
(* order, times and statistics of its suite.                                *)
(***************************************************************************)
EXTENDS Guest, FiniteSetTheorems, WellFoundedInduction, TLAPS

(* What the pacing rests on: the virtual clock, the deadline and the history *)
(* of the pacing are numbers.                                                *)
PacedTypes ==
    /\ cycles \in Nat /\ deadline \in Nat
    /\ paced \in [from : Nat, frames : Nat]

(* One more frame is one more period. *)
LEMMA NextPeriod ==
    ASSUME NEW n \in Nat, NEW p \in Nat
    PROVE  n * p \in Nat /\ (n + 1) * p = n * p + p
OBVIOUS

(* The clock's own steps keep the frames paced. *)
LEMMA PacedStep ==
    ASSUME PacedTypes, FramesPaced, ClockStep \/ TrackCall \/ UNCHANGED clockVars
    PROVE  PacedTypes' /\ FramesPaced'
<1> USE ClockAssumption DEF PacedTypes, FramesPaced
<1>1. ASSUME NEW c \in Carts, Load(c)
      PROVE  PacedTypes' /\ FramesPaced'
  BY <1>1 DEF Load
<1>2. CASE Stop \/ Pause \/ WallPasses \/ FrameBegins \/ DebugFrameBegins
  BY <1>2 DEF Stop, Pause, WallPasses, FrameBegins, DebugFrameBegins
<1>3. ASSUME NEW md \in {"accurate", "optimal"}, SetPerformanceMode(md)
      PROVE  PacedTypes' /\ FramesPaced'
  BY <1>3 DEF SetPerformanceMode
<1>4. ASSUME NEW n \in Costs, Execute(n)
      PROVE  PacedTypes' /\ FramesPaced'
  BY <1>4 DEF Execute
<1>5. CASE InitReturns \/ FrameTraps
  BY <1>5 DEF InitReturns, FrameTraps, CallReturns
<1>6. CASE FrameEnds
  <2>1. CASE mode = "accurate"
    <3>1. /\ cycles' = AdvanceTo(cycles, deadline)
          /\ deadline' = deadline + Period
          /\ paced' = [paced EXCEPT !.frames = @ + 1]
          /\ mode' = mode
      BY <1>6, <2>1 DEF FrameEnds, PaceFrame, CallReturns
    <3>2. (paced.frames + 1) * Period = paced.frames * Period + Period
          /\ paced.frames * Period \in Nat
      BY NextPeriod
    <3>3. cycles' \in Nat /\ cycles' >= deadline
      BY <3>1 DEF AdvanceTo
    <3>4. paced'.from = paced.from /\ paced'.frames = paced.frames + 1
          /\ paced' \in [from : Nat, frames : Nat]
      BY <3>1
    <3>5. deadline' = paced'.from + paced'.frames * Period
      BY <2>1, <3>1, <3>2, <3>4
    <3>6. QED  BY <3>1, <3>3, <3>4, <3>5
  <2>2. CASE mode # "accurate"
    BY <1>6, <2>2 DEF FrameEnds, CallReturns
  <2>3. QED  BY <2>1, <2>2
<1>7. CASE TrackCall
  BY <1>7 DEF TrackCall, PlayTrack, StopTrack, SetTempo
<1>8. CASE UNCHANGED clockVars
  BY <1>8 DEF clockVars
<1>9. QED  BY <1>1, <1>2, <1>3, <1>4, <1>5, <1>6, <1>7, <1>8 DEF ClockStep

(* Every step of a cartridge is one of those, for the clock. *)
LEMMA ClockSteps ==
    ASSUME [Next]_vars
    PROVE  ClockStep \/ TrackCall \/ UNCHANGED clockVars
BY DEF Next, vars, Loads, HostStep, CallsTrack, CallsBroker, ClockStep

(* Frames, whole or debug-stepped, take at least their periods and the       *)
(* deadline is that of the next one, for every cartridge, cost and period,   *)
(* and through loads and changes of the mode.                                *)
THEOREM FramesArePaced == Spec => []FramesPaced
<1>1. Init => PacedTypes /\ FramesPaced
  BY ClockAssumption DEF Init, ClockInit, PacedTypes, FramesPaced
<1>2. PacedTypes /\ FramesPaced /\ [Next]_vars => PacedTypes' /\ FramesPaced'
  BY PacedStep, ClockSteps
<1>3. QED  BY <1>1, <1>2, PTL DEF Spec
-----------------------------------------------------------------------------
(* The performance broker. *)

(* A suite is a record of a list of cases, and a case one of samples.        *)
CaseShape(c) ==
    /\ {"samples", "total", "missed", "frames"} \subseteq DOMAIN c
    /\ c.samples \in Seq(Nat)
PerfShape ==
    /\ {"state", "sequence", "cases", "started", "ended"} \subseteq DOMAIN perf
    /\ \E S : perf.cases \in Seq(S)
    /\ \A k \in 1 .. Len(perf.cases) : CaseShape(perf.cases[k])

(* The calls keep that shape and one open case, the last one. *)
LEMMA BrokerStep ==
    ASSUME PerfShape, OneCaseOpen, NEW now, BrokerCall(now)
    PROVE  PerfShape' /\ OneCaseOpen'
<1> USE BrokerAssumption DEF PerfShape, OneCaseOpen
<1> PICK S : perf.cases \in Seq(S)
  OBVIOUS
<1> DEFINE n == Len(perf.cases)
<1>1. n \in Nat /\ DOMAIN perf.cases = 1 .. n
  OBVIOUS
<1>2. CASE SuiteBegin(now)
  <2>1. perf'.cases = <<>> /\ active' = 0
        /\ {"state", "sequence", "cases", "started", "ended"} \subseteq DOMAIN perf'
    BY <1>2 DEF SuiteBegin, NoPerf
  <2>2. <<>> \in Seq(S) /\ Len(<<>>) = 0
    OBVIOUS
  <2>3. QED  BY <2>1, <2>2
<1>3. ASSUME NEW cap \in 1 .. MaxFrames, CaseBegin(cap)
      PROVE  PerfShape' /\ OneCaseOpen'
  <2>1. /\ perf' = [perf EXCEPT !.cases = Append(perf.cases, NewCase(cap))]
        /\ active' = n + 1 /\ perf.state = 1 /\ active = 0
    BY <1>3 DEF CaseBegin
  <2>2. /\ perf'.cases = Append(perf.cases, NewCase(cap)) /\ perf'.state = 1
        /\ DOMAIN perf' = DOMAIN perf
    BY <2>1
  <2>3. perf.cases \in Seq(S \cup {NewCase(cap)})
    OBVIOUS
  <2>4. /\ perf'.cases \in Seq(S \cup {NewCase(cap)}) /\ Len(perf'.cases) = n + 1
        /\ \A k \in 1 .. n : perf'.cases[k] = perf.cases[k]
        /\ perf'.cases[n + 1] = NewCase(cap)
    BY <2>2, <2>3, <1>1
  <2>5. CaseShape(NewCase(cap))
    BY DEF NewCase, CaseShape
  <2>6. DOMAIN perf'.cases = 1 .. n + 1
    BY <2>4
  <2>7. PerfShape'
    BY <2>2, <2>4, <2>5
  <2>8. OneCaseOpen'
    BY <2>1, <2>2, <2>4, <2>6, <1>1
  <2>9. QED  BY <2>7, <2>8
<1>4. ASSUME NEW total \in SampleTotals, Sample(total)
      PROVE  PerfShape' /\ OneCaseOpen'
  <2> DEFINE c == perf.cases[active]
             d == WithSample(c, total)
  <2>1. active # 0 /\ active = n /\ perf.state = 1 /\ active' = active /\ n # 0 /\ n \in 1 .. n
    BY <1>4, <1>1 DEF Sample
  <2>2. perf' = [perf EXCEPT !.cases = [perf.cases EXCEPT ![active] = d]]
    BY <1>4 DEF Sample
  <2>3. /\ perf'.cases = [perf.cases EXCEPT ![n] = d] /\ perf'.state = 1
        /\ DOMAIN perf' = DOMAIN perf
    BY <2>1, <2>2
  <2>4. perf.cases \in Seq(S \cup {d})
    OBVIOUS
  <2> HIDE DEF d
  <2>5. /\ perf'.cases \in Seq(S \cup {d}) /\ Len(perf'.cases) = n /\ perf'.cases[n] = d
        /\ \A k \in 1 .. n : k # n => perf'.cases[k] = perf.cases[k]
    BY <2>1, <2>3, <2>4, <1>1
  <2>6. CaseShape(c)
    BY <2>1
  <2>7. CaseShape(d)
    BY <2>6 DEF d, CaseShape, WithSample
  <2>8. DOMAIN perf'.cases = 1 .. n
    BY <2>5
  <2>9. PerfShape'
    BY <2>3, <2>5, <2>7
  <2>10. OneCaseOpen'
    BY <2>1, <2>3, <2>5, <2>8, <1>1
  <2>11. QED  BY <2>9, <2>10
<1>5. CASE CaseEnd
  <2> DEFINE c == perf.cases[active]
             d == Finished(c, FirstFrame(perf.cases, active))
  <2>1. active # 0 /\ active = n /\ perf.state = 1 /\ active' = 0 /\ n # 0 /\ n \in 1 .. n
    BY <1>5, <1>1 DEF CaseEnd
  <2>2. CASE c.samples = <<>>
    <3> DEFINE f == Front(perf.cases)
    <3>1. perf' = [perf EXCEPT !.cases = f]
      BY <1>5, <2>2 DEF CaseEnd
    <3>2. f \in Seq(S) /\ Len(f) = n - 1 /\ \A k \in 1 .. n - 1 : f[k] = perf.cases[k]
      <4>1. f = SubSeq(perf.cases, 1, n - 1)
        BY DEF Front
      <4>2. f = [k \in 1 .. n - 1 |-> perf.cases[k]]
        BY <4>1, <2>1, <1>1
      <4>3. QED  BY <4>2, <2>1, <1>1
    <3> HIDE DEF f
    <3>3. /\ perf'.cases = f /\ perf'.state = 1 /\ DOMAIN perf' = DOMAIN perf
      BY <2>1, <3>1
    <3>4. DOMAIN perf'.cases = 1 .. n - 1
      BY <3>2, <3>3
    <3>5. PerfShape'
      BY <2>1, <3>2, <3>3
    <3>6. OneCaseOpen'
      BY <2>1, <3>2, <3>3, <3>4, <1>1
    <3>7. QED  BY <3>5, <3>6
  <2>3. CASE c.samples # <<>>
    <3>1. perf' = [perf EXCEPT !.cases = [perf.cases EXCEPT ![active] = d]]
      BY <1>5, <2>3 DEF CaseEnd
    <3>2. CaseShape(c)
      BY <2>1
    <3>3. CaseShape(d) /\ d.samples = <<>> /\ d.frames > 0
      <4>1. DOMAIN d = DOMAIN c /\ d.samples = <<>> /\ d.frames = Len(c.samples)
        BY <3>2 DEF Finished, CaseShape
      <4>2. Len(c.samples) > 0
        BY <3>2, <2>3 DEF CaseShape
      <4>3. QED  BY <3>2, <4>1, <4>2 DEF CaseShape
    <3> HIDE DEF d
    <3>4. /\ perf'.cases = [perf.cases EXCEPT ![n] = d] /\ perf'.state = 1
          /\ DOMAIN perf' = DOMAIN perf
      BY <2>1, <3>1
    <3>5. perf.cases \in Seq(S \cup {d})
      OBVIOUS
    <3>6. /\ perf'.cases \in Seq(S \cup {d}) /\ Len(perf'.cases) = n /\ perf'.cases[n] = d
          /\ \A k \in 1 .. n : k # n => perf'.cases[k] = perf.cases[k]
      BY <2>1, <3>4, <3>5, <1>1
    <3>7. DOMAIN perf'.cases = 1 .. n
      BY <3>6
    <3>8. PerfShape'
      BY <3>3, <3>4, <3>6
    <3>9. OneCaseOpen'
      BY <2>1, <3>3, <3>4, <3>6, <3>7, <1>1
    <3>10. QED  BY <3>8, <3>9
  <2>4. QED  BY <2>2, <2>3
<1>6. CASE SuiteEnd(now)
  BY <1>6, <1>1 DEF SuiteEnd
<1>7. CASE SuiteAbort(now)
  BY <1>7, <1>1 DEF SuiteAbort
<1>8. QED  BY <1>2, <1>3, <1>4, <1>5, <1>6, <1>7 DEF BrokerCall

(* Every step leaves the suite alone, forgets it, or is one call of it. *)
LEMMA SuiteStep ==
    ASSUME PerfShape, OneCaseOpen, [Next]_vars
    PROVE  PerfShape' /\ OneCaseOpen'
<1>1. CASE UNCHANGED brokerVars
  BY <1>1 DEF brokerVars, PerfShape, OneCaseOpen
<1>2. CASE BrokerReset
  <2>1. perf' = NoPerf /\ active' = 0
    BY <1>2 DEF BrokerReset
  <2>2. /\ {"state", "sequence", "cases", "started", "ended"} \subseteq DOMAIN NoPerf
        /\ NoPerf.cases \in Seq(Nat) /\ Len(NoPerf.cases) = 0
    BY DEF NoPerf
  <2>3. QED  BY <2>1, <2>2 DEF PerfShape, OneCaseOpen
<1>3. CASE CallsBroker
  BY <1>3, BrokerStep DEF CallsBroker
<1>4. QED  BY <1>1, <1>2, <1>3 DEF Next, vars, Loads, HostStep, CallsTrack

(* Whatever order a cartridge calls the broker in, one case is open at a     *)
(* time, and it is the last of a running suite.                              *)
THEOREM CasesAreOrdered == Spec => []OneCaseOpen
<1>1. Init => PerfShape /\ OneCaseOpen
  <2> SUFFICES ASSUME Init
               PROVE  PerfShape /\ OneCaseOpen
    OBVIOUS
  <2>1. perf = NoPerf /\ active = 0
    BY DEF Init, BrokerInit
  <2>2. /\ {"state", "sequence", "cases", "started", "ended"} \subseteq DOMAIN NoPerf
        /\ NoPerf.cases \in Seq(Nat) /\ Len(NoPerf.cases) = 0
    BY DEF NoPerf
  <2>3. QED  BY <2>1, <2>2 DEF PerfShape, OneCaseOpen
<1>2. PerfShape /\ OneCaseOpen /\ [Next]_vars => PerfShape' /\ OneCaseOpen'
  BY SuiteStep
<1>3. QED  BY <1>1, <1>2, PTL DEF Spec
-----------------------------------------------------------------------------
(* The times of a suite. *)

(* A suite that runs has begun at a time that is past, and one that is over  *)
(* lasted no longer than the guest's clock, as long as it is the same clock. *)
TimeShape == /\ cycles \in Nat /\ wall \in Nat
             /\ {"state", "sequence", "cases", "started", "ended"} \subseteq DOMAIN perf
SuiteTimed ==
    steady => /\ perf.state = 1 => perf.started \in 0 .. Now
              /\ perf.state \in {2, 3} => perf.ended - perf.started \in 0 .. Now

(* The guest's time is a number. *)
LEMMA NowIsNat ==
    ASSUME NEW md, NEW c \in Nat, NEW w \in Nat
    PROVE  NowIn(md, c, w) \in Nat
BY ClockAssumption DEF NowIn

(* Of two instants of one clock the later is not less. *)
LEMMA NowGrows ==
    ASSUME NEW md, NEW c \in Nat, NEW w \in Nat, NEW d \in Nat, NEW v \in Nat, c <= d, w <= v
    PROVE  NowIn(md, c, w) <= NowIn(md, d, v)
<1>1. \A a, b \in Nat, k \in Nat \ {0} : a <= b => a \div k <= b \div k
  OBVIOUS
<1>2. QED  BY <1>1, ClockAssumption DEF NowIn

(* What is not a load moves neither clock back. *)
LEMMA Forward ==
    ASSUME cycles \in Nat, wall \in Nat, deadline \in Nat, (ClockStep /\ ~LoadsCartridge) \/ TrackCall
    PROVE  cycles' \in Nat /\ wall' \in Nat /\ cycles <= cycles' /\ wall <= wall'
<1> USE ClockAssumption
<1>1. ASSUME NEW c \in Carts, Load(c)
      PROVE  LoadsCartridge
  BY <1>1 DEF Load, LoadsCartridge
<1>2. CASE Stop \/ Pause \/ WallPasses \/ FrameBegins \/ DebugFrameBegins
  BY <1>2 DEF Stop, Pause, WallPasses, FrameBegins, DebugFrameBegins
<1>3. CASE \E md \in {"accurate", "optimal"} : SetPerformanceMode(md)
  BY <1>3 DEF SetPerformanceMode
<1>4. CASE \E n \in Costs : Execute(n)
  BY <1>4 DEF Execute
<1>5. CASE InitReturns \/ FrameTraps
  BY <1>5 DEF InitReturns, FrameTraps, CallReturns
<1>6. CASE FrameEnds
  <2>1. CASE mode = "accurate"
    BY <1>6, <2>1 DEF FrameEnds, PaceFrame, AdvanceTo, CallReturns
  <2>2. CASE mode # "accurate"
    BY <1>6, <2>2 DEF FrameEnds, CallReturns
  <2>3. QED  BY <2>1, <2>2
<1>7. CASE TrackCall
  <2>1. cycles' = cycles /\ wall' = wall
    BY <1>7 DEF TrackCall, PlayTrack, StopTrack, SetTempo
  <2>2. QED  BY <2>1
<1>8. QED  BY <1>1, <1>2, <1>3, <1>4, <1>5, <1>6, <1>7 DEF ClockStep

(* So no step but a load moves them back. *)
LEMMA ClocksGrow ==
    ASSUME TimeShape, PacedTypes, (ClockStep /\ ~LoadsCartridge) \/ TrackCall
    PROVE  cycles' \in Nat /\ wall' \in Nat /\ cycles <= cycles' /\ wall <= wall'
BY Forward DEF TimeShape, PacedTypes

(* The calls of the broker stamp a suite with the time of the clock. *)
LEMMA StampStep ==
    ASSUME TimeShape, SuiteTimed, CallsBroker
    PROVE  TimeShape' /\ SuiteTimed'
<1> DEFINE t == Now
<1>1. Now' = t /\ t \in Nat /\ cycles' = cycles /\ wall' = wall
  BY NowIsNat DEF CallsBroker, clockVars, Now, TimeShape
<1>2. steady' => steady \/ perf'.sequence # perf.sequence
  BY DEF CallsBroker
<1> HIDE DEF t
<1>3. BrokerCall(t)
  BY DEF CallsBroker, t
<1>4. steady => /\ perf.state = 1 => perf.started \in 0 .. t
                /\ perf.state \in {2, 3} => perf.ended - perf.started \in 0 .. t
  BY DEF SuiteTimed, t
<1>5. SUFFICES /\ {"state", "sequence", "cases", "started", "ended"} \subseteq DOMAIN perf'
               /\ steady' => /\ perf'.state = 1 => perf'.started \in 0 .. t
                             /\ perf'.state \in {2, 3} => perf'.ended - perf'.started \in 0 .. t
  BY <1>1 DEF TimeShape, SuiteTimed
<1> USE DEF TimeShape
<1>6. CASE SuiteBegin(t)
  BY <1>1, <1>6 DEF SuiteBegin, NoPerf
<1>7. CASE (\E cap \in 1 .. MaxFrames : CaseBegin(cap)) \/ CaseEnd
  BY <1>2, <1>4, <1>7 DEF CaseBegin, CaseEnd
<1>8. CASE \E total \in SampleTotals : Sample(total)
  BY <1>2, <1>4, <1>8 DEF Sample
<1>9. CASE SuiteEnd(t) \/ SuiteAbort(t)
  <2>1. /\ perf.state = 1 /\ perf'.state \in {2, 3} /\ perf'.ended = t
        /\ perf'.started = perf.started /\ perf'.sequence = perf.sequence
        /\ DOMAIN perf' = DOMAIN perf
    BY <1>9 DEF SuiteEnd, SuiteAbort
  <2>2. steady' => perf.started \in 0 .. t
    BY <1>2, <1>4, <2>1
  <2>3. steady' => t - perf.started \in 0 .. t
    BY <1>1, <2>2
  <2>4. QED  BY <2>1, <2>3
<1>10. QED  BY <1>3, <1>6, <1>7, <1>8, <1>9 DEF BrokerCall

(* Every step keeps the times, given the types of the clock. *)
LEMMA TimedStep ==
    ASSUME TimeShape, SuiteTimed, PacedTypes, [Next]_vars
    PROVE  TimeShape' /\ SuiteTimed'
<1> USE DEF TimeShape
<1>1. ASSUME NEW c \in Carts, Loads(c)
      PROVE  TimeShape' /\ SuiteTimed'
  BY <1>1 DEF Loads, Load, BrokerReset, NoPerf, SuiteTimed
<1>2. ASSUME UNCHANGED perf, steady' => steady /\ mode' = mode,
             cycles' \in Nat, wall' \in Nat, cycles <= cycles', wall <= wall'
      PROVE  TimeShape' /\ SuiteTimed'
  <2>1. steady' => Now <= Now'
    BY <1>2, NowGrows DEF Now
  <2>2. Now \in Nat /\ Now' \in Nat
    BY <1>2, NowIsNat DEF Now
  <2>3. QED  BY <1>2, <2>1, <2>2 DEF SuiteTimed
<1>3. CASE HostStep
  BY <1>2, <1>3, ClocksGrow DEF HostStep, brokerVars
<1>4. CASE CallsTrack
  <2>1. mode' = mode
    BY <1>4 DEF CallsTrack, TrackCall, PlayTrack, StopTrack, SetTempo
  <2>2. QED  BY <1>2, <1>4, <2>1, ClocksGrow DEF CallsTrack, brokerVars
<1>5. CASE CallsBroker
  BY <1>5, StampStep
<1>6. CASE UNCHANGED vars
  BY <1>2, <1>6 DEF vars, clockVars, brokerVars
<1>7. QED  BY <1>1, <1>3, <1>4, <1>5, <1>6 DEF Next

(* A suite that is over lasted as long as the guest's clock says, whatever   *)
(* the order of calls and however the clock moves, while the mode stays.     *)
THEOREM SuitesAreTimed == Spec => []SuiteDuration
<1>1. Init => TimeShape /\ SuiteTimed /\ PacedTypes /\ FramesPaced
  BY ClockAssumption
  DEF Init, ClockInit, BrokerInit, NoPerf, TimeShape, SuiteTimed, PacedTypes, FramesPaced
<1>2. TimeShape /\ SuiteTimed /\ PacedTypes /\ FramesPaced /\ [Next]_vars
        => (TimeShape /\ SuiteTimed /\ PacedTypes /\ FramesPaced)'
  BY TimedStep, PacedStep, ClockSteps
<1>3. SuiteTimed => SuiteDuration
  BY DEF SuiteTimed, SuiteDuration
<1>4. QED  BY <1>1, <1>2, <1>3, PTL DEF Spec

(* The cases of a suite are begun and ended one at a time, at times that are *)
(* the guest's.                                                              *)
THEOREM SuitesAreOrdered == Spec => []SuiteOrdered
BY CasesAreOrdered, SuitesAreTimed, PTL DEF SuiteOrdered
-----------------------------------------------------------------------------
(* The sequencer: what repeating one turn of a loop does. *)

(* A set with 0 and the successors of its members has every natural number: *)
(* there is no least one outside it.                                        *)
LEMMA NatInd ==
    ASSUME NEW S, 0 \in S, \A n \in Nat : n \in S => n + 1 \in S
    PROVE  Nat \subseteq S
<1> DEFINE Out == Nat \ S
           R == OpToRel(<, Nat)
<1>1. SUFFICES ASSUME Out # {} PROVE FALSE
  OBVIOUS
<1>2. IsWellFoundedOn(R, Nat)
  BY NatLessThanWellFounded
<1>3. \A y, z \in Nat : y < z => <<y, z>> \in R
  BY DEF OpToRel
<1>4. Out \subseteq Nat
  OBVIOUS
<1> HIDE DEF R
<1>5. \E z \in Out : \A y \in Out : ~(<<y, z>> \in R)
  <2> HIDE DEF Out
  <2>1. QED  BY <1>1, <1>2, <1>4, WFMin
<1>6. PICK z \in Out : \A y \in Out : ~(<<y, z>> \in R)
  BY <1>5
<1>7. z \in Nat /\ z # 0
  OBVIOUS
<1>8. z - 1 \in Nat /\ z - 1 < z /\ (z - 1) + 1 = z
  BY <1>7
<1>9. z - 1 \in Out
  BY <1>7, <1>8
<1>10. QED  BY <1>3, <1>6, <1>7, <1>8, <1>9

(* Repeating a step that stays in a set is a sequence in that set. *)
Repeats(g, n, s0, F) == g = [i \in 0 .. n |-> IF i = 0 THEN s0 ELSE F[g[i - 1]]]
(* Such a sequence exists for every number of steps. *)
LEMMA Repeated ==
    ASSUME NEW S, NEW s0 \in S, NEW F \in [S -> S]
    PROVE  \A n \in Nat : \E g \in [0 .. n -> S] : Repeats(g, n, s0, F)
<1> DEFINE P(n) == \E g \in [0 .. n -> S] : Repeats(g, n, s0, F)
           Good == {n \in Nat : P(n)}
<1>1. P(0)
  <2> DEFINE g == [i \in 0 .. 0 |-> s0]
  <2>1. g \in [0 .. 0 -> S]
    OBVIOUS
  <2>2. Repeats(g, 0, s0, F)
    BY DEF Repeats
  <2> HIDE DEF g
  <2>3. QED  BY <2>1, <2>2
<1>2. ASSUME NEW n \in Nat, P(n)
      PROVE  P(n + 1)
  <2>1. PICK g \in [0 .. n -> S] : Repeats(g, n, s0, F)
    BY <1>2
  <2> DEFINE new == F[g[n]]
             h == [i \in 0 .. n + 1 |-> IF i = n + 1 THEN new ELSE g[i]]
  <2>2. new \in S
    OBVIOUS
  <2>3. h \in [0 .. n + 1 -> S]
    <3> HIDE DEF new
    <3>1. QED  BY <2>2
  <2>4. \A i \in 0 .. n : g[i] = IF i = 0 THEN s0 ELSE F[g[i - 1]]
    BY <2>1 DEF Repeats
  <2>5. /\ \A i \in 0 .. n : h[i] = g[i]
        /\ h[n + 1] = F[g[n]] /\ h = [i \in 0 .. n + 1 |-> h[i]]
    OBVIOUS
  <2> HIDE DEF h
  <2>6. ASSUME NEW i \in 0 .. n + 1
        PROVE  h[i] = IF i = 0 THEN s0 ELSE F[h[i - 1]]
    <3>1. CASE i \in 0 .. n
      <4>1. i # 0 => i - 1 \in 0 .. n
        BY <3>1
      <4>2. QED  BY <2>4, <2>5, <3>1, <4>1
    <3>2. CASE i = n + 1
      <4>1. i # 0 /\ i - 1 = n /\ n \in 0 .. n
        BY <3>2
      <4>2. QED  BY <2>5, <3>2, <4>1
    <3>3. QED  BY <3>1, <3>2
  <2>7. Repeats(h, n + 1, s0, F)
    BY <2>5, <2>6 DEF Repeats
  <2>8. QED  BY <2>3, <2>7
<1> HIDE DEF P
<1>3. 0 \in Good /\ \A n \in Nat : n \in Good => n + 1 \in Good
  BY <1>1, <1>2
<1>4. Nat \subseteq Good
  <2> HIDE DEF Good
  <2>1. QED  BY <1>3, NatInd
<1>5. QED  BY <1>4 DEF P

(* A set with 0 and, below n, the successors of its members has all up to n. *)
LEMMA IndTo ==
    ASSUME NEW n \in Nat, NEW S, 0 \in S, \A i \in 0 .. n - 1 : i \in S => i + 1 \in S
    PROVE  \A i \in 0 .. n : i \in S
<1> DEFINE Good == {i \in Nat : i <= n => i \in S}
<1>1. 0 \in Good /\ \A i \in Nat : i \in Good => i + 1 \in Good
  OBVIOUS
<1>2. Nat \subseteq Good
  <2> HIDE DEF Good
  <2>1. QED  BY <1>1, NatInd
<1>3. QED  BY <1>2
-----------------------------------------------------------------------------
(* The schedule of a track, event by event. *)
DueType == [at : Nat, index : Nat]
IsDue(g, events, n) ==
    g = [k \in 0 .. n |-> IF k = 0 THEN [at |-> 0, index |-> 1] ELSE DueAfter(events, g[k - 1])]

(* The event after a due one is due at some tick. *)
LEMMA DueAfterType ==
    ASSUME NEW c \in Carts, NEW t \in DOMAIN Tracks[c], NEW d \in DueType
    PROVE  DueAfter(Tracks[c][t], d) \in DueType
<1> DEFINE ev == Tracks[c][t]
<1>1. /\ DOMAIN ev \subseteq Nat \ {0}
      /\ \A e \in DOMAIN ev : ev[e].delta \in Nat
  BY ClockAssumption
<1> SUFFICES DueAfter(ev, d) \in DueType
  OBVIOUS
<1> HIDE DEF ev
<1>2. CASE d.index \notin DOMAIN ev \/ ev[d.index].command = "end"
  <2>1. DueAfter(ev, d) = [at |-> d.at, index |-> 0]
    BY <1>2 DEF DueAfter
  <2>2. QED  BY <2>1 DEF DueType
<1>3. CASE d.index \in DOMAIN ev /\ ev[d.index].command # "end"
  <2> DEFINE next == IF ev[d.index].command # "jump" THEN d.index + 1
                     ELSE IF ev[d.index].arg \in DOMAIN ev THEN ev[d.index].arg ELSE 0
             at == d.at + ev[d.index].delta
  <2>1. next \in Nat /\ at \in Nat
    BY <1>1, <1>3 DEF DueType
  <2>2. DueAfter(ev, d) = [at |-> at, index |-> next]
    BY <1>3 DEF DueAfter
  <2> HIDE DEF next, at
  <2>3. QED  BY <2>1, <2>2 DEF DueType
<1>4. QED  BY <1>2, <1>3

(* The schedule of a track exists as far as one asks, *)
LEMMA DueExists ==
    ASSUME NEW c \in Carts, NEW t \in DOMAIN Tracks[c], NEW n \in Nat
    PROVE  \E g : IsDue(g, Tracks[c][t], n)
<1> DEFINE ev == Tracks[c][t]
           first == [at |-> 0, index |-> 1]
           F == [d \in DueType |-> DueAfter(ev, d)]
<1>1. first \in DueType
  BY DEF DueType
<1>2. F \in [DueType -> DueType]
  <2>1. \A d \in DueType : DueAfter(ev, d) \in DueType
    BY DueAfterType
  <2> HIDE DEF ev
  <2>2. QED  BY <2>1
<1>3. PICK g \in [0 .. n -> DueType] : Repeats(g, n, first, F)
  <2> HIDE DEF F, first
  <2>1. QED  BY <1>1, <1>2, Repeated
<1> HIDE DEF first, ev
<1>4. \A k \in 0 .. n : k # 0 => F[g[k - 1]] = DueAfter(ev, g[k - 1])
  <2>1. \A k \in 0 .. n : k # 0 => k - 1 \in 0 .. n
    OBVIOUS
  <2>2. QED  BY <2>1
<1>5. g = [k \in 0 .. n |-> IF k = 0 THEN first ELSE F[g[k - 1]]]
  BY <1>3 DEF Repeats
<1>6. g = [k \in 0 .. n |-> IF k = 0 THEN first ELSE DueAfter(ev, g[k - 1])]
  <2> HIDE DEF F
  <2>1. QED  BY <1>4, <1>5
<1>7. QED  BY <1>6 DEF IsDue, first, ev

(* its entries have their type, *)
LEMMA DueTyped ==
    ASSUME NEW c \in Carts, NEW t \in DOMAIN Tracks[c], NEW n \in Nat, NEW g,
           IsDue(g, Tracks[c][t], n)
    PROVE  \A k \in 0 .. n : g[k] \in DueType
<1> DEFINE ev == Tracks[c][t]
           S == {k \in 0 .. n : g[k] \in DueType}
<1>1. \A k \in 0 .. n : g[k] = IF k = 0 THEN [at |-> 0, index |-> 1] ELSE DueAfter(ev, g[k - 1])
  BY DEF IsDue
<1> HIDE DEF ev
<1>2. 0 \in S
  BY <1>1 DEF DueType
<1>3. ASSUME NEW i \in 0 .. n - 1, i \in S
      PROVE  i + 1 \in S
  <2>1. i + 1 \in 0 .. n /\ i + 1 # 0 /\ (i + 1) - 1 = i
    OBVIOUS
  <2>2. g[i + 1] = DueAfter(ev, g[i])
    BY <1>1, <2>1
  <2>3. DueAfter(ev, g[i]) \in DueType
    BY <1>3, DueAfterType DEF ev
  <2>4. QED  BY <2>1, <2>2, <2>3
<1>4. \A k \in 0 .. n : k \in S
  <2> HIDE DEF S
  <2>1. QED  BY <1>2, <1>3, IndTo
<1>5. QED  BY <1>4

(* and asking further changes none of it. *)
LEMMA DueAgree ==
    ASSUME NEW events, NEW n \in Nat, NEW g, NEW h, IsDue(g, events, n), IsDue(h, events, n + 1)
    PROVE  g[n] = h[n]
<1> DEFINE S == {k \in 0 .. n : g[k] = h[k]}
<1>1. \A k \in 0 .. n : g[k] = IF k = 0 THEN [at |-> 0, index |-> 1] ELSE DueAfter(events, g[k - 1])
  BY DEF IsDue
<1>2. \A k \in 0 .. n + 1 : h[k] = IF k = 0 THEN [at |-> 0, index |-> 1]
                                   ELSE DueAfter(events, h[k - 1])
  BY DEF IsDue
<1>3. 0 \in S
  BY <1>1, <1>2
<1>4. ASSUME NEW i \in 0 .. n - 1, i \in S
      PROVE  i + 1 \in S
  <2>1. i + 1 \in 0 .. n /\ i + 1 \in 0 .. n + 1 /\ i + 1 # 0 /\ (i + 1) - 1 = i
    OBVIOUS
  <2>2. QED  BY <1>1, <1>2, <1>4, <2>1
<1>5. \A k \in 0 .. n : k \in S
  <2> HIDE DEF S
  <2>1. QED  BY <1>3, <1>4, IndTo
<1>6. n \in S
  BY <1>5
<1>7. QED  BY <1>6

(* The first event is due at once, and every other after the one before it. *)
LEMMA ScheduleSteps ==
    ASSUME NEW c \in Carts, NEW t \in DOMAIN Tracks[c]
    PROVE  LET ev == Tracks[c][t]
           IN  /\ Schedule(ev, 0) = [at |-> 0, index |-> 1]
               /\ \A n \in Nat : /\ Schedule(ev, n) \in DueType
                                 /\ Schedule(ev, n + 1) = DueAfter(ev, Schedule(ev, n))
<1> DEFINE ev == Tracks[c][t]
<1>1. ASSUME NEW n \in Nat
      PROVE  \E g : IsDue(g, ev, n) /\ Schedule(ev, n) = g[n]
  <2> DEFINE g == CHOOSE h : IsDue(h, ev, n)
  <2>1. IsDue(g, ev, n)
    BY DueExists
  <2>2. Schedule(ev, n) = g[n]
    BY DEF Schedule, IsDue
  <2> HIDE DEF g
  <2>3. QED  BY <2>1, <2>2
<1>2. ASSUME NEW n \in Nat
      PROVE  Schedule(ev, n) \in DueType
  <2>1. PICK g : IsDue(g, ev, n) /\ Schedule(ev, n) = g[n]
    BY <1>1
  <2>2. QED  BY <2>1, DueTyped
<1>3. Schedule(ev, 0) = [at |-> 0, index |-> 1]
  <2>1. PICK g : IsDue(g, ev, 0) /\ Schedule(ev, 0) = g[0]
    BY <1>1
  <2>2. g[0] = [at |-> 0, index |-> 1]
    BY <2>1 DEF IsDue
  <2>3. QED  BY <2>1, <2>2
<1>4. ASSUME NEW n \in Nat
      PROVE  Schedule(ev, n + 1) = DueAfter(ev, Schedule(ev, n))
  <2>1. PICK g : IsDue(g, ev, n) /\ Schedule(ev, n) = g[n]
    BY <1>1
  <2>2. PICK h : IsDue(h, ev, n + 1) /\ Schedule(ev, n + 1) = h[n + 1]
    BY <1>1
  <2> HIDE DEF ev
  <2>3. h[n + 1] = DueAfter(ev, h[n])
    <3>1. n + 1 \in 0 .. n + 1 /\ n + 1 # 0 /\ (n + 1) - 1 = n
      OBVIOUS
    <3>2. \A k \in 0 .. n + 1 : k # 0 => h[k] = DueAfter(ev, h[k - 1])
      BY <2>2 DEF IsDue
    <3>3. QED  BY <3>1, <3>2
  <2>4. g[n] = h[n]
    BY <2>1, <2>2, DueAgree
  <2>5. QED  BY <2>1, <2>2, <2>3, <2>4
<1>5. QED  BY <1>2, <1>3, <1>4
-----------------------------------------------------------------------------
(* The sequencer's steps. *)
TrackType == [id : Nat, index : Nat, ticks : Nat]
HeardType == [at : Nat, id : Nat, ticks : Nat, events : Nat, time : Nat, skipped : BOOLEAN,
              jumped : BOOLEAN, spun : BOOLEAN, ended : BOOLEAN]
SequencerType == [track : TrackType, tempo : Tempos, elapsed : Nat, heard : HeardType]

(* A track of cartridge c that plays is at the event of its schedule, which  *)
(* is due at its tick; one that has ended is past the schedule's last.       *)
NextDue(c, s) == Schedule(Tracks[c][s.heard.id], s.heard.events)
OnPlace(c, s) ==
    /\ s.track # NoTrack =>
          /\ s.heard.id \in DOMAIN Tracks[c] /\ s.track.id = s.heard.id /\ s.track.index # 0
          /\ NextDue(c, s).index = s.track.index
          /\ ~s.heard.spun => NextDue(c, s).at = s.heard.ticks + s.track.ticks
    /\ s.track = NoTrack /\ s.heard.ended =>
          /\ s.heard.id \in DOMAIN Tracks[c]
          /\ NextDue(c, s).index \notin DOMAIN Tracks[c][s.heard.id]

(* Between the steps the event is not due yet. *)
Waits(c, s) == OnPlace(c, s) /\ (s.track # NoTrack /\ ~s.heard.spun => s.track.ticks > 0)

(* What the events of one tick leave as it is. *)
SameTime(s, t) ==
    /\ t.elapsed = s.elapsed
    /\ t.heard.at = s.heard.at /\ t.heard.time = s.heard.time
    /\ t.heard.skipped = s.heard.skipped /\ t.heard.jumped = s.heard.jumped

(* A track that is ended. *)
LEMMA EndedStep ==
    ASSUME NEW c, NEW s \in SequencerType,
           s.heard.id \in DOMAIN Tracks[c], NextDue(c, s).index \notin DOMAIN Tracks[c][s.heard.id]
    PROVE  Ended(s) \in SequencerType /\ OnPlace(c, Ended(s)) /\ SameTime(s, Ended(s))
<1> DEFINE r == Ended(s)
<1>1. r = [s EXCEPT !.track = NoTrack, !.heard = [s.heard EXCEPT !.ended = TRUE]]
  BY DEF Ended, SequencerType
<1>2. NoTrack \in TrackType
  BY DEF NoTrack, TrackType
<1>3. [s.heard EXCEPT !.ended = TRUE] \in HeardType
  BY DEF SequencerType, HeardType
<1>4. /\ r \in SequencerType /\ r.track = NoTrack /\ r.elapsed = s.elapsed
      /\ r.heard = [s.heard EXCEPT !.ended = TRUE]
  BY <1>1, <1>2, <1>3 DEF SequencerType
<1> HIDE DEF r
<1>5. /\ r.heard.id = s.heard.id /\ r.heard.events = s.heard.events /\ r.heard.at = s.heard.at
      /\ r.heard.time = s.heard.time /\ r.heard.skipped = s.heard.skipped
      /\ r.heard.jumped = s.heard.jumped
  BY <1>4 DEF SequencerType, HeardType
<1>6. NextDue(c, r) = NextDue(c, s)
  BY <1>5 DEF NextDue
<1>7. OnPlace(c, r)
  BY <1>4, <1>5, <1>6 DEF OnPlace
<1>8. SameTime(s, r)
  BY <1>4, <1>5 DEF SameTime
<1>9. QED  BY <1>4, <1>7, <1>8 DEF r

(* An event that is due is played: the next one is that of the schedule. *)
LEMMA PlayEventStep ==
    ASSUME cart \in Carts, NEW s \in SequencerType, OnPlace(cart, s),
           s.track # NoTrack, s.track.ticks = 0, s.track.index \in DOMAIN Events(s.track)
    PROVE  LET r == PlayEvent(s)
           IN  r \in SequencerType /\ OnPlace(cart, r) /\ SameTime(s, r)
<1> DEFINE id == s.heard.id
           ev == Tracks[cart][id]
           i == s.track.index
           e == ev[i]
           k == s.heard.events
           on == [s.track EXCEPT !.index = i + 1, !.ticks = e.delta]
           more == [s.heard EXCEPT !.events = k + 1]
           next == [s EXCEPT !.track = on, !.heard = more]
           d == Schedule(ev, k)
           d1 == Schedule(ev, k + 1)
<1>1. /\ id \in DOMAIN Tracks[cart] /\ s.track.id = id /\ i # 0 /\ d.index = i
      /\ ~s.heard.spun => d.at = s.heard.ticks
  BY DEF OnPlace, NextDue, SequencerType, TrackType, HeardType
<1>2. Events(s.track) = ev /\ i \in DOMAIN ev
  BY <1>1 DEF Events
<1>3. k \in Nat /\ i \in Nat /\ s.track \in TrackType /\ s.heard \in HeardType
  BY DEF SequencerType, TrackType, HeardType
<1>4. d1 = DueAfter(ev, d) /\ d \in DueType
  BY <1>1, <1>3, ScheduleSteps
<1> HIDE DEF d, d1
<1>5. /\ e.delta \in Nat /\ DOMAIN ev \subseteq Nat \ {0}
      /\ e.command = "tempo" => e.arg \in Tempos
  BY <1>1, <1>2, ClockAssumption
<1>6. /\ e.command = "end" => d1 = [at |-> d.at, index |-> 0]
      /\ e.command = "jump" /\ e.arg \in DOMAIN ev => d1 = [at |-> d.at + e.delta, index |-> e.arg]
      /\ e.command = "jump" /\ e.arg \notin DOMAIN ev => d1 = [at |-> d.at + e.delta, index |-> 0]
      /\ e.command \notin {"jump", "end"} => d1 = [at |-> d.at + e.delta, index |-> i + 1]
  BY <1>1, <1>2, <1>4 DEF DueAfter
<1> HIDE DEF ev
<1> DEFINE delta == e.delta
<1>7. on \in TrackType /\ on.id = id /\ on.index = i + 1 /\ on.ticks = delta
  <2> DEFINE tr == s.track
  <2>1. tr \in TrackType /\ delta \in Nat /\ i + 1 \in Nat /\ tr.id = id
    BY <1>1, <1>3, <1>5
  <2>2. on = [tr EXCEPT !.index = i + 1, !.ticks = delta]
    OBVIOUS
  <2> HIDE DEF tr, on, delta, e
  <2>3. QED  BY <2>1, <2>2 DEF TrackType
<1>8. /\ more \in HeardType /\ more.events = k + 1
      /\ \A f \in {"at", "id", "ticks", "time", "skipped", "jumped", "spun"} : more[f] = s.heard[f]
  BY <1>3 DEF HeardType
<1>9. /\ next \in SequencerType /\ next.track = on /\ next.heard = more
      /\ next.tempo = s.tempo /\ next.elapsed = s.elapsed
  BY <1>7, <1>8 DEF SequencerType
<1>10. PlayEvent(s) = CASE e.command = "tempo" -> [next EXCEPT !.tempo = e.arg]
                        [] e.command = "jump" -> IF e.arg \in DOMAIN ev
                                                 THEN [next EXCEPT !.track.index = e.arg] ELSE Ended(next)
                        [] e.command = "end" -> Ended(next)
                        [] OTHER -> next
  <2>1. next = [s EXCEPT !.track.index = @ + 1, !.track.ticks = e.delta, !.heard.events = @ + 1]
    BY DEF SequencerType, TrackType, HeardType
  <2>2. e = Events(s.track)[s.track.index] /\ Events(s.track) = ev
    BY <1>2
  <2> HIDE DEF next, e
  <2>3. QED  BY <2>1, <2>2, <1>9 DEF PlayEvent, SequencerType
<1> HIDE DEF on, more, next, e
<1>11. SameTime(s, next)
  BY <1>8, <1>9 DEF SameTime
<1>12. NextDue(cart, next) = d1
  BY <1>8, <1>9 DEF NextDue, ev, d1
<1>13. ASSUME e.command \notin {"jump", "end", "tempo"}
       PROVE  OnPlace(cart, next) /\ PlayEvent(s) = next
  <2>1. d1.index = i + 1 /\ d1.at = d.at + delta
    BY <1>6, <1>13
  <2>2. i + 1 # 0
    BY <1>3
  <2>3. next.track # NoTrack
    BY <1>7, <1>9, <2>2 DEF NoTrack
  <2>4. PlayEvent(s) = next
    BY <1>10, <1>13
  <2>5. QED  BY <1>1, <1>7, <1>8, <1>9, <1>12, <2>1, <2>2, <2>3, <2>4 DEF OnPlace
<1>14. CASE e.command = "tempo"
  <2> DEFINE r == [next EXCEPT !.tempo = e.arg]
  <2>1. /\ r \in SequencerType /\ r.track = on /\ r.heard = more /\ r.elapsed = s.elapsed
    BY <1>5, <1>9, <1>14 DEF SequencerType
  <2>2. PlayEvent(s) = r
    BY <1>10, <1>14
  <2> HIDE DEF r
  <2>3. d1.index = i + 1 /\ d1.at = d.at + delta
    BY <1>6, <1>14
  <2>4. i + 1 # 0
    BY <1>3
  <2>5. r.track # NoTrack
    BY <1>7, <2>1, <2>4 DEF NoTrack
  <2>6. NextDue(cart, r) = d1
    BY <1>12, <1>9, <2>1 DEF NextDue
  <2>7. OnPlace(cart, r)
    BY <1>1, <1>7, <1>8, <2>1, <2>3, <2>4, <2>5, <2>6 DEF OnPlace
  <2>8. SameTime(s, r)
    BY <1>8, <2>1 DEF SameTime
  <2>9. QED  BY <2>1, <2>2, <2>7, <2>8
<1>15. CASE e.command = "jump" /\ e.arg \in DOMAIN ev
  <2> DEFINE a == e.arg
             there == [on EXCEPT !.index = a]
             r == [next EXCEPT !.track = there]
  <2>1. a \in Nat /\ a # 0
    BY <1>5, <1>15
  <2> HIDE DEF a
  <2>2. there \in TrackType /\ there.id = id /\ there.index = a /\ there.ticks = delta
    BY <1>7, <2>1 DEF TrackType
  <2>3. r = [next EXCEPT !.track.index = a]
    BY <1>9 DEF SequencerType
  <2>4. PlayEvent(s) = r
    BY <1>10, <1>15, <2>3 DEF a
  <2> HIDE DEF there
  <2>5. r \in SequencerType /\ r.track = there /\ r.heard = more /\ r.elapsed = s.elapsed
    BY <1>9, <2>2 DEF SequencerType
  <2> HIDE DEF r
  <2>6. d1.index = a /\ d1.at = d.at + delta
    BY <1>6, <1>15 DEF a
  <2>7. r.track # NoTrack
    BY <2>1, <2>2, <2>5 DEF NoTrack
  <2>8. NextDue(cart, r) = d1
    BY <1>12, <1>9, <2>5 DEF NextDue
  <2>9. OnPlace(cart, r)
    BY <1>1, <1>8, <2>1, <2>2, <2>5, <2>6, <2>7, <2>8 DEF OnPlace
  <2>10. SameTime(s, r)
    BY <1>8, <2>5 DEF SameTime
  <2>11. QED  BY <2>4, <2>5, <2>9, <2>10
<1>16. CASE e.command = "end" \/ (e.command = "jump" /\ e.arg \notin DOMAIN ev)
  <2>1. d1.index \notin DOMAIN ev
    BY <1>5, <1>6, <1>16
  <2>2. next.heard.id = id
    BY <1>8, <1>9
  <2>3. /\ Ended(next) \in SequencerType /\ OnPlace(cart, Ended(next))
        /\ SameTime(next, Ended(next))
    BY <1>1, <1>9, <1>12, <2>1, <2>2, EndedStep DEF ev
  <2>4. PlayEvent(s) = Ended(next)
    BY <1>10, <1>16
  <2>5. SameTime(s, Ended(next))
    BY <1>11, <2>3 DEF SameTime
  <2>6. QED  BY <2>3, <2>4, <2>5
<1>17. QED  BY <1>9, <1>11, <1>13, <1>14, <1>15, <1>16

(* One turn of the loop over the events that are due. *)
LEMMA DueEventStep ==
    ASSUME cart \in Carts, NEW s \in SequencerType, OnPlace(cart, s)
    PROVE  LET r == DueEvent(s)
           IN  r \in SequencerType /\ OnPlace(cart, r) /\ SameTime(s, r)
<1>1. CASE s.track = NoTrack \/ s.track.ticks # 0
  BY <1>1 DEF DueEvent, SameTime
<1>2. CASE ~(s.track = NoTrack \/ s.track.ticks # 0) /\ s.track.index \notin DOMAIN Events(s.track)
  <2>1. /\ s.heard.id \in DOMAIN Tracks[cart]
        /\ NextDue(cart, s).index \notin DOMAIN Tracks[cart][s.heard.id]
    BY <1>2 DEF OnPlace, Events
  <2>2. DueEvent(s) = Ended(s)
    BY <1>2 DEF DueEvent
  <2>3. QED  BY <2>1, <2>2, EndedStep
<1>3. CASE ~(s.track = NoTrack \/ s.track.ticks # 0) /\ s.track.index \in DOMAIN Events(s.track)
  <2>1. s.track # NoTrack /\ s.track.ticks = 0
    BY <1>3
  <2>2. DueEvent(s) = PlayEvent(s)
    BY <1>3 DEF DueEvent
  <2>3. QED  BY <1>3, <2>1, <2>2, PlayEventStep
<1>4. QED  BY <1>1, <1>2, <1>3

(* All of them: what is left is not due, or the loop has reached its limit.  *)
LEMMA ProcessTrackStep ==
    ASSUME cart \in Carts, NEW s \in SequencerType, OnPlace(cart, s)
    PROVE  LET r == ProcessTrack(s)
           IN  r \in SequencerType /\ Waits(cart, r) /\ SameTime(s, r)
<1> DEFINE S == {t \in SequencerType : OnPlace(cart, t) /\ SameTime(s, t)}
           F == [t \in S |-> DueEvent(t)]
           N == MaxEvents
           after[n \in 0 .. N] == IF n = 0 THEN s ELSE DueEvent(after[n - 1])
<1>1. N \in Nat
  BY ClockAssumption
<1>2. s \in S
  BY DEF SameTime
<1>3. ASSUME NEW t \in S
      PROVE  DueEvent(t) \in S
  <2>1. /\ DueEvent(t) \in SequencerType /\ OnPlace(cart, DueEvent(t))
        /\ SameTime(t, DueEvent(t)) /\ SameTime(s, t)
    BY DueEventStep
  <2>2. SameTime(s, DueEvent(t))
    BY <2>1 DEF SameTime
  <2>3. QED  BY <2>1, <2>2
<1> HIDE DEF N
<1>4. F \in [S -> S]
  <2> HIDE DEF S
  <2>1. QED  BY <1>3
<1>5. PICK g \in [0 .. N -> S] : Repeats(g, N, s, F)
  <2> HIDE DEF S, F
  <2>1. QED  BY <1>1, <1>2, <1>4, Repeated
<1>6. g = [n \in 0 .. N |-> IF n = 0 THEN s ELSE DueEvent(g[n - 1])]
  <2>1. \A n \in 0 .. N : n # 0 => n - 1 \in 0 .. N
    BY <1>1
  <2>2. \A n \in 0 .. N : n # 0 => F[g[n - 1]] = DueEvent(g[n - 1])
    <3> HIDE DEF S
    <3>1. QED  BY <2>1
  <2>3. g = [n \in 0 .. N |-> IF n = 0 THEN s ELSE F[g[n - 1]]]
    BY <1>5 DEF Repeats
  <2> HIDE DEF F
  <2>4. QED  BY <2>2, <2>3
<1>7. after = [n \in 0 .. N |-> IF n = 0 THEN s ELSE DueEvent(after[n - 1])]
  BY <1>6
<1> DEFINE r == after[N]
           out == IF r.track # NoTrack /\ r.track.ticks = 0 THEN [r EXCEPT !.heard.spun = TRUE] ELSE r
<1>8. ProcessTrack(s) = out
  BY DEF ProcessTrack, N
<1> HIDE DEF after
<1>9. r \in S
  <2> DEFINE Good == {n \in 0 .. N : after[n] \in S}
  <2>1. \A n \in 0 .. N : after[n] = IF n = 0 THEN s ELSE DueEvent(after[n - 1])
    BY <1>7
  <2> HIDE DEF S
  <2>2. 0 \in Good
    BY <1>1, <1>2, <2>1
  <2>3. ASSUME NEW i \in 0 .. N - 1, i \in Good
        PROVE  i + 1 \in Good
    <3>1. i + 1 \in 0 .. N /\ i + 1 # 0 /\ (i + 1) - 1 = i
      BY <1>1
    <3>2. QED  BY <1>3, <2>1, <2>3, <3>1
  <2>4. \A n \in 0 .. N : n \in Good
    <3> HIDE DEF Good
    <3>1. QED  BY <1>1, <2>2, <2>3, IndTo
  <2>5. QED  BY <1>1, <2>4
<1>10. r \in SequencerType /\ OnPlace(cart, r) /\ SameTime(s, r)
  BY <1>9
<1> HIDE DEF r, S
<1>11. CASE r.track # NoTrack /\ r.track.ticks = 0
  <2> DEFINE more == [r.heard EXCEPT !.spun = TRUE]
  <2>1. /\ more \in HeardType /\ more.spun = TRUE
        /\ \A f \in {"at", "id", "events", "time", "skipped", "jumped", "ended"} : more[f] = r.heard[f]
    BY <1>10 DEF SequencerType, HeardType
  <2>2. out = [r EXCEPT !.heard = more]
    BY <1>10, <1>11 DEF SequencerType, HeardType
  <2> HIDE DEF more, out
  <2>3. /\ out \in SequencerType /\ out.track = r.track /\ out.heard = more
        /\ out.elapsed = r.elapsed
    BY <1>10, <2>1, <2>2 DEF SequencerType
  <2>4. NextDue(cart, out) = NextDue(cart, r)
    BY <2>1, <2>3 DEF NextDue
  <2>5. Waits(cart, out)
    BY <1>10, <2>1, <2>3, <2>4 DEF Waits, OnPlace
  <2>6. SameTime(s, out)
    BY <1>10, <2>1, <2>3 DEF SameTime
  <2>7. QED  BY <1>8, <2>3, <2>5, <2>6
<1>12. CASE ~(r.track # NoTrack /\ r.track.ticks = 0)
  <2>1. out = r
    BY <1>12
  <2>2. r.track # NoTrack => r.track.ticks > 0
    BY <1>10, <1>12 DEF SequencerType, TrackType
  <2>3. QED  BY <1>8, <1>10, <2>1, <2>2 DEF Waits
<1>13. QED  BY <1>11, <1>12

(* One tick takes its length off the time gone by. *)
LEMMA TickStep ==
    ASSUME cart \in Carts, NEW s \in SequencerType, Waits(cart, s),
           s.track # NoTrack, s.elapsed >= TickLength[s.tempo]
    PROVE  LET r == Tick(s)
           IN  /\ r \in SequencerType /\ Waits(cart, r)
               /\ r.elapsed = s.elapsed - TickLength[s.tempo]
               /\ r.heard.time + r.elapsed = s.heard.time + s.elapsed
               /\ r.heard.at = s.heard.at /\ r.heard.skipped = s.heard.skipped
               /\ r.heard.jumped = s.heard.jumped
<1> DEFINE l == TickLength[s.tempo]
           on == [s.track EXCEPT !.ticks = IF s.track.ticks > 0 THEN s.track.ticks - 1 ELSE 0]
           more == [s.heard EXCEPT !.ticks = s.heard.ticks + 1, !.time = s.heard.time + l]
           t == [s EXCEPT !.elapsed = s.elapsed - l, !.track = on, !.heard = more]
<1>1. l \in Nat /\ s.elapsed \in Nat /\ s.elapsed - l \in Nat
  BY ClockAssumption DEF SequencerType
<1>2. s.track \in TrackType /\ s.heard \in HeardType
  BY DEF SequencerType
<1>3. Tick(s) = ProcessTrack(t)
  <2>1. t = [s EXCEPT !.elapsed = @ - TickLength[s.tempo],
                      !.track.ticks = IF @ > 0 THEN @ - 1 ELSE 0,
                      !.heard.ticks = @ + 1, !.heard.time = @ + TickLength[s.tempo]]
    BY <1>2 DEF SequencerType, TrackType, HeardType
  <2> HIDE DEF t
  <2>2. QED  BY <2>1 DEF Tick
<1> HIDE DEF l
<1>4. /\ on \in TrackType /\ on.id = s.track.id /\ on.index = s.track.index
      /\ s.track.ticks > 0 => on.ticks = s.track.ticks - 1
  BY <1>2 DEF TrackType
<1>5. /\ more \in HeardType /\ more.ticks = s.heard.ticks + 1 /\ more.time = s.heard.time + l
      /\ \A f \in {"at", "id", "events", "skipped", "jumped", "spun", "ended"} : more[f] = s.heard[f]
  <2> DEFINE h == s.heard
             ticks == h.ticks + 1
             time == h.time + l
  <2>1. h \in HeardType /\ ticks \in Nat /\ time \in Nat
    BY <1>1, <1>2 DEF HeardType
  <2>2. more = [h EXCEPT !.ticks = ticks, !.time = time]
    OBVIOUS
  <2>3. ticks = h.ticks + 1 /\ time = h.time + l
    OBVIOUS
  <2> HIDE DEF h, ticks, time, more
  <2>4. more \in HeardType /\ more.ticks = ticks /\ more.time = time
    BY <2>1, <2>2 DEF HeardType
  <2>5. \A f \in {"at", "id", "events", "skipped", "jumped", "spun", "ended"} : more[f] = h[f]
    BY <2>1, <2>2 DEF HeardType
  <2>6. QED  BY <2>3, <2>4, <2>5 DEF h
<1>6. t \in SequencerType /\ t.track = on /\ t.heard = more /\ t.elapsed = s.elapsed - l
  BY <1>1, <1>4, <1>5 DEF SequencerType
<1> HIDE DEF on, more, t
<1>7. NextDue(cart, t) = NextDue(cart, s)
  BY <1>5, <1>6 DEF NextDue
<1>8. OnPlace(cart, t)
  <2>1. /\ s.heard.id \in DOMAIN Tracks[cart] /\ s.track.id = s.heard.id /\ s.track.index # 0
        /\ NextDue(cart, s).index = s.track.index
        /\ ~s.heard.spun => NextDue(cart, s).at = s.heard.ticks + s.track.ticks /\ s.track.ticks > 0
    BY DEF Waits, OnPlace
  <2>2. t.track # NoTrack
    BY <1>4, <1>6, <2>1 DEF NoTrack
  <2>3. ~t.heard.spun => NextDue(cart, t).at = t.heard.ticks + t.track.ticks
    <3>1. \A a, b \in Nat : a + b = (a + 1) + (b - 1)
      OBVIOUS
    <3>2. s.heard.ticks \in Nat /\ s.track.ticks \in Nat
      BY <1>2 DEF TrackType, HeardType
    <3>3. QED  BY <1>4, <1>5, <1>6, <1>7, <2>1, <3>1, <3>2
  <2>4. QED  BY <1>4, <1>5, <1>6, <1>7, <2>1, <2>2, <2>3 DEF OnPlace
<1> DEFINE r == ProcessTrack(t)
<1>9. r \in SequencerType /\ Waits(cart, r) /\ SameTime(t, r)
  BY <1>6, <1>8, ProcessTrackStep
<1> HIDE DEF r
<1>10. r.heard.time + r.elapsed = s.heard.time + s.elapsed
  <2>1. r.heard.time = s.heard.time + l /\ r.elapsed = s.elapsed - l /\ s.heard.time \in Nat
    BY <1>2, <1>5, <1>6, <1>9 DEF SameTime, HeardType
  <2>2. QED  BY <1>1, <2>1
<1>11. /\ r.elapsed = s.elapsed - l /\ r.heard.at = s.heard.at
       /\ r.heard.skipped = s.heard.skipped /\ r.heard.jumped = s.heard.jumped
  BY <1>5, <1>6, <1>9 DEF SameTime
<1>12. QED  BY <1>3, <1>9, <1>10, <1>11 DEF r, l

(* Some tick is the shortest. *)
LEMMA ShortestTick == \E m \in Tempos : \A t \in Tempos : TickLength[m] <= TickLength[t]
<1> DEFINE L == {TickLength[t] : t \in Tempos}
           R == OpToRel(<, Nat)
<1>1. L \subseteq Nat /\ L # {}
  BY ClockAssumption
<1>2. IsWellFoundedOn(R, Nat)
  BY NatLessThanWellFounded
<1>3. \A y, z \in Nat : y < z => <<y, z>> \in R
  BY DEF OpToRel
<1> HIDE DEF R
<1>4. \E z \in L : \A y \in L : ~(<<y, z>> \in R)
  <2> HIDE DEF L
  <2>1. QED  BY <1>1, <1>2, WFMin
<1>5. PICK z \in L : \A y \in L : ~(<<y, z>> \in R)
  BY <1>4
<1>6. \A y \in L : z <= y
  <2>1. z \in L
    OBVIOUS
  <2>2. \A y \in L : y \in Nat /\ z \in Nat /\ ~(y < z)
    <3> HIDE DEF L
    <3>1. QED  BY <1>1, <1>3, <1>5, <2>1
  <2> HIDE DEF L
  <2>3. QED  BY <2>2
<1>7. QED  BY <1>6

Credit(time) == IF time < MaxAdvance THEN time ELSE MaxAdvance

(* A track that plays has less than some tick of time left over. *)
LittleLeft(s) == \E u \in Tempos : s.elapsed < TickLength[u]

(* The time of a frame is used up, tick by tick, and none of it is lost. *)
LEMMA AdvanceAudioStep ==
    ASSUME cart \in Carts, NEW s \in SequencerType, Waits(cart, s), s.track # NoTrack,
           LittleLeft(s), NEW time \in Nat
    PROVE  LET r == AdvanceAudio(s, time)
           IN  /\ r \in SequencerType /\ Waits(cart, r)
               /\ r.heard.at = s.heard.at /\ r.heard.jumped = s.heard.jumped
               /\ r.heard.skipped = (s.heard.skipped \/ time > MaxAdvance)
               /\ r.heard.time + r.elapsed = s.heard.time + s.elapsed + Credit(time)
               /\ r.track # NoTrack => r.elapsed < TickLength[r.tempo]
<1> DEFINE s0 == Credited(s, time)
           total == s.elapsed + Credit(time)
           sum == s.heard.time + total
           skipped == (s.heard.skipped \/ time > MaxAdvance)
           S == {t \in SequencerType : /\ Waits(cart, t) /\ t.heard.time + t.elapsed = sum
                                       /\ t.heard.at = s.heard.at /\ t.heard.skipped = skipped
                                       /\ t.heard.jumped = s.heard.jumped}
           F == [t \in S |-> DueTick(t)]
           N == MaxSteps
           after[n \in 0 .. N] == IF n = 0 THEN s0 ELSE DueTick(after[n - 1])
           r == after[N]
<1>1. AdvanceAudio(s, time) = r
  <2>1. AdvanceAudio(s, time) = IF s.track = NoTrack THEN s ELSE r
    BY DEF AdvanceAudio
  <2> HIDE DEF r
  <2>2. QED  BY <2>1
<1>2. N \in Nat /\ MaxAdvance \in Nat
  BY ClockAssumption
<1>3. s0 \in S /\ s0.elapsed = total /\ total \in Nat
  <2> DEFINE more == [s.heard EXCEPT !.skipped = skipped]
             h == s.heard
  <2>1. h \in HeardType /\ skipped \in BOOLEAN /\ s.elapsed \in Nat
    BY DEF SequencerType, HeardType
  <2>2. Credit(time) \in Nat /\ total \in Nat
    BY <1>2, <2>1 DEF Credit
  <2>3. s0 = [s EXCEPT !.elapsed = total, !.heard = more]
    BY DEF Credited, Credit, SequencerType, HeardType
  <2>4. more = [h EXCEPT !.skipped = skipped]
    OBVIOUS
  <2> HIDE DEF s0, more, skipped, total
  <2>5. /\ more \in HeardType /\ more.skipped = skipped
        /\ \A f \in {"at", "id", "ticks", "events", "time", "jumped", "spun", "ended"} : more[f] = h[f]
    <3> HIDE DEF h
    <3>1. QED  BY <2>1, <2>4 DEF HeardType
  <2>6. /\ s0 \in SequencerType /\ s0.track = s.track /\ s0.heard = more /\ s0.elapsed = total
    BY <2>2, <2>3, <2>5 DEF SequencerType
  <2>7. NextDue(cart, s0) = NextDue(cart, s)
    BY <2>5, <2>6 DEF NextDue
  <2>8. Waits(cart, s0)
    BY <2>5, <2>6, <2>7 DEF Waits, OnPlace
  <2>9. s0.heard.time + s0.elapsed = sum
    BY <2>5, <2>6
  <2>10. QED  BY <2>2, <2>5, <2>6, <2>8, <2>9
<1> HIDE DEF total, sum, skipped
<1>4. ASSUME NEW t \in S
      PROVE  /\ DueTick(t) \in S
             /\ DueTick(t) = t \/ DueTick(t).elapsed = t.elapsed - TickLength[t.tempo]
  <2>1. CASE t.track = NoTrack \/ t.elapsed < TickLength[t.tempo]
    BY <2>1 DEF DueTick
  <2>2. CASE ~(t.track = NoTrack \/ t.elapsed < TickLength[t.tempo])
    <3> DEFINE q == Tick(t)
    <3>1. t \in SequencerType /\ Waits(cart, t) /\ t.heard.time + t.elapsed = sum
      OBVIOUS
    <3>2. t.elapsed >= TickLength[t.tempo]
      BY <2>2, ClockAssumption DEF SequencerType
    <3>3. /\ q \in SequencerType /\ Waits(cart, q) /\ q.elapsed = t.elapsed - TickLength[t.tempo]
          /\ q.heard.time + q.elapsed = t.heard.time + t.elapsed
          /\ q.heard.at = t.heard.at /\ q.heard.skipped = t.heard.skipped
          /\ q.heard.jumped = t.heard.jumped
      BY <2>2, <3>1, <3>2, TickStep
    <3>4. DueTick(t) = q
      BY <2>2 DEF DueTick
    <3> HIDE DEF q
    <3>5. QED  BY <3>1, <3>3, <3>4
  <2>3. QED  BY <2>1, <2>2
<1> HIDE DEF N, s0
<1>5. F \in [S -> S]
  <2> HIDE DEF S
  <2>1. QED  BY <1>4
<1>6. PICK g \in [0 .. N -> S] : Repeats(g, N, s0, F)
  <2> HIDE DEF S, F
  <2>1. QED  BY <1>2, <1>3, <1>5, Repeated
<1>7. g = [n \in 0 .. N |-> IF n = 0 THEN s0 ELSE DueTick(g[n - 1])]
  <2>1. \A n \in 0 .. N : n # 0 => n - 1 \in 0 .. N
    BY <1>2
  <2>2. \A n \in 0 .. N : n # 0 => F[g[n - 1]] = DueTick(g[n - 1])
    <3> HIDE DEF S
    <3>1. QED  BY <2>1
  <2>3. g = [n \in 0 .. N |-> IF n = 0 THEN s0 ELSE F[g[n - 1]]]
    BY <1>6 DEF Repeats
  <2> HIDE DEF F
  <2>4. QED  BY <2>2, <2>3
<1>8. after = [n \in 0 .. N |-> IF n = 0 THEN s0 ELSE DueTick(after[n - 1])]
  BY <1>7
<1> HIDE DEF after
<1>9. \A n \in 0 .. N : after[n] = IF n = 0 THEN s0 ELSE DueTick(after[n - 1])
  BY <1>8
<1>10. \A n \in 0 .. N : after[n] \in S
  <2> DEFINE Good == {n \in 0 .. N : after[n] \in S}
  <2> HIDE DEF S
  <2>1. 0 \in Good
    BY <1>2, <1>3, <1>9
  <2>2. ASSUME NEW i \in 0 .. N - 1, i \in Good
        PROVE  i + 1 \in Good
    <3>1. i + 1 \in 0 .. N /\ i + 1 # 0 /\ (i + 1) - 1 = i
      BY <1>2
    <3>2. QED  BY <1>4, <1>9, <2>2, <3>1
  <2>3. \A n \in 0 .. N : n \in Good
    <3> HIDE DEF Good
    <3>1. QED  BY <1>2, <2>1, <2>2, IndTo
  <2>4. QED  BY <2>3
<1> DEFINE Idle(t) == t.track = NoTrack \/ t.elapsed < TickLength[t.tempo]
<1>11. PICK m \in Tempos : \A t \in Tempos : TickLength[m] <= TickLength[t]
  BY ShortestTick
<1> DEFINE l == TickLength[m]
<1>12. l \in Nat /\ \A t \in Tempos : TickLength[t] \in Nat /\ l <= TickLength[t]
  BY <1>11, ClockAssumption
<1>13. total < l * N
  <2>1. PICK u \in Tempos : s.elapsed < TickLength[u]
    BY DEF LittleLeft
  <2>2. l * N >= MaxAdvance + TickLength[u]
    BY ClockAssumption DEF N
  <2>3. Credit(time) <= MaxAdvance /\ Credit(time) \in Nat /\ s.elapsed \in Nat
    BY <1>2 DEF Credit, SequencerType
  <2>4. l * N \in Nat
    BY <1>2, <1>12
  <2> HIDE DEF l
  <2>5. QED  BY <1>2, <1>12, <2>1, <2>2, <2>3, <2>4 DEF total
<1> HIDE DEF l
<1>14. Idle(r)
  <2> DEFINE Good == {n \in 0 .. N : Idle(after[n]) \/ after[n].elapsed + l * n <= total}
  <2>1. 0 \in Good
    <3>1. 0 \in 0 .. N /\ after[0] = s0 /\ l * 0 = 0
      BY <1>2, <1>9, <1>12
    <3> HIDE DEF Idle
    <3>2. QED  BY <1>3, <3>1
  <2>2. ASSUME NEW i \in 0 .. N - 1, i \in Good
        PROVE  i + 1 \in Good
    <3> DEFINE t == after[i]
               q == after[i + 1]
    <3>1. i + 1 \in 0 .. N /\ i + 1 # 0 /\ (i + 1) - 1 = i /\ i \in 0 .. N
      BY <1>2
    <3>2. t \in S /\ q = DueTick(t)
      BY <1>9, <1>10, <3>1
    <3>3. Idle(t) \/ t.elapsed + l * i <= total
      BY <2>2
    <3> HIDE DEF t, q
    <3>4. CASE Idle(t)
      <4>1. q = t
        BY <3>2, <3>4 DEF DueTick
      <4>2. Idle(q)
        BY <3>4, <4>1
      <4> HIDE DEF Idle
      <4>3. QED  BY <3>1, <4>2 DEF q
    <3>5. CASE ~Idle(t)
      <4>1. t.elapsed + l * i <= total
        BY <3>3, <3>5
      <4>2. t \in SequencerType /\ q \in SequencerType
        BY <1>4, <3>2
      <4>3. q = t \/ q.elapsed = t.elapsed - TickLength[t.tempo]
        BY <1>4, <3>2
      <4>4. q.elapsed = t.elapsed - TickLength[t.tempo]
        <5>1. q = Tick(t) /\ ~(t.track = NoTrack) /\ ~(t.elapsed < TickLength[t.tempo])
          BY <3>2, <3>5 DEF DueTick
        <5>2. t.elapsed >= TickLength[t.tempo] /\ Waits(cart, t)
          BY <1>12, <3>2, <4>2, <5>1 DEF SequencerType
        <5>3. QED  BY <4>2, <5>1, <5>2, TickStep
      <4>5. l * (i + 1) = l * i + l /\ l * i \in Nat
        BY <1>12, <3>1, NextPeriod
      <4>6. t.elapsed \in Nat /\ TickLength[t.tempo] \in Nat /\ l <= TickLength[t.tempo]
        BY <1>12, <4>2 DEF SequencerType
      <4>7. q.elapsed + l * (i + 1) <= total
        BY <1>3, <1>12, <4>1, <4>4, <4>5, <4>6
      <4> HIDE DEF Idle
      <4>8. QED  BY <3>1, <4>7 DEF q
    <3>6. QED  BY <3>4, <3>5
  <2>3. \A n \in 0 .. N : n \in Good
    <3> HIDE DEF Good
    <3>1. QED  BY <1>2, <2>1, <2>2, IndTo
  <2>4. N \in 0 .. N /\ (Idle(r) \/ r.elapsed + l * N <= total)
    BY <1>2, <2>3
  <2>5. r \in SequencerType
    BY <1>10, <2>4
  <2>6. r.elapsed \in Nat /\ l * N \in Nat
    BY <1>2, <1>12, <2>5 DEF SequencerType
  <2> HIDE DEF Idle, r
  <2>7. QED  BY <1>3, <1>13, <2>4, <2>6
<1>15. r \in S
  BY <1>2, <1>10
<1> HIDE DEF r
<1>16. r.heard.time + r.elapsed = s.heard.time + s.elapsed + Credit(time)
  <2>1. s.heard.time \in Nat /\ s.elapsed \in Nat /\ Credit(time) \in Nat
    BY <1>2 DEF SequencerType, HeardType, Credit
  <2>2. QED  BY <1>15, <2>1 DEF sum, total
<1>17. QED  BY <1>1, <1>14, <1>15, <1>16 DEF skipped
-----------------------------------------------------------------------------
(* The inductive invariant of the clock and its track. *)
ClockTypes ==
    /\ cart \in Carts \cup {"none"} /\ phase \in {"idle", "init", "frame", "debug"}
    /\ (cart = "none" => phase = "idle") /\ mode \in {"accurate", "optimal"}
    /\ cycles \in Nat /\ wall \in Nat /\ deadline \in Nat /\ late \in Nat
    /\ lastAudio \in Nat /\ requests \in 0 .. MaxRequests

(* Where the time of a track has to have come from: the last frame, or now   *)
(* if a pause has made that unset.                                           *)
PlayedTo == IF lastAudio = 0 THEN Now ELSE lastAudio
TrackTimed ==
    track # NoTrack =>
        /\ LittleLeft(Sequencer)
        /\ ~heard.jumped => /\ lastAudio <= Now
                            /\ heard.time + elapsed <= PlayedTo - heard.at
                            /\ ~heard.skipped => /\ lastAudio # 0
                                                 /\ heard.time + elapsed = lastAudio - heard.at

TrackInv ==
    /\ ClockTypes
    /\ Sequencer \in SequencerType /\ Waits(cart, Sequencer)
    /\ cart = "none" => track = NoTrack
    /\ TrackTimed

(* The fields of the sequencer are the variables of the same names. *)
LEMMA SequencerFields ==
    /\ Sequencer.track = track /\ Sequencer.tempo = tempo
    /\ Sequencer.elapsed = elapsed /\ Sequencer.heard = heard
BY DEF Sequencer

(* The invariant implies the property. *)
LEMMA TrackInvIsKept == TrackInv => TracksKept
<1> SUFFICES ASSUME TrackInv PROVE TracksKept
  OBVIOUS
<1>1. tempo \in Tempos /\ elapsed \in Nat /\ track \in TrackType /\ heard \in HeardType
  BY SequencerFields DEF TrackInv, SequencerType
<1>2. track # NoTrack => /\ heard.id \in DOMAIN Tracks[cart] /\ track.id = heard.id
                         /\ NextDue(cart, Sequencer) = Schedule(Events(track), heard.events)
                         /\ NextDue(cart, Sequencer).index = track.index
                         /\ ~heard.spun => /\ NextDue(cart, Sequencer).at = heard.ticks + track.ticks
                                           /\ track.ticks > 0
  BY SequencerFields DEF TrackInv, Waits, OnPlace, NextDue, Events
<1>3. track = NoTrack /\ heard.ended =>
        Schedule(Tracks[cart][heard.id], heard.events).index \notin DOMAIN Tracks[cart][heard.id]
  BY SequencerFields DEF TrackInv, Waits, OnPlace, NextDue
<1>4. ClockTypeOK
  BY <1>1, <1>2 DEF ClockTypeOK, TrackInv, ClockTypes, TrackType
<1>5. TrackOnSchedule
  BY <1>2, <1>3 DEF TrackOnSchedule
<1>6. Now \in Nat
  BY NowIsNat DEF Now, TrackInv, ClockTypes
<1>7. TrackTime
  <2>1. heard.at \in Nat /\ heard.time \in Nat /\ elapsed \in Nat /\ lastAudio \in Nat
    BY <1>1 DEF HeardType, TrackInv, ClockTypes
  <2>2. SUFFICES ASSUME track # NoTrack, ~heard.jumped
                 PROVE  /\ heard.time + elapsed <= Now - heard.at
                        /\ ~heard.skipped => heard.time + elapsed = lastAudio - heard.at
    BY DEF TrackTime
  <2>3. /\ lastAudio <= Now /\ heard.time + elapsed <= PlayedTo - heard.at
        /\ ~heard.skipped => heard.time + elapsed = lastAudio - heard.at
    BY <2>2 DEF TrackInv, TrackTimed
  <2>4. PlayedTo <= Now /\ PlayedTo \in Nat
    BY <1>6, <2>1, <2>3 DEF PlayedTo
  <2>5. QED  BY <1>6, <2>1, <2>3, <2>4
<1>8. QED  BY <1>4, <1>5, <1>7 DEF TracksKept

(* The types of the clock. *)
LEMMA ClockTypesStep ==
    ASSUME ClockTypes, ClockStep \/ TrackCall \/ UNCHANGED clockVars
    PROVE  ClockTypes'
<1> USE ClockAssumption DEF ClockTypes
<1>1. ASSUME NEW c \in Carts, Load(c)
      PROVE  ClockTypes'
  BY <1>1 DEF Load
<1>2. CASE Stop \/ Pause \/ WallPasses \/ DebugFrameBegins
  BY <1>2 DEF Stop, Pause, WallPasses, DebugFrameBegins
<1>3. CASE FrameBegins
  BY <1>3, NowIsNat DEF FrameBegins, Now
<1>4. CASE \E md \in {"accurate", "optimal"} : SetPerformanceMode(md)
  BY <1>4 DEF SetPerformanceMode
<1>5. CASE \E n \in Costs : Execute(n)
  BY <1>5 DEF Execute
<1>6. CASE InitReturns \/ FrameTraps
  BY <1>6 DEF InitReturns, FrameTraps, CallReturns
<1>7. CASE FrameEnds
  <2>1. CASE mode = "accurate"
    BY <1>7, <2>1 DEF FrameEnds, PaceFrame, AdvanceTo, CallReturns
  <2>2. CASE mode # "accurate"
    BY <1>7, <2>2 DEF FrameEnds, CallReturns
  <2>3. QED  BY <2>1, <2>2
<1>8. CASE TrackCall
  <2>1. CASE \E id \in DOMAIN Tracks[cart] : PlayTrack(id)
    BY <2>1, NowIsNat DEF PlayTrack, Now
  <2>2. CASE StopTrack \/ \E t \in Tempos : SetTempo(t)
    BY <2>2 DEF StopTrack, SetTempo
  <2>3. QED  BY <1>8, <2>1, <2>2 DEF TrackCall
<1>9. CASE UNCHANGED clockVars
  BY <1>9 DEF clockVars
<1>10. QED  BY <1>1, <1>2, <1>3, <1>4, <1>5, <1>6, <1>7, <1>8, <1>9 DEF ClockStep

(* The history of a track that starts. *)
LEMMA StartHistoryType ==
    ASSUME NEW at \in Nat
    PROVE  /\ StartHistory(at) \in HeardType /\ StartHistory(at).at = at
           /\ StartHistory(at).skipped = (at = 0) /\ ~StartHistory(at).jumped
           /\ ~StartHistory(at).spun /\ ~StartHistory(at).ended
           /\ StartHistory(at).time = 0 /\ StartHistory(at).ticks = 0 /\ StartHistory(at).events = 0
BY DEF StartHistory, HeardType

(* No track is in its place. *)
LEMMA SilentStep ==
    ASSUME Sequencer \in SequencerType, track' = NoTrack, heard' = StartHistory(0),
           tempo' = tempo, elapsed' = elapsed
    PROVE  Sequencer' \in SequencerType /\ Waits(cart', Sequencer') /\ TrackTimed'
<1>1. Sequencer' = [track |-> NoTrack, tempo |-> tempo, elapsed |-> elapsed, heard |-> StartHistory(0)]
  BY DEF Sequencer
<1>2. tempo \in Tempos /\ elapsed \in Nat
  BY SequencerFields DEF SequencerType
<1>3. StartHistory(0) \in HeardType /\ ~StartHistory(0).ended /\ NoTrack \in TrackType
  BY StartHistoryType DEF NoTrack, TrackType
<1> DEFINE h == StartHistory(0)
<1> HIDE DEF h
<1>4. Sequencer' \in SequencerType
  BY <1>1, <1>2, <1>3 DEF SequencerType, h
<1>5. Sequencer'.track = NoTrack /\ ~Sequencer'.heard.ended
  BY <1>1, <1>3
<1>6. Waits(cart', Sequencer')
  BY <1>5 DEF Waits, OnPlace
<1>7. TrackTimed'
  BY DEF TrackTimed
<1>8. QED  BY <1>4, <1>6, <1>7

(* What leaves the sequencer alone while its clock goes on. *)
LEMMA QuietStep ==
    ASSUME TrackInv, ClockTypes', UNCHANGED <<cart, mode, lastAudio, trackVars>>,
           cycles <= cycles', wall <= wall'
    PROVE  TrackInv'
<1>1. Sequencer' = Sequencer
  BY DEF Sequencer, trackVars
<1>2. Now <= Now' /\ Now \in Nat /\ Now' \in Nat
  BY NowGrows, NowIsNat DEF Now, TrackInv, ClockTypes
<1>3. TrackTimed'
  <2> SUFFICES ASSUME track # NoTrack
               PROVE  TrackTimed'
    BY DEF TrackTimed, trackVars
  <2>1. track' = track /\ heard' = heard /\ elapsed' = elapsed /\ lastAudio' = lastAudio
    BY DEF trackVars
  <2>2. heard.at \in Nat /\ heard.time \in Nat /\ elapsed \in Nat /\ lastAudio \in Nat
    BY SequencerFields DEF TrackInv, SequencerType, HeardType, ClockTypes
  <2>3. PlayedTo <= PlayedTo' /\ PlayedTo \in Nat /\ PlayedTo' \in Nat
    BY <1>2, <2>1, <2>2 DEF PlayedTo
  <2>4. LittleLeft(Sequencer')
    BY <1>1 DEF TrackInv, TrackTimed
  <2>5. ~heard.jumped =>
          /\ lastAudio <= Now /\ heard.time + elapsed <= PlayedTo - heard.at
          /\ ~heard.skipped => lastAudio # 0 /\ heard.time + elapsed = lastAudio - heard.at
    BY DEF TrackInv, TrackTimed
  <2>6. ~heard'.jumped => lastAudio' <= Now' /\ heard'.time + elapsed' <= PlayedTo' - heard'.at
    BY <1>2, <2>1, <2>2, <2>3, <2>5
  <2>7. ~heard'.jumped /\ ~heard'.skipped =>
          lastAudio' # 0 /\ heard'.time + elapsed' = lastAudio' - heard'.at
    BY <2>1, <2>5
  <2>8. QED  BY <2>4, <2>6, <2>7 DEF TrackTimed
<1>4. cart' = cart /\ track' = track
  BY DEF trackVars
<1>5. QED  BY <1>1, <1>3, <1>4 DEF TrackInv

(* A pause and a change of the mode: time is lost or is another clock's. *)
LEMMA PauseStep ==
    ASSUME TrackInv, ClockTypes', Pause \/ \E md \in {"accurate", "optimal"} : SetPerformanceMode(md)
    PROVE  TrackInv'
<1>1. UNCHANGED <<cart, track, tempo, elapsed>>
  BY DEF Pause, SetPerformanceMode
<1>2. heard \in HeardType
  BY SequencerFields DEF TrackInv, SequencerType
<1>3. /\ heard' \in HeardType
      /\ \A f \in {"at", "id", "ticks", "events", "time", "spun", "ended"} : heard'[f] = heard[f]
  BY <1>2 DEF Pause, SetPerformanceMode, HeardType
<1>4. Sequencer' = [track |-> track, tempo |-> tempo, elapsed |-> elapsed, heard |-> heard']
  BY <1>1 DEF Sequencer
<1>5. track \in TrackType /\ tempo \in Tempos /\ elapsed \in Nat
  BY SequencerFields DEF TrackInv, SequencerType
<1>6. /\ Sequencer' \in SequencerType /\ Sequencer'.track = track /\ Sequencer'.heard = heard'
      /\ Sequencer'.elapsed = elapsed
  BY <1>3, <1>4, <1>5 DEF SequencerType
<1>7. NextDue(cart', Sequencer') = NextDue(cart, Sequencer)
  BY <1>1, <1>3, <1>6, SequencerFields DEF NextDue
<1>8. Waits(cart', Sequencer')
  BY <1>1, <1>3, <1>6, <1>7, SequencerFields DEF TrackInv, Waits, OnPlace
<1>9. TrackTimed'
  <2> SUFFICES ASSUME track # NoTrack
               PROVE  TrackTimed'
    BY <1>1 DEF TrackTimed
  <2>1. LittleLeft(Sequencer')
    BY <1>6, SequencerFields DEF TrackInv, TrackTimed, LittleLeft
  <2>2. CASE Pause
    <3>1. lastAudio' = 0 /\ heard'.skipped /\ heard'.jumped = heard.jumped /\ Now' = Now
      BY <1>2, <2>2 DEF Pause, HeardType, Now
    <3>2. Now \in Nat /\ lastAudio \in Nat
      BY NowIsNat DEF Now, TrackInv, ClockTypes
    <3>3. heard.at \in Nat /\ heard.time \in Nat /\ elapsed \in Nat
      BY <1>2, <1>5 DEF HeardType
    <3>4. ~heard.jumped => lastAudio <= Now /\ heard.time + elapsed <= PlayedTo - heard.at
      BY DEF TrackInv, TrackTimed
    <3>5. PlayedTo' = Now
      BY <3>1 DEF PlayedTo
    <3>6. ~heard.jumped => heard.time + elapsed <= Now - heard.at
      BY <3>2, <3>3, <3>4 DEF PlayedTo
    <3>7. QED  BY <1>1, <1>3, <2>1, <3>1, <3>2, <3>5, <3>6 DEF TrackTimed
  <2>3. CASE \E md \in {"accurate", "optimal"} : SetPerformanceMode(md)
    <3>1. heard'.jumped
      BY <1>2, <2>3 DEF SetPerformanceMode, HeardType
    <3>2. QED  BY <2>1, <3>1 DEF TrackTimed
  <2>4. QED  BY <2>2, <2>3
<1>10. QED  BY <1>1, <1>6, <1>8, <1>9 DEF TrackInv

(* A frame begins: the time since the last one is played. *)
LEMMA FrameBeginsStep ==
    ASSUME TrackInv, ClockTypes', FrameBegins
    PROVE  /\ TrackInv'
           /\ lastAudio # 0 /\ track' # NoTrack => elapsed' < TickLength[tempo']
<1> DEFINE s == Sequencer
           time == SinceLastAudio
           r == IF lastAudio = 0 THEN s ELSE AdvanceAudio(s, time)
<1>1. /\ cart' = cart /\ cart \in Carts /\ lastAudio' = Now /\ Now' = Now
      /\ track' = r.track /\ tempo' = r.tempo /\ elapsed' = r.elapsed /\ heard' = r.heard
  BY DEF FrameBegins, SetSequencer, Now, TrackInv, ClockTypes
<1>2. Now \in Nat /\ lastAudio \in Nat /\ MaxAdvance \in Nat
  BY NowIsNat, ClockAssumption DEF Now, TrackInv, ClockTypes
<1>3. time \in Nat /\ (lastAudio <= Now => time = Now - lastAudio)
  BY <1>2 DEF SinceLastAudio
<1>4. /\ s \in SequencerType /\ Waits(cart, s)
      /\ s.track = track /\ s.tempo = tempo /\ s.elapsed = elapsed /\ s.heard = heard
  BY SequencerFields DEF TrackInv
<1>5. track # NoTrack => LittleLeft(s)
  BY DEF TrackInv, TrackTimed
<1>6. track # NoTrack /\ ~heard.jumped =>
          /\ lastAudio <= Now /\ heard.time + elapsed <= PlayedTo - heard.at
          /\ ~heard.skipped => lastAudio # 0 /\ heard.time + elapsed = lastAudio - heard.at
  BY DEF TrackInv, TrackTimed
<1> HIDE DEF s, time
<1>7. Sequencer' = r => TrackInv' /\ (lastAudio # 0 /\ track' # NoTrack => elapsed' < TickLength[tempo'])
  <2> SUFFICES ASSUME Sequencer' = r
               PROVE  TrackInv' /\ (lastAudio # 0 /\ track' # NoTrack => elapsed' < TickLength[tempo'])
    OBVIOUS
  <2>1. CASE lastAudio = 0
    <3>1. r = s
      BY <2>1
    <3>2. track' = track /\ elapsed' = elapsed /\ heard' = heard
      BY <1>1, <1>4, <3>1
    <3>3. PlayedTo = Now /\ PlayedTo' = Now
      BY <1>1, <1>2, <2>1 DEF PlayedTo
    <3>4. LittleLeft(Sequencer') <=> LittleLeft(s)
      BY <3>1
    <3>5. TrackTimed'
      BY <1>1, <1>2, <1>5, <1>6, <2>1, <3>2, <3>3, <3>4 DEF TrackTimed
    <3>6. cart' = "none" => track' = NoTrack
      BY <1>1, <3>2 DEF TrackInv
    <3> HIDE DEF r
    <3>7. QED  BY <1>1, <1>4, <2>1, <3>1, <3>5, <3>6 DEF TrackInv
  <2>2. CASE lastAudio # 0 /\ track = NoTrack
    <3>1. r = s
      BY <1>4, <2>2 DEF AdvanceAudio
    <3>2. track' = NoTrack
      BY <1>1, <1>4, <2>2, <3>1
    <3>3. TrackTimed'
      BY <3>2 DEF TrackTimed
    <3> HIDE DEF r
    <3>4. QED  BY <1>1, <1>4, <3>1, <3>2, <3>3 DEF TrackInv
  <2>3. CASE lastAudio # 0 /\ track # NoTrack
    <3>1. r = AdvanceAudio(s, time)
      BY <2>3
    <3> HIDE DEF r
    <3>2. /\ r \in SequencerType /\ Waits(cart, r)
          /\ r.heard.at = heard.at /\ r.heard.jumped = heard.jumped
          /\ r.heard.skipped = (heard.skipped \/ time > MaxAdvance)
          /\ r.heard.time + r.elapsed = heard.time + elapsed + Credit(time)
          /\ r.track # NoTrack => r.elapsed < TickLength[r.tempo]
      BY <1>1, <1>3, <1>4, <1>5, <2>3, <3>1, AdvanceAudioStep
    <3>3. r.track # NoTrack => LittleLeft(r)
      BY <3>2 DEF LittleLeft, SequencerType
    <3>4. heard.at \in Nat /\ heard.time \in Nat /\ elapsed \in Nat
      BY <1>4 DEF SequencerType, HeardType
    <3>5. Credit(time) \in Nat /\ Credit(time) <= time /\ (time <= MaxAdvance => Credit(time) = time)
      BY <1>2, <1>3 DEF Credit
    <3>6. PlayedTo' = Now /\ PlayedTo = lastAudio
      BY <1>1, <2>3 DEF PlayedTo
    <3>7. ~heard.jumped => heard.time + elapsed + Credit(time) <= Now - heard.at
      BY <1>2, <1>3, <1>6, <2>3, <3>4, <3>5, <3>6
    <3>8. ~heard.jumped /\ ~heard.skipped /\ ~(time > MaxAdvance) =>
            Now # 0 /\ heard.time + elapsed + Credit(time) = Now - heard.at
      BY <1>2, <1>3, <1>6, <2>3, <3>4, <3>5
    <3>9. TrackTimed'
      <4>1. ~heard'.jumped => lastAudio' <= Now' /\ heard'.time + elapsed' <= PlayedTo' - heard'.at
        BY <1>1, <1>2, <3>2, <3>6, <3>7
      <4>2. ~heard'.jumped /\ ~heard'.skipped =>
              lastAudio' # 0 /\ heard'.time + elapsed' = lastAudio' - heard'.at
        BY <1>1, <3>2, <3>8
      <4>3. track' # NoTrack => LittleLeft(Sequencer')
        BY <1>1, <3>3
      <4>4. QED  BY <4>1, <4>2, <4>3 DEF TrackTimed
    <3>10. cart' # "none"
      BY <1>1, ClockAssumption
    <3>11. QED  BY <1>1, <3>2, <3>9, <3>10 DEF TrackInv
  <2>4. QED  BY <2>1, <2>2, <2>3
<1>8. Sequencer' = r
  <2>1. r \in SequencerType
    <3>1. CASE lastAudio = 0
      BY <1>4, <3>1
    <3>2. CASE lastAudio # 0 /\ track = NoTrack
      BY <1>4, <3>2 DEF AdvanceAudio
    <3>3. CASE lastAudio # 0 /\ track # NoTrack
      BY <1>1, <1>3, <1>4, <1>5, <3>3, AdvanceAudioStep
    <3>4. QED  BY <3>1, <3>2, <3>3
  <2> HIDE DEF r
  <2>2. r = [track |-> r.track, tempo |-> r.tempo, elapsed |-> r.elapsed, heard |-> r.heard]
    BY <2>1 DEF SequencerType
  <2>3. QED  BY <1>1, <2>2 DEF Sequencer
<1> HIDE DEF r
<1>9. QED  BY <1>7, <1>8

(* A track is started: its first events are played at once. *)
LEMMA PlayTrackStep ==
    ASSUME TrackInv, ClockTypes', NEW id \in DOMAIN Tracks[cart], PlayTrack(id)
    PROVE  TrackInv'
<1> DEFINE start == StartHistory(Now)
           h == [start EXCEPT !.id = id]
           s == [track |-> [id |-> id, index |-> 1, ticks |-> 0], tempo |-> tempo,
                 elapsed |-> 0, heard |-> h]
           r == ProcessTrack(s)
<1>1. /\ cart' = cart /\ cart \in Carts /\ lastAudio' = Now /\ Now' = Now
      /\ track' = r.track /\ tempo' = r.tempo /\ elapsed' = r.elapsed /\ heard' = r.heard
  BY DEF PlayTrack, SetSequencer, Now, TrackInv, ClockTypes
<1>2. Now \in Nat /\ id \in Nat
  <2>1. Now \in Nat
    BY NowIsNat DEF Now, TrackInv, ClockTypes
  <2>2. DOMAIN Tracks[cart] \subseteq Nat
    BY <1>1, ClockAssumption
  <2>3. QED  BY <2>1, <2>2
<1> DEFINE now == Now
<1>3. /\ start \in HeardType /\ start.at = now /\ start.skipped = (now = 0) /\ ~start.jumped
      /\ ~start.spun /\ ~start.ended /\ start.time = 0 /\ start.ticks = 0 /\ start.events = 0
  BY <1>2, StartHistoryType
<1> HIDE DEF start, now
<1>4. /\ h \in HeardType /\ h.id = id /\ h.at = now /\ h.skipped = (now = 0) /\ ~h.jumped
      /\ ~h.spun /\ ~h.ended /\ h.time = 0 /\ h.ticks = 0 /\ h.events = 0
  BY <1>2, <1>3 DEF HeardType
<1> HIDE DEF h
<1>5. tempo \in Tempos
  BY SequencerFields DEF TrackInv, SequencerType
<1>6. /\ s \in SequencerType /\ s.track = [id |-> id, index |-> 1, ticks |-> 0]
      /\ s.heard = h /\ s.elapsed = 0
  BY <1>2, <1>4, <1>5 DEF SequencerType, TrackType
<1> HIDE DEF s
<1>7. NextDue(cart, s) = [at |-> 0, index |-> 1]
  BY <1>1, <1>4, <1>6, ScheduleSteps DEF NextDue
<1>8. OnPlace(cart, s)
  BY <1>4, <1>6, <1>7 DEF OnPlace, NoTrack
<1>9. r \in SequencerType /\ Waits(cart, r) /\ SameTime(s, r)
  BY <1>1, <1>6, <1>8, ProcessTrackStep
<1> HIDE DEF r
<1>10. /\ r.elapsed = 0 /\ r.heard.at = now /\ r.heard.time = 0
       /\ r.heard.skipped = (now = 0) /\ ~r.heard.jumped
  BY <1>4, <1>6, <1>9 DEF SameTime
<1>11. Sequencer' = r
  <2>1. r = [track |-> r.track, tempo |-> r.tempo, elapsed |-> r.elapsed, heard |-> r.heard]
    BY <1>9 DEF SequencerType
  <2>2. QED  BY <1>1, <2>1 DEF Sequencer
<1>12. LittleLeft(r)
  <2>1. 0 < TickLength[tempo]
    BY <1>5, ClockAssumption
  <2>2. QED  BY <1>5, <1>10, <2>1 DEF LittleLeft
<1>13. TrackTimed'
  <2>1. /\ lastAudio' = now /\ Now' = now /\ heard'.at = now /\ heard'.time = 0 /\ elapsed' = 0
        /\ heard'.skipped = (now = 0) /\ now \in Nat
    BY <1>1, <1>2, <1>10 DEF now
  <2>2. PlayedTo' = now
    BY <2>1 DEF PlayedTo
  <2>3. LittleLeft(Sequencer')
    BY <1>11, <1>12
  <2>4. heard'.time + elapsed' = PlayedTo' - heard'.at /\ PlayedTo' - heard'.at = 0
    BY <2>1, <2>2
  <2>5. ~heard'.skipped => lastAudio' # 0
    BY <2>1
  <2>6. /\ lastAudio' <= Now' /\ heard'.time + elapsed' <= PlayedTo' - heard'.at
        /\ heard'.time + elapsed' = lastAudio' - heard'.at
    BY <2>1, <2>2
  <2>7. QED  BY <2>3, <2>5, <2>6 DEF TrackTimed
<1>14. cart' # "none"
  BY <1>1, ClockAssumption
<1>15. QED  BY <1>1, <1>9, <1>11, <1>13, <1>14 DEF TrackInv

(* The tempo is set. *)
LEMMA SetTempoStep ==
    ASSUME TrackInv, ClockTypes', NEW t \in Tempos, SetTempo(t)
    PROVE  TrackInv'
<1>1. UNCHANGED <<cart, track, elapsed, heard, lastAudio>> /\ tempo' = t /\ Now' = Now
  BY DEF SetTempo, Now
<1>2. Sequencer' = [track |-> track, tempo |-> t, elapsed |-> elapsed, heard |-> heard]
  BY <1>1 DEF Sequencer
<1>3. track \in TrackType /\ elapsed \in Nat /\ heard \in HeardType
  BY SequencerFields DEF TrackInv, SequencerType
<1>4. /\ Sequencer' \in SequencerType /\ Sequencer'.track = track /\ Sequencer'.heard = heard
      /\ Sequencer'.elapsed = elapsed
  BY <1>2, <1>3 DEF SequencerType
<1>5. NextDue(cart', Sequencer') = NextDue(cart, Sequencer)
  BY <1>1, <1>4, SequencerFields DEF NextDue
<1>6. Waits(cart', Sequencer')
  BY <1>1, <1>4, <1>5, SequencerFields DEF TrackInv, Waits, OnPlace
<1>7. track # NoTrack => LittleLeft(Sequencer')
  BY <1>4, SequencerFields DEF TrackInv, TrackTimed, LittleLeft
<1>8. PlayedTo' = PlayedTo
  BY <1>1 DEF PlayedTo
<1>9. TrackTimed'
  BY <1>1, <1>7, <1>8 DEF TrackInv, TrackTimed
<1>10. QED  BY <1>1, <1>4, <1>6, <1>9 DEF TrackInv

(* Every step keeps the track in its place. *)
LEMMA TrackStep ==
    ASSUME TrackInv, [Next]_vars
    PROVE  TrackInv'
<1>1. ClockStep \/ TrackCall \/ UNCHANGED clockVars
  BY ClockSteps
<1>2. ClockTypes'
  BY <1>1, ClockTypesStep DEF TrackInv
<1>3. ASSUME NEW c \in Carts, Load(c)
      PROVE  TrackInv'
  <2>1. Sequencer' \in SequencerType /\ Waits(cart', Sequencer') /\ TrackTimed'
    BY <1>3, SilentStep DEF Load, TrackInv
  <2>2. track' = NoTrack
    BY <1>3 DEF Load
  <2>3. QED  BY <1>2, <2>1, <2>2 DEF TrackInv
<1>4. CASE Stop \/ StopTrack
  <2>1. Sequencer' \in SequencerType /\ Waits(cart', Sequencer') /\ TrackTimed'
    BY <1>4, SilentStep DEF Stop, StopTrack, TrackInv
  <2>2. track' = NoTrack
    BY <1>4 DEF Stop, StopTrack
  <2>3. QED  BY <1>2, <2>1, <2>2 DEF TrackInv
<1>5. CASE Pause \/ \E md \in {"accurate", "optimal"} : SetPerformanceMode(md)
  BY <1>2, <1>5, PauseStep
<1>6. CASE FrameBegins
  BY <1>2, <1>6, FrameBeginsStep
<1>7. CASE WallPasses \/ InitReturns \/ FrameTraps \/ DebugFrameBegins \/ UNCHANGED clockVars
  <2>1. UNCHANGED <<cart, mode, lastAudio, trackVars>> /\ cycles' = cycles
    BY <1>7 DEF WallPasses, InitReturns, FrameTraps, DebugFrameBegins, CallReturns, clockVars, trackVars
  <2>2. wall' = wall \/ wall' = wall + 1
    BY <1>7 DEF WallPasses, InitReturns, FrameTraps, DebugFrameBegins, CallReturns, clockVars
  <2>3. cycles <= cycles' /\ wall <= wall'
    BY <2>1, <2>2 DEF TrackInv, ClockTypes
  <2>4. QED  BY <1>2, <2>1, <2>3, QuietStep
<1>8. ASSUME NEW n \in Costs, Execute(n)
      PROVE  TrackInv'
  <2>1. UNCHANGED <<cart, mode, lastAudio, trackVars>> /\ cycles <= cycles' /\ wall <= wall'
    BY <1>8, ClockAssumption DEF Execute, TrackInv, ClockTypes
  <2>2. QED  BY <1>2, <2>1, QuietStep
<1>9. CASE FrameEnds
  <2>1. UNCHANGED <<cart, mode, wall, lastAudio, trackVars>>
    BY <1>9 DEF FrameEnds, CallReturns
  <2>2. cycles <= cycles' /\ wall <= wall'
    BY <1>9, <2>1 DEF FrameEnds, PaceFrame, AdvanceTo, TrackInv, ClockTypes
  <2>3. QED  BY <1>2, <2>1, <2>2, QuietStep
<1>10. CASE TrackCall
  BY <1>2, <1>4, <1>10, PlayTrackStep, SetTempoStep DEF TrackCall
<1>11. QED  BY <1>1, <1>3, <1>4, <1>5, <1>6, <1>7, <1>8, <1>9, <1>10 DEF ClockStep

(* No track plays at first. *)
LEMMA TrackInit == Init => TrackInv
<1> SUFFICES ASSUME Init PROVE TrackInv
  OBVIOUS
<1>1. /\ track = NoTrack /\ tempo \in Tempos /\ elapsed = 0 /\ heard = StartHistory(0)
      /\ cart = "none"
  BY ClockAssumption DEF Init, ClockInit
<1>2. ClockTypes
  BY ClockAssumption DEF Init, ClockInit, ClockTypes
<1>3. StartHistory(0) \in HeardType /\ ~StartHistory(0).ended /\ NoTrack \in TrackType
  BY StartHistoryType DEF NoTrack, TrackType
<1>4. Sequencer \in SequencerType
  BY <1>1, <1>3 DEF Sequencer, SequencerType
<1>5. Waits(cart, Sequencer)
  BY <1>1, <1>3, SequencerFields DEF Waits, OnPlace
<1>6. QED  BY <1>1, <1>2, <1>4, <1>5 DEF TrackInv, TrackTimed

(* A track keeps its place in its events and its place in time, whatever its *)
(* events, the lengths of frames, changes of tempo and mode, jumps and       *)
(* pauses, for every cartridge; types are kept.                              *)
THEOREM TracksAreKept == Spec => []TracksKept
BY TrackInit, TrackStep, TrackInvIsKept, PTL DEF Spec

(* The guest's time never goes back but by a load or a change of the clock,  *)
(* and a frame leaves a track less than a tick of its time.                  *)
THEOREM TimeIsUsedUp == Spec => TimeUsedUp
<1>1. ASSUME TrackInv, TrackInv', [Next]_vars
      PROVE  [/\ ~LoadsCartridge /\ mode' = mode => Now' >= Now
              /\ FrameBegins /\ lastAudio # 0 /\ track' # NoTrack => elapsed' < TickLength[tempo']]_clockVars
  <2>1. ClockStep \/ TrackCall \/ UNCHANGED clockVars
    BY <1>1, ClockSteps
  <2>2. SUFFICES ASSUME ClockStep \/ TrackCall
                 PROVE  /\ ~LoadsCartridge /\ mode' = mode => Now' >= Now
                        /\ FrameBegins /\ lastAudio # 0 /\ track' # NoTrack => elapsed' < TickLength[tempo']
    BY <2>1
  <2>3. ASSUME ~LoadsCartridge, mode' = mode
        PROVE  Now' >= Now
    <3>1. cycles \in Nat /\ wall \in Nat /\ deadline \in Nat
      BY <1>1 DEF TrackInv, ClockTypes
    <3>2. cycles' \in Nat /\ wall' \in Nat
      BY <1>1 DEF TrackInv, ClockTypes
    <3>3. cycles <= cycles' /\ wall <= wall'
      BY <2>2, <2>3, <3>1, Forward
    <3>4. Now <= Now' /\ Now \in Nat /\ Now' \in Nat
      BY <2>3, <3>1, <3>2, <3>3, NowGrows, NowIsNat DEF Now
    <3>5. QED  BY <3>4
  <2>4. ASSUME FrameBegins, lastAudio # 0, track' # NoTrack
        PROVE  elapsed' < TickLength[tempo']
    BY <1>1, <2>4, FrameBeginsStep DEF TrackInv
  <2>5. QED  BY <2>3, <2>4
<1>2. QED  BY <1>1, TrackInit, TrackStep, PTL DEF Spec, TimeUsedUp
-----------------------------------------------------------------------------
(* The books of the broker: sums, counts and percentiles of a list. *)

(* The sums of the first numbers of a list, however many. *)
IsSum(g, s, n) == g = [i \in 0 .. n |-> IF i = 0 THEN 0 ELSE g[i - 1] + s[i]]
(* They exist, *)
LEMMA SumExists ==
    ASSUME NEW s \in Seq(Nat)
    PROVE  \A n \in 0 .. Len(s) : \E g \in [0 .. n -> Nat] : IsSum(g, s, n)
<1> DEFINE P(n) == \E g \in [0 .. n -> Nat] : IsSum(g, s, n)
           Good == {n \in Nat : P(n)}
           z == [i \in 0 .. 0 |-> 0]
<1>1. P(0)
  <2>1. z \in [0 .. 0 -> Nat] /\ IsSum(z, s, 0)
    BY DEF IsSum
  <2> HIDE DEF z
  <2>2. QED  BY <2>1
<1>2. ASSUME NEW n \in 0 .. Len(s) - 1, P(n)
      PROVE  P(n + 1)
  <2>1. PICK g \in [0 .. n -> Nat] : IsSum(g, s, n)
    BY <1>2
  <2> DEFINE h == [i \in 0 .. n + 1 |-> IF i = n + 1 THEN g[n] + s[n + 1] ELSE g[i]]
  <2>2. n \in 0 .. n /\ g[n] \in Nat /\ s[n + 1] \in Nat /\ n + 1 \in Nat
    OBVIOUS
  <2>3. h \in [0 .. n + 1 -> Nat]
    BY <2>2
  <2>4. \A i \in 0 .. n : g[i] = IF i = 0 THEN 0 ELSE g[i - 1] + s[i]
    BY <2>1 DEF IsSum
  <2>5. /\ \A i \in 0 .. n : h[i] = g[i]
        /\ h[n + 1] = g[n] + s[n + 1] /\ h = [i \in 0 .. n + 1 |-> h[i]]
    OBVIOUS
  <2> HIDE DEF h
  <2>6. ASSUME NEW i \in 0 .. n + 1
        PROVE  h[i] = IF i = 0 THEN 0 ELSE h[i - 1] + s[i]
    <3>1. CASE i \in 0 .. n
      <4>1. i # 0 => i - 1 \in 0 .. n
        BY <3>1
      <4>2. QED  BY <2>4, <2>5, <3>1, <4>1
    <3>2. CASE i = n + 1
      <4>1. i # 0 /\ i - 1 = n /\ n \in 0 .. n
        BY <3>2
      <4>2. QED  BY <2>5, <3>2, <4>1
    <3>3. QED  BY <3>1, <3>2
  <2>7. IsSum(h, s, n + 1)
    BY <2>5, <2>6 DEF IsSum
  <2>8. QED  BY <2>3, <2>7
<1> HIDE DEF P
<1>3. Len(s) \in Nat /\ 0 \in Good /\ \A n \in 0 .. Len(s) - 1 : n \in Good => n + 1 \in Good
  BY <1>1, <1>2
<1>4. \A n \in 0 .. Len(s) : n \in Good
  <2> HIDE DEF Good
  <2>1. QED  BY <1>3, IndTo
<1>5. QED  BY <1>4 DEF P

(* Lists that begin alike have the same sums as far as they do. *)
BothSum(g, h, s, t, k, n) ==
    IsSum(g, s, k) /\ IsSum(h, t, n) /\ k <= n /\ \A i \in 1 .. k : s[i] = t[i]
(* and agree. *)
LEMMA SumsAgree ==
    ASSUME NEW s, NEW t, NEW k \in Nat, NEW n \in Nat, NEW g, NEW h, BothSum(g, h, s, t, k, n)
    PROVE  g[k] = h[k]
<1> DEFINE Good == {i \in Nat : i <= k => g[i] = h[i]}
<1>1. k <= n /\ \A i \in 1 .. k : s[i] = t[i]
  BY DEF BothSum
<1>2. /\ \A i \in 0 .. k : g[i] = IF i = 0 THEN 0 ELSE g[i - 1] + s[i]
      /\ \A i \in 0 .. n : h[i] = IF i = 0 THEN 0 ELSE h[i - 1] + t[i]
  BY DEF BothSum, IsSum
<1>3. 0 \in Good /\ \A i \in 0 .. k - 1 : i \in Good => i + 1 \in Good
  <2>1. g[0] = 0 /\ h[0] = 0
    BY <1>2
  <2>2. ASSUME NEW i \in 0 .. k - 1, g[i] = h[i]
        PROVE  g[i + 1] = h[i + 1]
    <3>1. i + 1 \in 0 .. n /\ i + 1 \in 0 .. k /\ i + 1 # 0 /\ (i + 1) - 1 = i /\ i + 1 \in 1 .. k
      BY <1>1
    <3>2. g[i + 1] = g[i] + s[i + 1] /\ h[i + 1] = h[i] + t[i + 1]
      BY <1>2, <3>1
    <3>3. QED  BY <1>1, <2>2, <3>1, <3>2
  <2>3. QED  BY <2>1, <2>2
<1>4. \A i \in 0 .. k : i \in Good
  <2> HIDE DEF Good
  <2>1. QED  BY <1>3, IndTo
<1>5. QED  BY <1>4

(* So the sum of a list is the last of these. *)
LEMMA SumIs ==
    ASSUME NEW s \in Seq(Nat)
    PROVE  \E g \in [0 .. Len(s) -> Nat] : IsSum(g, s, Len(s)) /\ SumOf(s) = g[Len(s)]
<1> DEFINE n == Len(s)
           sum == CHOOSE g : IsSum(g, s, n)
<1>1. n \in Nat /\ n \in 0 .. n
  OBVIOUS
<1>2. PICK g \in [0 .. n -> Nat] : IsSum(g, s, n)
  BY <1>1, SumExists
<1>3. IsSum(sum, s, n)
  BY <1>2
<1>4. SumOf(s) = sum[n]
  BY DEF SumOf, IsSum
<1> HIDE DEF sum
<1>5. sum[n] = g[n]
  <2>1. BothSum(sum, g, s, s, n, n)
    BY <1>1, <1>2, <1>3 DEF BothSum
  <2>2. QED  BY <1>1, <2>1, SumsAgree
<1>6. QED  BY <1>2, <1>4, <1>5

(* It is a number, and nothing adds up to 0. *)
LEMMA SumType == \A s \in Seq(Nat) : SumOf(s) \in Nat
<1> SUFFICES ASSUME NEW s \in Seq(Nat) PROVE SumOf(s) \in Nat
  OBVIOUS
<1>1. Len(s) \in 0 .. Len(s)
  OBVIOUS
<1>2. QED  BY <1>1, SumIs
(* Nothing adds up to 0. *)
LEMMA SumEmpty == SumOf(<<>>) = 0
<1>1. <<>> \in Seq(Nat) /\ Len(<<>>) = 0
  OBVIOUS
<1>2. PICK g \in [0 .. 0 -> Nat] : IsSum(g, <<>>, 0) /\ SumOf(<<>>) = g[0]
  BY <1>1, SumIs
<1>3. QED  BY <1>2 DEF IsSum

(* The sum of a list is that of all but the last and the last. *)
Firsts(s, n) == [j \in 1 .. n |-> s[j]]
(* The sum, split. *)
LEMMA SumLast ==
    ASSUME NEW s \in Seq(Nat), NEW n \in Nat, Len(s) = n + 1
    PROVE  /\ Firsts(s, n) \in Seq(Nat) /\ Len(Firsts(s, n)) = n
           /\ SumOf(s) = SumOf(Firsts(s, n)) + s[n + 1]
<1> DEFINE t == Firsts(s, n)
<1>1. t \in Seq(Nat) /\ Len(t) = n /\ \A i \in 1 .. n : t[i] = s[i]
  BY DEF Firsts
<1> HIDE DEF t
<1>2. PICK g \in [0 .. n + 1 -> Nat] : IsSum(g, s, n + 1) /\ SumOf(s) = g[n + 1]
  BY SumIs
<1>3. PICK h \in [0 .. n -> Nat] : IsSum(h, t, n) /\ SumOf(t) = h[n]
  BY <1>1, SumIs
<1>4. h[n] = g[n]
  <2>1. BothSum(h, g, t, s, n, n + 1)
    BY <1>1, <1>2, <1>3 DEF BothSum
  <2>2. QED  BY <2>1, SumsAgree
<1>5. g[n + 1] = g[n] + s[n + 1]
  <2>1. n + 1 \in 0 .. n + 1 /\ n + 1 # 0 /\ (n + 1) - 1 = n
    OBVIOUS
  <2>2. QED  BY <1>2, <2>1 DEF IsSum
<1>6. QED  BY <1>1, <1>2, <1>3, <1>4, <1>5 DEF t

(* Of finitely many numbers one is the greatest. *)
HasGreatest(n) ==
    \A s \in [1 .. n + 1 -> Nat] : \E m \in 1 .. n + 1 : \A i \in 1 .. n + 1 : s[i] <= s[m]
(* By induction over their number. *)
LEMMA Greatest == \A n \in Nat : HasGreatest(n)
<1> DEFINE Good == {n \in Nat : HasGreatest(n)}
<1>1. HasGreatest(0)
  BY DEF HasGreatest
<1>2. ASSUME NEW n \in Nat, HasGreatest(n)
      PROVE  HasGreatest(n + 1)
  <2> SUFFICES ASSUME NEW s \in [1 .. (n + 1) + 1 -> Nat]
               PROVE  \E m \in 1 .. (n + 1) + 1 : \A i \in 1 .. (n + 1) + 1 : s[i] <= s[m]
    BY DEF HasGreatest
  <2> DEFINE t == [i \in 1 .. n + 1 |-> s[i]]
             e == (n + 1) + 1
  <2>1. t \in [1 .. n + 1 -> Nat]
    OBVIOUS
  <2>2. PICK m \in 1 .. n + 1 : \A i \in 1 .. n + 1 : t[i] <= t[m]
    BY <1>2, <2>1 DEF HasGreatest
  <2>3. \A i \in 1 .. n + 1 : s[i] <= s[m] /\ s[i] \in Nat
    BY <2>2
  <2>4. e \in 1 .. e /\ m \in 1 .. e /\ s[e] \in Nat /\ s[m] \in Nat
        /\ \A i \in 1 .. e : i = e \/ i \in 1 .. n + 1
    OBVIOUS
  <2> HIDE DEF t, e
  <2>5. CASE s[m] <= s[e]
    <3>1. \A i \in 1 .. e : s[i] <= s[e]
      BY <2>3, <2>4, <2>5
    <3>2. QED  BY <2>4, <3>1 DEF e
  <2>6. CASE s[e] <= s[m]
    <3>1. \A i \in 1 .. e : s[i] <= s[m]
      BY <2>3, <2>4, <2>6
    <3>2. QED  BY <2>4, <3>1 DEF e
  <2>7. s[m] <= s[e] \/ s[e] <= s[m]
    BY <2>4
  <2>8. QED  BY <2>5, <2>6, <2>7
<1>3. 0 \in Good /\ \A n \in Nat : n \in Good => n + 1 \in Good
  BY <1>1, <1>2
<1>4. Nat \subseteq Good
  <2> HIDE DEF Good
  <2>1. QED  BY <1>3, NatInd
<1>5. QED  BY <1>4

(* Every list of numbers has an order in which it ascends. *)
Orders(s, p, n) == \A i, j \in 1 .. n : i < j => s[p[i]] <= s[p[j]]
HasOrder(n) ==
    \A s \in [1 .. n -> Nat] : \E p \in Bijection(1 .. n, 1 .. n) : Orders(s, p, n)
(* What one order of a list is, spelled out. *)
LEMMA BijectionIs ==
    ASSUME NEW n \in Nat, NEW p
    PROVE  p \in Bijection(1 .. n, 1 .. n) <=>
              /\ p \in [1 .. n -> 1 .. n]
              /\ \A i, j \in 1 .. n : p[i] = p[j] => i = j
              /\ \A w \in 1 .. n : \E i \in 1 .. n : p[i] = w
BY DEF Bijection, Injection, Surjection, IsInjective

(* With the greatest put last, the others are in order by hypothesis. *)
LEMMA PutLast ==
    ASSUME NEW n \in Nat, HasOrder(n)
    PROVE  HasOrder(n + 1)
<1> DEFINE e == n + 1
<1>1. e \in Nat /\ e \in 1 .. e /\ \A i \in 1 .. n : i \in 1 .. e /\ i # e /\ i < e
  OBVIOUS
<1>2. \A i \in 1 .. e : i = e \/ i \in 1 .. n
  OBVIOUS
<1> SUFFICES ASSUME NEW s \in [1 .. e -> Nat]
             PROVE  \E p \in Bijection(1 .. e, 1 .. e) : Orders(s, p, e)
  BY DEF HasOrder
<1>3. PICK m \in 1 .. e : \A i \in 1 .. e : s[i] <= s[m]
  BY Greatest DEF HasGreatest
<1> DEFINE t == [i \in 1 .. n |-> IF i = m THEN s[e] ELSE s[i]]
<1>4. t \in [1 .. n -> Nat] /\ \A i \in 1 .. n : t[i] = IF i = m THEN s[e] ELSE s[i]
  OBVIOUS
<1> HIDE DEF t
<1>5. PICK q \in Bijection(1 .. n, 1 .. n) : Orders(t, q, n)
  BY <1>4 DEF HasOrder
<1>6. /\ q \in [1 .. n -> 1 .. n]
      /\ \A i, j \in 1 .. n : q[i] = q[j] => i = j
      /\ \A w \in 1 .. n : \E i \in 1 .. n : q[i] = w
  BY <1>5, BijectionIs
<1> DEFINE p == [i \in 1 .. e |-> IF i = e THEN m ELSE IF q[i] = m THEN e ELSE q[i]]
<1>7. /\ p[e] = m
      /\ \A i \in 1 .. n : p[i] = IF q[i] = m THEN e ELSE q[i]
  OBVIOUS
<1>8. p \in [1 .. e -> 1 .. e]
  BY <1>1, <1>2, <1>6
<1> HIDE DEF p, e
<1>9. ASSUME NEW i \in 1 .. e, NEW j \in 1 .. e, p[i] = p[j]
      PROVE  i = j
  <2>1. \A k \in 1 .. n : q[k] \in 1 .. n /\ q[k] # e
    BY <1>1, <1>6
  <2>2. \A k \in 1 .. n : p[k] # m
    BY <1>7, <2>1
  <2>3. CASE i \in 1 .. n /\ j \in 1 .. n
    <3>1. q[i] = q[j]
      BY <1>7, <1>9, <2>1, <2>3
    <3>2. QED  BY <1>6, <2>3, <3>1
  <2>4. QED  BY <1>2, <1>7, <1>9, <2>2, <2>3
<1>10. ASSUME NEW w \in 1 .. e
       PROVE  \E i \in 1 .. e : p[i] = w
  <2>1. CASE w = m
    BY <1>1, <1>7, <2>1
  <2>2. CASE w # m /\ w = e
    <3>1. m \in 1 .. n
      BY <1>2, <2>2
    <3>2. PICK i \in 1 .. n : q[i] = m
      BY <1>6, <3>1
    <3>3. QED  BY <1>1, <1>7, <2>2, <3>2
  <2>3. CASE w # m /\ w # e
    <3>1. PICK i \in 1 .. n : q[i] = w
      BY <1>2, <1>6, <2>3
    <3>2. QED  BY <1>1, <1>7, <2>3, <3>1
  <2>4. QED  BY <2>1, <2>2, <2>3
<1>11. p \in Bijection(1 .. e, 1 .. e)
  BY <1>1, <1>8, <1>9, <1>10, BijectionIs
<1>12. \A i \in 1 .. n : s[p[i]] = t[q[i]]
  <2>1. \A i \in 1 .. n : q[i] \in 1 .. n
    BY <1>6
  <2>2. QED  BY <1>4, <1>7, <2>1
<1>13. ASSUME NEW i \in 1 .. e, NEW j \in 1 .. e, i < j
       PROVE  s[p[i]] <= s[p[j]]
  <2>1. i \in 1 .. n
    BY <1>2, <1>13 DEF e
  <2>2. CASE j = e
    BY <1>3, <1>7, <1>8, <2>2
  <2>3. CASE j \in 1 .. n
    <3>1. t[q[i]] <= t[q[j]]
      BY <1>5, <1>13, <2>1, <2>3 DEF Orders
    <3>2. QED  BY <1>12, <2>1, <2>3, <3>1
  <2>4. QED  BY <1>2, <2>2, <2>3
<1>14. QED  BY <1>11, <1>13 DEF Orders

(* The greatest changes place with the last, and so on. *)
LEMMA AllHaveOrder == \A n \in Nat : HasOrder(n)
<1> DEFINE Good == {n \in Nat : HasOrder(n)}
<1>1. HasOrder(0)
  <2> SUFFICES ASSUME NEW s
               PROVE  \E p \in Bijection(1 .. 0, 1 .. 0) : Orders(s, p, 0)
    BY DEF HasOrder
  <2> DEFINE p == [i \in 1 .. 0 |-> i]
  <2>1. p \in [1 .. 0 -> 1 .. 0]
    OBVIOUS
  <2> HIDE DEF p
  <2>2. p \in Bijection(1 .. 0, 1 .. 0)
    <3>1. \A i \in 1 .. 0 : FALSE
      OBVIOUS
    <3>2. QED  BY <2>1, <3>1, BijectionIs
  <2>3. Orders(s, p, 0)
    BY DEF Orders
  <2>4. QED  BY <2>2, <2>3
<1>2. 0 \in Good /\ \A n \in Nat : n \in Good => n + 1 \in Good
  BY <1>1, PutLast
<1>3. Nat \subseteq Good
  <2> HIDE DEF Good
  <2>1. QED  BY <1>2, NatInd
<1>4. QED  BY <1>3

(* Samples in order: as many as before do not exceed any bound. *)
SortedOf(s, r) ==
    /\ r \in Seq(Nat) /\ Len(r) = Len(s)
    /\ \A i, j \in 1 .. Len(s) : i < j => r[i] <= r[j]
    /\ \A i \in 1 .. Len(s) : \E j \in 1 .. Len(s) : r[i] = s[j]
    /\ \A j \in 1 .. Len(s) : \E i \in 1 .. Len(s) : r[i] = s[j]
    /\ \A v \in Int : AtMost(s, v) = AtMost(r, v)
(* SortedUp is such a list. *)
LEMMA SortedIs ==
    ASSUME NEW s \in Seq(Nat)
    PROVE  SortedOf(s, SortedUp(s))
<1> DEFINE n == Len(s)
           q == CHOOSE p \in Bijection(1 .. n, 1 .. n) : Orders(s, p, n)
           r == SortedUp(s)
<1>1. n \in Nat /\ DOMAIN s = 1 .. n /\ s \in [1 .. n -> Nat]
  OBVIOUS
<1>2. q \in Bijection(1 .. n, 1 .. n) /\ Orders(s, q, n)
  <2>1. \E p \in Bijection(1 .. n, 1 .. n) : Orders(s, p, n)
    BY <1>1, AllHaveOrder DEF HasOrder
  <2>2. QED  BY <2>1
<1>3. r = [i \in 1 .. n |-> s[q[i]]]
  BY <1>1 DEF SortedUp, Orders
<1>4. Len(s) = n
  OBVIOUS
<1> HIDE DEF q, r, n
<1>5. /\ q \in [1 .. n -> 1 .. n]
      /\ \A i, j \in 1 .. n : q[i] = q[j] => i = j
      /\ \A w \in 1 .. n : \E i \in 1 .. n : q[i] = w
  BY <1>1, <1>2, BijectionIs
<1>6. r \in Seq(Nat) /\ Len(r) = n /\ \A i \in 1 .. n : r[i] = s[q[i]]
  BY <1>1, <1>3, <1>5
<1>7. \A i, j \in 1 .. n : i < j => r[i] <= r[j]
  BY <1>2, <1>6 DEF Orders
<1>8. \A i \in 1 .. n : q[i] \in 1 .. n
  BY <1>5
<1>9. /\ \A i \in 1 .. n : \E j \in 1 .. n : r[i] = s[j]
      /\ \A j \in 1 .. n : \E i \in 1 .. n : r[i] = s[j]
  <2>1. \A i \in 1 .. n : \E j \in 1 .. n : r[i] = s[j]
    BY <1>6, <1>8
  <2>2. ASSUME NEW j \in 1 .. n
        PROVE  \E i \in 1 .. n : r[i] = s[j]
    <3>1. PICK i \in 1 .. n : q[i] = j
      BY <1>5
    <3>2. QED  BY <1>6, <3>1
  <2>3. QED  BY <2>1, <2>2
<1>10. ASSUME NEW v \in Int
       PROVE  AtMost(s, v) = AtMost(r, v)
  <2> DEFINE A == {k \in 1 .. n : r[k] <= v}
             B == {k \in 1 .. n : s[k] <= v}
             f == [k \in A |-> q[k]]
  <2>1. f \in [A -> B] /\ (\A i, j \in A : f[i] = f[j] => i = j)
        /\ \A w \in B : \E i \in A : f[i] = w
    <3>1. f \in [A -> B]
      BY <1>6, <1>8
    <3>2. \A i, j \in A : f[i] = f[j] => i = j
      BY <1>5
    <3>3. ASSUME NEW w \in B
          PROVE  \E i \in A : f[i] = w
      <4>1. PICK i \in 1 .. n : q[i] = w
        BY <1>5
      <4>2. i \in A
        BY <1>6, <4>1
      <4>3. QED  BY <4>1, <4>2
    <3>4. QED  BY <3>1, <3>2, <3>3
  <2>2. IsFiniteSet(A)
    <3>1. IsFiniteSet(1 .. n)
      BY <1>1, FS_Interval
    <3>2. A \in SUBSET (1 .. n)
      OBVIOUS
    <3> HIDE DEF A
    <3>3. QED  BY <3>1, <3>2, FS_Subset
  <2>3. AtMost(s, v) = Cardinality(B) /\ AtMost(r, v) = Cardinality(A)
    BY <1>4, <1>1, <1>6 DEF AtMost
  <2> HIDE DEF A, B, f
  <2>4. f \in Bijection(A, B)
    BY <2>1 DEF Bijection, Injection, Surjection, IsInjective
  <2>5. Cardinality(B) = Cardinality(A)
    BY <2>2, <2>4, FS_Bijection DEF ExistsBijection
  <2>6. QED  BY <2>3, <2>5
<1>11. QED  BY <1>4, <1>6, <1>7, <1>9, <1>10 DEF SortedOf, r

(* How many samples do not exceed a bound, of a list that ascends to it. *)
LEMMA Counts ==
    ASSUME NEW r \in Seq(Nat), NEW v \in Int, NEW k \in 0 .. Len(r)
    PROVE  /\ AtMost(r, v) \in 0 .. Len(r)
           /\ (\A i \in 1 .. k : r[i] <= v) => AtMost(r, v) >= k
           /\ (\A i \in k + 1 .. Len(r) : r[i] > v) => AtMost(r, v) <= k
<1> DEFINE n == Len(r)
           A == {i \in 1 .. n : r[i] <= v}
<1>1. n \in Nat /\ k \in 0 .. n /\ DOMAIN r = 1 .. n /\ \A i \in 1 .. n : r[i] \in Nat
  OBVIOUS
<1>2. AtMost(r, v) = Cardinality(A) /\ A \subseteq 1 .. n
  BY <1>1 DEF AtMost
<1>3. IsFiniteSet(1 .. n) /\ Cardinality(1 .. n) = n /\ IsFiniteSet(1 .. k) /\ Cardinality(1 .. k) = k
  <2>1. \A m \in Nat : IsFiniteSet(1 .. m) /\ Cardinality(1 .. m) = m
    <3> SUFFICES ASSUME NEW m \in Nat PROVE IsFiniteSet(1 .. m) /\ Cardinality(1 .. m) = m
      OBVIOUS
    <3>1. 1 \in Int /\ m \in Int /\ (IF 1 > m THEN 0 ELSE (m - 1) + 1) = m
      OBVIOUS
    <3>2. QED  BY <3>1, FS_Interval
  <2>2. n \in Nat /\ k \in Nat
    OBVIOUS
  <2> HIDE DEF n
  <2>3. QED  BY <2>1, <2>2
<1>4. (\A i \in 1 .. k : r[i] <= v) => 1 .. k \subseteq A
  BY <1>1
<1>5. (\A i \in k + 1 .. n : r[i] > v) => A \subseteq 1 .. k
  <2> SUFFICES ASSUME \A i \in k + 1 .. n : r[i] > v, NEW i \in A
               PROVE  i \in 1 .. k
    OBVIOUS
  <2>1. i \in 1 .. n /\ r[i] <= v /\ r[i] \in Nat
    BY <1>1
  <2>2. ~(i \in k + 1 .. n)
    BY <2>1
  <2>3. QED  BY <1>1, <2>1, <2>2
<1>6. n = Len(r)
  OBVIOUS
<1> HIDE DEF A, n
<1>7. IsFiniteSet(A) /\ Cardinality(A) <= n /\ Cardinality(A) \in Nat
  BY <1>2, <1>3, FS_Subset, FS_CardinalityType
<1>8. (1 .. k \subseteq A) => k <= Cardinality(A)
  BY <1>3, <1>7, FS_Subset
<1>9. (A \subseteq 1 .. k) => Cardinality(A) <= k
  BY <1>3, FS_Subset
<1>10. QED  BY <1>1, <1>2, <1>4, <1>5, <1>6, <1>7, <1>8, <1>9

(* The rank of a percentile is the least that reaches its share. *)
Rank(n, q) == (n * q + 99) \div 100
IsRank(k, n, q) == k \in 1 .. n /\ k * 100 >= q * n /\ (k - 1) * 100 < q * n
(* The code's rounding up finds it. *)
LEMMA RankIs ==
    ASSUME NEW n \in Nat \ {0}, NEW q \in {50, 95, 99}
    PROVE  IsRank(Rank(n, q), n, q)
<1> USE DEF Rank, IsRank
<1>1. CASE q = 50
  BY <1>1
<1>2. CASE q = 95
  BY <1>2
<1>3. CASE q = 99
  BY <1>3
<1>4. QED  BY <1>1, <1>2, <1>3

(* The sample of that rank is the least that enough samples do not exceed. *)
LEMMA PercentileIs ==
    ASSUME NEW s \in Seq(SampleTotals), s # <<>>, NEW r, SortedOf(s, r), NEW q \in {50, 95, 99}
    PROVE  Percentile(r, q) \in SampleTotals /\ IsPercentile(s, Percentile(r, q), q)
<1> DEFINE n == Len(s)
           k == (n * q + 99) \div 100
           v == r[k]
<1>1. n \in Nat \ {0} /\ \A i \in 1 .. n : s[i] \in SampleTotals
  OBVIOUS
<1>2. k \in 1 .. n /\ k * 100 >= q * n /\ (k - 1) * 100 < q * n
  <2>1. k = Rank(n, q)
    BY DEF Rank
  <2> HIDE DEF k, n
  <2>2. IsRank(Rank(n, q), n, q)
    BY <1>1, RankIs
  <2>3. QED  BY <2>1, <2>2 DEF IsRank
<1>3. /\ r \in Seq(Nat) /\ Len(r) = n
      /\ \A i, j \in 1 .. n : i < j => r[i] <= r[j]
      /\ \A i \in 1 .. n : r[i] \in Nat /\ \E j \in 1 .. n : r[i] = s[j]
      /\ \A u \in Int : AtMost(s, u) = AtMost(r, u)
  <2>1. /\ r \in Seq(Nat) /\ Len(r) = n
        /\ \A i, j \in 1 .. n : i < j => r[i] <= r[j]
        /\ \A i \in 1 .. n : \E j \in 1 .. n : r[i] = s[j]
        /\ \A u \in Int : AtMost(s, u) = AtMost(r, u)
    BY DEF SortedOf
  <2>2. \A i \in 1 .. n : r[i] \in Nat
    <3> HIDE DEF n
    <3>1. QED  BY <2>1
  <2>3. QED  BY <2>1, <2>2
<1>4. Percentile(r, q) = v
  <2>1. Percentile(r, q) = r[IF k < n THEN k ELSE n]
    BY <1>3 DEF Percentile
  <2> HIDE DEF k, n
  <2>2. (IF k < n THEN k ELSE n) = k
    BY <1>1, <1>2
  <2>3. QED  BY <2>1, <2>2
<1>5. Len(s) = n /\ r[k] = v
  OBVIOUS
<1> HIDE DEF k, n, v
<1>6. v \in SampleTotals /\ v \in Nat
  BY <1>5, <1>1, <1>2, <1>3, BrokerAssumption
<1>7. AtMost(s, v) \in Nat /\ AtMost(s, v) >= k
  <2>1. \A i \in 1 .. k : r[i] <= v
    <3> SUFFICES ASSUME NEW i \in 1 .. k PROVE r[i] <= v
      OBVIOUS
    <3>1. i \in 1 .. n /\ (i < k \/ i = k)
      BY <1>1, <1>2
    <3>2. QED  BY <1>5, <1>2, <1>3, <1>6, <3>1
  <2>2. k \in 0 .. n
    BY <1>1, <1>2
  <2>3. AtMost(r, v) \in 0 .. n /\ AtMost(r, v) >= k
    <3>1. v \in Int
      BY <1>6
    <3>2. QED  BY <1>3, <2>1, <2>2, <3>1, Counts
  <2>4. AtMost(s, v) = AtMost(r, v)
    BY <1>3, <1>6
  <2>5. QED  BY <1>1, <2>3, <2>4
<1>8. ASSUME NEW u \in SampleTotals, u < v
      PROVE  AtMost(s, u) \in Nat /\ AtMost(s, u) <= k - 1
  <2>1. u \in Nat
    BY BrokerAssumption
  <2>2. \A i \in (k - 1) + 1 .. n : r[i] > u
    <3> SUFFICES ASSUME NEW i \in (k - 1) + 1 .. n
                 PROVE  r[i] > u
      OBVIOUS
    <3>1. i \in 1 .. n /\ k <= i
      BY <1>1, <1>2
    <3>2. v <= r[i] /\ r[i] \in Nat
      BY <1>5, <1>2, <1>3, <1>6, <3>1
    <3>3. QED  BY <1>6, <1>8, <2>1, <3>2
  <2>3. k - 1 \in 0 .. n
    BY <1>1, <1>2
  <2>4. AtMost(r, u) \in 0 .. n /\ AtMost(r, u) <= k - 1
    <3>1. u \in Int
      BY <2>1
    <3>2. QED  BY <1>3, <2>2, <2>3, <3>1, Counts
  <2>5. QED  BY <1>1, <1>3, <2>1, <2>4
<1>9. AtMost(s, v) * 100 >= q * n
  BY <1>1, <1>2, <1>7
<1>10. \A u \in SampleTotals : u < v => AtMost(s, u) * 100 < q * n
  BY <1>1, <1>2, <1>8
<1>11. QED  BY <1>5, <1>4, <1>6, <1>9, <1>10 DEF IsPercentile

(* A case, and the columns of a table of cases. *)
CaseRecord == [cap : 1 .. MaxFrames, samples : Seq(SampleTotals), total : Nat, missed : Nat,
               frames : Nat, first : Nat, min : Nat, max : Nat, mean : Nat,
               p50 : Nat, p95 : Nat, p99 : Nat]
FramesOf(cs) == [k \in 1 .. Len(cs) |-> cs[k].frames]
TotalsOf(cs) == [k \in 1 .. Len(cs) |-> cs[k].total]
MissedOf(cs) == [k \in 1 .. Len(cs) |-> cs[k].missed]

(* The columns are lists of numbers. *)
LEMMA Columns ==
    ASSUME NEW g \in Seq(CaseRecord)
    PROVE  /\ FramesOf(g) \in Seq(Nat) /\ Len(FramesOf(g)) = Len(g)
           /\ TotalsOf(g) \in Seq(Nat) /\ Len(TotalsOf(g)) = Len(g)
           /\ MissedOf(g) \in Seq(Nat) /\ Len(MissedOf(g)) = Len(g)
           /\ \A k \in 1 .. Len(g) : /\ FramesOf(g)[k] = g[k].frames
                                    /\ TotalsOf(g)[k] = g[k].total
                                    /\ MissedOf(g)[k] = g[k].missed
<1> DEFINE n == Len(g)
<1>1. n \in Nat /\ \A k \in 1 .. n : g[k] \in CaseRecord
  OBVIOUS
<1>2. \A c \in CaseRecord : c.frames \in Nat /\ c.total \in Nat /\ c.missed \in Nat
  BY DEF CaseRecord
<1>3. \A k \in 1 .. n : g[k].frames \in Nat /\ g[k].total \in Nat /\ g[k].missed \in Nat
  BY <1>1, <1>2
<1>4. /\ FramesOf(g) = [k \in 1 .. n |-> g[k].frames]
      /\ TotalsOf(g) = [k \in 1 .. n |-> g[k].total]
      /\ MissedOf(g) = [k \in 1 .. n |-> g[k].missed]
  BY DEF FramesOf, TotalsOf, MissedOf
<1>5. n = Len(g)
  OBVIOUS
<1> HIDE DEF n
<1>6. FramesOf(g) \in Seq(Nat) /\ Len(FramesOf(g)) = n /\ \A k \in 1 .. n : FramesOf(g)[k] = g[k].frames
  BY <1>1, <1>3, <1>4
<1>7. TotalsOf(g) \in Seq(Nat) /\ Len(TotalsOf(g)) = n /\ \A k \in 1 .. n : TotalsOf(g)[k] = g[k].total
  BY <1>1, <1>3, <1>4
<1>8. MissedOf(g) \in Seq(Nat) /\ Len(MissedOf(g)) = n /\ \A k \in 1 .. n : MissedOf(g)[k] = g[k].missed
  BY <1>1, <1>3, <1>4
<1>9. QED  BY <1>5, <1>6, <1>7, <1>8

(* A case that is added adds its numbers to the columns. *)
LEMMA ColumnsAppend ==
    ASSUME NEW g \in Seq(CaseRecord), NEW c \in CaseRecord
    PROVE  /\ SumOf(FramesOf(Append(g, c))) = SumOf(FramesOf(g)) + c.frames
           /\ SumOf(TotalsOf(Append(g, c))) = SumOf(TotalsOf(g)) + c.total
           /\ SumOf(MissedOf(Append(g, c))) = SumOf(MissedOf(g)) + c.missed
<1> DEFINE n == Len(g)
           a == Append(g, c)
<1>1. /\ n \in Nat /\ Len(a) = n + 1 /\ a[n + 1] = c
      /\ \A k \in 1 .. n : a[k] = g[k] /\ g[k] \in CaseRecord
      /\ \A k \in 1 .. n + 1 : k \in 1 .. n \/ k = n + 1
  OBVIOUS
<1>2. Len(g) = n
  OBVIOUS
<1> HIDE DEF n, a
<1>3. ASSUME NEW t \in Seq(Nat), NEW u \in Seq(Nat), Len(t) = n + 1, Len(u) = n,
             \A k \in 1 .. n : t[k] = u[k]
      PROVE  SumOf(t) = SumOf(u) + t[n + 1]
  <2>1. Firsts(t, n) \in Seq(Nat) /\ Len(Firsts(t, n)) = n /\ SumOf(t) = SumOf(Firsts(t, n)) + t[n + 1]
    BY <1>1, <1>3, SumLast
  <2>2. u = Firsts(t, n)
    <3>1. u = [j \in 1 .. n |-> u[j]]
      BY <1>3
    <3>2. QED  BY <1>3, <3>1 DEF Firsts
  <2>3. QED  BY <2>1, <2>2
<1>4. a \in Seq(CaseRecord)
  BY DEF a
<1>5. SumOf(FramesOf(a)) = SumOf(FramesOf(g)) + c.frames
  <2>1. /\ FramesOf(a) \in Seq(Nat) /\ Len(FramesOf(a)) = n + 1 /\ FramesOf(a)[n + 1] = c.frames
        /\ FramesOf(g) \in Seq(Nat) /\ Len(FramesOf(g)) = n
        /\ \A k \in 1 .. n : FramesOf(a)[k] = FramesOf(g)[k]
    <3>1. /\ FramesOf(a) \in Seq(Nat) /\ Len(FramesOf(a)) = Len(a)
          /\ \A k \in 1 .. Len(a) : FramesOf(a)[k] = a[k].frames
      BY <1>4, Columns
    <3>2. /\ FramesOf(g) \in Seq(Nat) /\ Len(FramesOf(g)) = Len(g)
          /\ \A k \in 1 .. Len(g) : FramesOf(g)[k] = g[k].frames
      BY Columns
    <3>3. n + 1 \in 1 .. n + 1 /\ \A k \in 1 .. n : k \in 1 .. n + 1
      BY <1>1
    <3>4. QED  BY <1>1, <1>2, <3>1, <3>2, <3>3
  <2>2. QED  BY <1>3, <2>1
<1>6. SumOf(TotalsOf(a)) = SumOf(TotalsOf(g)) + c.total
  <2>1. /\ TotalsOf(a) \in Seq(Nat) /\ Len(TotalsOf(a)) = n + 1 /\ TotalsOf(a)[n + 1] = c.total
        /\ TotalsOf(g) \in Seq(Nat) /\ Len(TotalsOf(g)) = n
        /\ \A k \in 1 .. n : TotalsOf(a)[k] = TotalsOf(g)[k]
    <3>1. /\ TotalsOf(a) \in Seq(Nat) /\ Len(TotalsOf(a)) = Len(a)
          /\ \A k \in 1 .. Len(a) : TotalsOf(a)[k] = a[k].total
      BY <1>4, Columns
    <3>2. /\ TotalsOf(g) \in Seq(Nat) /\ Len(TotalsOf(g)) = Len(g)
          /\ \A k \in 1 .. Len(g) : TotalsOf(g)[k] = g[k].total
      BY Columns
    <3>3. n + 1 \in 1 .. n + 1 /\ \A k \in 1 .. n : k \in 1 .. n + 1
      BY <1>1
    <3>4. QED  BY <1>1, <1>2, <3>1, <3>2, <3>3
  <2>2. QED  BY <1>3, <2>1
<1>7. SumOf(MissedOf(a)) = SumOf(MissedOf(g)) + c.missed
  <2>1. /\ MissedOf(a) \in Seq(Nat) /\ Len(MissedOf(a)) = n + 1 /\ MissedOf(a)[n + 1] = c.missed
        /\ MissedOf(g) \in Seq(Nat) /\ Len(MissedOf(g)) = n
        /\ \A k \in 1 .. n : MissedOf(a)[k] = MissedOf(g)[k]
    <3>1. /\ MissedOf(a) \in Seq(Nat) /\ Len(MissedOf(a)) = Len(a)
          /\ \A k \in 1 .. Len(a) : MissedOf(a)[k] = a[k].missed
      BY <1>4, Columns
    <3>2. /\ MissedOf(g) \in Seq(Nat) /\ Len(MissedOf(g)) = Len(g)
          /\ \A k \in 1 .. Len(g) : MissedOf(g)[k] = g[k].missed
      BY Columns
    <3>3. n + 1 \in 1 .. n + 1 /\ \A k \in 1 .. n : k \in 1 .. n + 1
      BY <1>1
    <3>4. QED  BY <1>1, <1>2, <3>1, <3>2, <3>3
  <2>2. QED  BY <1>3, <2>1
<1>8. QED  BY <1>5, <1>6, <1>7 DEF a

(* What a column adds up to is a number. *)
LEMMA ColumnTypes ==
    ASSUME NEW g \in Seq(CaseRecord)
    PROVE  /\ SumOf(FramesOf(g)) \in Nat
           /\ SumOf(TotalsOf(g)) \in Nat
           /\ SumOf(MissedOf(g)) \in Nat
BY Columns, SumType

(* The samples that were too long, one by one. *)
Late(s) == Cardinality({k \in DOMAIN s : s[k] > FrameLimit})
(* One sample more is late or not, and adds its time. *)
LEMMA LateAppend ==
    ASSUME NEW s \in Seq(Nat), NEW x \in Nat
    PROVE  /\ Late(s) \in Nat
           /\ Late(Append(s, x)) = Late(s) + IF x > FrameLimit THEN 1 ELSE 0
           /\ SumOf(Append(s, x)) = SumOf(s) + x
<1> DEFINE n == Len(s)
           a == Append(s, x)
           A == {k \in 1 .. n : s[k] > FrameLimit}
<1>1. /\ n \in Nat /\ DOMAIN s = 1 .. n /\ a \in Seq(Nat) /\ Len(a) = n + 1 /\ DOMAIN a = 1 .. n + 1
      /\ a[n + 1] = x
      /\ \A k \in 1 .. n : a[k] = s[k]
      /\ \A k \in 1 .. n + 1 : k \in 1 .. n \/ k = n + 1
      /\ s = [j \in 1 .. n |-> s[j]]
  OBVIOUS
<1> HIDE DEF n, a
<1>2. IsFiniteSet(A)
  <2>1. A \in SUBSET (1 .. n) /\ IsFiniteSet(1 .. n)
    <3>1. 1 \in Int /\ n \in Int
      BY <1>1
    <3>2. QED  BY <3>1, FS_Interval
  <2> HIDE DEF A
  <2>2. QED  BY <2>1, FS_Subset
<1>3. Late(s) = Cardinality(A) /\ Cardinality(A) \in Nat
  BY <1>1, <1>2, FS_CardinalityType DEF Late
<1>4. Late(a) = Cardinality(IF x > FrameLimit THEN A \cup {n + 1} ELSE A)
  <2>1. {k \in 1 .. n + 1 : a[k] > FrameLimit} = IF x > FrameLimit THEN A \cup {n + 1} ELSE A
    <3>1. CASE x > FrameLimit
      BY <1>1, <3>1
    <3>2. CASE ~(x > FrameLimit)
      BY <1>1, <3>2
    <3>3. QED  BY <3>1, <3>2
  <2>2. QED  BY <1>1, <2>1 DEF Late
<1>5. n + 1 \notin A
  BY <1>1
<1> HIDE DEF A
<1>6. Late(a) = Late(s) + IF x > FrameLimit THEN 1 ELSE 0
  <2>1. Cardinality(A \cup {n + 1}) = Cardinality(A) + 1
    BY <1>2, <1>5, FS_AddElement
  <2>2. CASE x > FrameLimit
    BY <1>3, <1>4, <2>1, <2>2
  <2>3. CASE ~(x > FrameLimit)
    BY <1>3, <1>4, <2>3
  <2>4. QED  BY <2>2, <2>3
<1>7. SumOf(a) = SumOf(s) + x
  <2>1. Firsts(a, n) = s
    BY <1>1 DEF Firsts
  <2>2. QED  BY <1>1, <2>1, SumLast
<1>8. QED  BY <1>3, <1>6, <1>7 DEF a
(* Without samples none is late. *)
LEMMA LateEmpty == Late(<<>>) = 0
<1>1. {k \in DOMAIN <<>> : <<>>[k] > FrameLimit} = {}
  OBVIOUS
<1>2. QED  BY <1>1, FS_EmptySet DEF Late

(* What the statistics of a case say of its samples. *)
Stats(c, s) ==
    /\ s \in Seq(SampleTotals) /\ Len(s) = c.frames
    /\ c.total = SumOf(s)
    /\ c.p50 \in SampleTotals /\ IsPercentile(s, c.p50, 50)
    /\ IsPercentile(s, c.p95, 95) /\ IsPercentile(s, c.p99, 99)
    /\ \A i \in 1 .. Len(s) : s[i] \in c.min .. c.max
    /\ \E i \in 1 .. Len(s) : s[i] = c.min
    /\ \E i \in 1 .. Len(s) : s[i] = c.max

(* Samples are numbers. *)
LEMMA SamplesAreNumbers == Seq(SampleTotals) \subseteq Seq(Nat)
<1> SUFFICES ASSUME NEW s \in Seq(SampleTotals) PROVE s \in Seq(Nat)
  OBVIOUS
<1>1. Len(s) \in Nat /\ \A i \in 1 .. Len(s) : s[i] \in Nat
  <2>1. Len(s) \in Nat /\ \A i \in 1 .. Len(s) : s[i] \in SampleTotals
    OBVIOUS
  <2>2. QED  BY <2>1, BrokerAssumption
<1>2. s = [i \in 1 .. Len(s) |-> s[i]]
  OBVIOUS
<1>3. QED  BY <1>1, <1>2

(* The statistics the code leaves of a case are those of its samples. *)
LEMMA FinishedIs ==
    ASSUME NEW c \in CaseRecord, c.samples # <<>>, c.total = SumOf(c.samples), NEW first \in Nat
    PROVE  LET d == Finished(c, first)
           IN  /\ d \in CaseRecord /\ d.samples = <<>> /\ d.first = first
               /\ d.cap = c.cap /\ d.total = c.total /\ d.missed = c.missed
               /\ d.frames = Len(c.samples) /\ d.frames > 0
               /\ Stats(d, c.samples)
<1> DEFINE s == c.samples
           r == SortedUp(s)
           n == Len(s)
           lo == r[1]
           hi == r[n]
           mean == c.total \div n
           p50 == Percentile(r, 50)
           p95 == Percentile(r, 95)
           p99 == Percentile(r, 99)
           d == Finished(c, first)
<1>1. s \in Seq(SampleTotals) /\ s \in Seq(Nat) /\ s # <<>>
  <2>1. s \in Seq(SampleTotals)
    BY DEF CaseRecord
  <2>2. QED  BY <2>1, SamplesAreNumbers
<1>2. n \in Nat /\ n > 0 /\ Len(s) = n
  <2> HIDE DEF s
  <2>1. QED  BY <1>1
<1>3. d = [c EXCEPT !.frames = n, !.first = first, !.min = lo, !.max = hi, !.mean = mean,
                    !.p50 = p50, !.p95 = p95, !.p99 = p99, !.samples = <<>>]
  BY DEF Finished
<1>4. SortedOf(s, r)
  BY <1>1, SortedIs
<1>5. c.total \in Nat /\ c.total = SumOf(s)
  BY DEF CaseRecord
<1>6. r[1] = lo /\ r[n] = hi /\ mean = c.total \div n
  OBVIOUS
<1> HIDE DEF s, r, n, lo, hi, mean
<1>7. /\ \A i \in 1 .. n : r[i] \in Nat /\ s[i] \in Nat
      /\ \A i, j \in 1 .. n : i < j => r[i] <= r[j]
      /\ \A i \in 1 .. n : \E j \in 1 .. n : r[i] = s[j]
      /\ \A j \in 1 .. n : \E i \in 1 .. n : r[i] = s[j]
  <2>1. s \in Seq(Nat) /\ r \in Seq(Nat) /\ Len(s) = n /\ Len(r) = n
    BY <1>1, <1>2, <1>4 DEF SortedOf
  <2>2. \A i \in 1 .. n : r[i] \in Nat /\ s[i] \in Nat
    BY <2>1
  <2>3. QED  BY <1>2, <1>4, <2>2 DEF SortedOf
<1>8. /\ p50 \in SampleTotals /\ IsPercentile(s, p50, 50)
      /\ p95 \in SampleTotals /\ IsPercentile(s, p95, 95)
      /\ p99 \in SampleTotals /\ IsPercentile(s, p99, 99)
  <2>1. \A q \in {50, 95, 99} : Percentile(r, q) \in SampleTotals /\ IsPercentile(s, Percentile(r, q), q)
    BY <1>1, <1>4, PercentileIs
  <2>2. QED  BY <2>1
<1> HIDE DEF p50, p95, p99
<1>9. lo \in Nat /\ hi \in Nat /\ mean \in Nat /\ p50 \in Nat /\ p95 \in Nat /\ p99 \in Nat
  <2>1. 1 \in 1 .. n /\ n \in 1 .. n
    BY <1>2
  <2>2. lo \in Nat /\ hi \in Nat
    BY <1>6, <1>7, <2>1
  <2>3. mean \in Nat
    <3>1. \A a \in Nat, b \in Nat : b > 0 => a \div b \in Nat
      OBVIOUS
    <3>2. QED  BY <1>2, <1>5, <1>6, <3>1
  <2>4. QED  BY <1>8, <2>2, <2>3, BrokerAssumption
<1>10. /\ \A i \in 1 .. n : s[i] \in lo .. hi
       /\ \E i \in 1 .. n : s[i] = lo
       /\ \E i \in 1 .. n : s[i] = hi
  <2>1. 1 \in 1 .. n /\ n \in 1 .. n
    BY <1>2
  <2>2. \A i \in 1 .. n : r[i] \in lo .. hi
    <3> SUFFICES ASSUME NEW i \in 1 .. n PROVE r[i] \in lo .. hi
      OBVIOUS
    <3>1. lo <= r[i]
      <4>1. CASE i = 1
        BY <1>6, <1>9, <4>1
      <4>2. CASE 1 < i
        BY <1>6, <1>7, <2>1, <4>2
      <4>3. QED  BY <1>2, <4>1, <4>2
    <3>2. r[i] <= hi
      <4>1. CASE i = n
        BY <1>6, <1>9, <4>1
      <4>2. CASE i < n
        BY <1>6, <1>7, <2>1, <4>2
      <4>3. QED  BY <1>2, <4>1, <4>2
    <3>3. r[i] \in Nat
      BY <1>7
    <3>4. QED  BY <1>9, <3>1, <3>2, <3>3
  <2>3. \A j \in 1 .. n : s[j] \in lo .. hi
    BY <1>7, <2>2
  <2>4. QED  BY <1>6, <1>7, <2>1, <2>3
<1>11. /\ d \in CaseRecord
       /\ d.samples = <<>> /\ d.first = first /\ d.cap = c.cap /\ d.total = c.total
       /\ d.missed = c.missed /\ d.frames = n /\ d.min = lo /\ d.max = hi
       /\ d.p50 = p50 /\ d.p95 = p95 /\ d.p99 = p99
  <2> HIDE DEF d
  <2>1. <<>> \in Seq(SampleTotals)
    OBVIOUS
  <2>2. QED  BY <1>2, <1>3, <1>9, <2>1 DEF CaseRecord
<1> HIDE DEF d
<1>12. Stats(d, s)
  BY <1>1, <1>2, <1>5, <1>8, <1>10, <1>11 DEF Stats
<1>13. QED  BY <1>2, <1>11, <1>12 DEF d, s, n

(* The books of a suite. *)
Open(cs) == IF cs = <<>> THEN <<>> ELSE cs[Len(cs)].samples
EndedCase(c, rep) ==
    /\ c.first + c.frames <= Len(rep)
    /\ Stats(c, SubSeq(rep, c.first + 1, c.first + c.frames))
InCase(i, c) == c.frames > 0 /\ i \in c.first + 1 .. c.first + c.frames
IsTail(s, rep) == Len(s) <= Len(rep) /\ \A j \in 1 .. Len(s) : s[j] = rep[(Len(rep) - Len(s)) + j]
OpenCase(c, rep) ==
    /\ c.total = SumOf(c.samples) /\ c.missed = Late(c.samples)
    /\ IsTail(c.samples, rep)
Books(cs, rep) ==
    /\ SumOf(FramesOf(cs)) + Len(Open(cs)) = Len(rep)
    /\ SumOf(TotalsOf(cs)) = SumOf(rep)
    /\ SumOf(MissedOf(cs)) = Late(rep)
Measured(cs, rep) ==
    /\ Books(cs, rep)
    /\ \A k \in 1 .. Len(cs) : cs[k].frames > 0 => EndedCase(cs[k], rep)
    /\ \A i \in 1 .. Len(rep) - Len(Open(cs)) : \E k \in 1 .. Len(cs) : InCase(i, cs[k])
    /\ cs # <<>> /\ cs[Len(cs)].frames = 0 => OpenCase(cs[Len(cs)], rep)

(* The open case is the last. *)
LEMMA OpenAppend ==
    ASSUME NEW g \in Seq(CaseRecord), NEW c
    PROVE  Open(Append(g, c)) = c.samples /\ Append(g, c)[Len(Append(g, c))] = c
           /\ Append(g, c) # <<>>
BY DEF Open

(* The books of a suite without cases. *)
LEMMA NothingMeasured == Measured(<<>>, <<>>)
<1>1. FramesOf(<<>>) = <<>> /\ TotalsOf(<<>>) = <<>> /\ MissedOf(<<>>) = <<>> /\ Open(<<>>) = <<>>
  BY DEF FramesOf, TotalsOf, MissedOf, Open
<1>2. Books(<<>>, <<>>)
  BY <1>1, SumEmpty, LateEmpty DEF Books
<1>3. QED  BY <1>1, <1>2 DEF Measured

(* A case that begins changes no sum. *)
LEMMA CaseBegins ==
    ASSUME NEW g \in Seq(CaseRecord), NEW rep \in Seq(SampleTotals), NEW c \in CaseRecord,
           Measured(g, rep), Open(g) = <<>>,
           c.samples = <<>>, c.total = 0, c.missed = 0, c.frames = 0
    PROVE  Measured(Append(g, c), rep)
<1> DEFINE a == Append(g, c)
           n == Len(g)
<1>1. /\ a \in Seq(CaseRecord) /\ Len(a) = n + 1 /\ n \in Nat /\ a[n + 1] = c
      /\ \A k \in 1 .. n : a[k] = g[k]
      /\ \A k \in 1 .. n + 1 : k \in 1 .. n \/ k = n + 1
  OBVIOUS
<1>2. Open(a) = <<>>
  BY OpenAppend
<1>3. Books(a, rep)
  <2>1. /\ SumOf(FramesOf(a)) = SumOf(FramesOf(g)) + 0
        /\ SumOf(TotalsOf(a)) = SumOf(TotalsOf(g)) + 0
        /\ SumOf(MissedOf(a)) = SumOf(MissedOf(g)) + 0
    BY ColumnsAppend
  <2>2. QED  BY <1>2, <2>1, ColumnTypes DEF Measured, Books
<1> HIDE DEF a
<1> HIDE DEF n
<1>4. ASSUME NEW k \in 1 .. Len(a), a[k].frames > 0
      PROVE  EndedCase(a[k], rep)
  <2>1. k \in 1 .. n /\ a[k] = g[k]
    BY <1>1, <1>4
  <2>2. QED  BY <1>4, <2>1 DEF Measured, n
<1>5. \A i \in 1 .. Len(rep) - Len(Open(a)) : \E k \in 1 .. Len(a) : InCase(i, a[k])
  <2>1. \A i \in 1 .. Len(rep) - Len(Open(a)) : \E k \in 1 .. n : InCase(i, g[k])
    BY <1>2 DEF Measured, n
  <2>2. \A k \in 1 .. n : k \in 1 .. Len(a) /\ a[k] = g[k]
    BY <1>1
  <2>3. QED  BY <2>1, <2>2
<1>6. OpenCase(c, rep)
  BY SumEmpty, LateEmpty DEF OpenCase, IsTail
<1>7. a[Len(a)] = c
  BY <1>1
<1>8. QED  BY <1>3, <1>4, <1>5, <1>6, <1>7 DEF Measured, a

(* More samples change nothing of a case that has ended. *)
LEMMA EndedStays ==
    ASSUME NEW c \in CaseRecord, NEW rep \in Seq(SampleTotals), NEW x \in SampleTotals,
           EndedCase(c, rep)
    PROVE  EndedCase(c, Append(rep, x))
<1> DEFINE e == Append(rep, x)
           lo == c.first + 1
           hi == c.first + c.frames
<1>1. lo \in Nat /\ hi \in Nat /\ lo >= 1 /\ hi <= Len(rep)
  BY DEF CaseRecord, EndedCase
<1>2. e \in Seq(SampleTotals) /\ Len(e) = Len(rep) + 1 /\ \A i \in 1 .. Len(rep) : e[i] = rep[i]
  OBVIOUS
<1>3. SubSeq(e, lo, hi) = SubSeq(rep, lo, hi)
  <2> HIDE DEF e, lo, hi
  <2>1. \A i \in lo .. hi : e[i] = rep[i]
    BY <1>1, <1>2
  <2>2. /\ SubSeq(e, lo, hi) = [i \in 1 .. IF lo <= hi THEN hi - lo + 1 ELSE 0 |-> e[i + lo - 1]]
        /\ SubSeq(rep, lo, hi) = [i \in 1 .. IF lo <= hi THEN hi - lo + 1 ELSE 0 |-> rep[i + lo - 1]]
    BY <1>1, <1>2
  <2>3. \A i \in 1 .. IF lo <= hi THEN hi - lo + 1 ELSE 0 : e[i + lo - 1] = rep[i + lo - 1]
    BY <1>1, <2>1
  <2>4. QED  BY <2>2, <2>3
<1>4. c.first + c.frames <= Len(e)
  <2>1. hi \in Nat /\ hi <= Len(rep) /\ Len(rep) \in Nat /\ Len(e) = Len(rep) + 1
    BY <1>1, <1>2
  <2>2. hi = c.first + c.frames
    OBVIOUS
  <2> HIDE DEF hi, e
  <2>3. QED  BY <2>1, <2>2
<1>5. Stats(c, SubSeq(e, lo, hi))
  BY <1>3 DEF EndedCase
<1>6. QED  BY <1>4, <1>5 DEF EndedCase

(* A sample goes to the open case and to the books alike. *)
LEMMA Sampled ==
    ASSUME NEW g \in Seq(CaseRecord), NEW c \in CaseRecord, NEW rep \in Seq(SampleTotals),
           NEW x \in SampleTotals, Measured(Append(g, c), rep), c.frames = 0
    PROVE  LET d == WithSample(c, x)
           IN  /\ d \in CaseRecord /\ d.cap = c.cap /\ d.frames = 0
               /\ d.samples = Append(c.samples, x)
               /\ Measured(Append(g, d), Append(rep, x))
<1> DEFINE a == Append(g, c)
           d == WithSample(c, x)
           b == Append(g, d)
           e == Append(rep, x)
           n == Len(g)
           overdue == IF x > FrameLimit THEN 1 ELSE 0
<1>1. x \in Nat /\ c.samples \in Seq(SampleTotals) /\ c.samples \in Seq(Nat) /\ rep \in Seq(Nat)
  <2>1. c.samples \in Seq(SampleTotals)
    BY DEF CaseRecord
  <2>2. QED  BY <2>1, SamplesAreNumbers, BrokerAssumption
<1>2. /\ d \in CaseRecord /\ d.cap = c.cap /\ d.frames = 0
      /\ d.samples = Append(c.samples, x) /\ d.total = c.total + x /\ d.missed = c.missed + overdue
  <2>1. Append(c.samples, x) \in Seq(SampleTotals) /\ overdue \in Nat
    BY <1>1
  <2> HIDE DEF overdue
  <2>2. d = [c EXCEPT !.samples = Append(c.samples, x), !.total = c.total + x,
                      !.missed = c.missed + overdue]
    BY DEF WithSample, overdue
  <2> HIDE DEF d
  <2>3. c.total + x \in Nat /\ c.missed + overdue \in Nat
    BY <1>1, <2>1 DEF CaseRecord
  <2>4. QED  BY <2>1, <2>2, <2>3 DEF CaseRecord
<1> HIDE DEF d, overdue
<1>3. /\ Len(a) = n + 1 /\ a[n + 1] = c /\ Len(b) = n + 1 /\ b[n + 1] = d /\ n \in Nat
      /\ \A k \in 1 .. n : a[k] = g[k] /\ b[k] = g[k] /\ g[k] \in CaseRecord
      /\ \A k \in 1 .. n + 1 : k \in 1 .. n \/ k = n + 1
      /\ a # <<>> /\ b # <<>>
  OBVIOUS
<1>4. Open(a) = c.samples /\ Open(b) = Append(c.samples, x)
  BY <1>2, OpenAppend
<1>5. e \in Seq(SampleTotals) /\ Len(e) = Len(rep) + 1 /\ Len(rep) \in Nat /\ e[Len(e)] = x
      /\ \A i \in 1 .. Len(rep) : e[i] = rep[i]
  OBVIOUS
<1>6. Len(Open(b)) = Len(Open(a)) + 1 /\ Len(Open(a)) \in Nat
  BY <1>1, <1>4
<1>7. OpenCase(c, rep)
  BY <1>3 DEF Measured
<1>8. Books(b, e)
  <2>1. /\ SumOf(FramesOf(b)) = SumOf(FramesOf(g)) + 0
        /\ SumOf(TotalsOf(b)) = SumOf(TotalsOf(g)) + (c.total + x)
        /\ SumOf(MissedOf(b)) = SumOf(MissedOf(g)) + (c.missed + overdue)
    BY <1>2, ColumnsAppend
  <2>2. /\ SumOf(FramesOf(a)) = SumOf(FramesOf(g)) + 0
        /\ SumOf(TotalsOf(a)) = SumOf(TotalsOf(g)) + c.total
        /\ SumOf(MissedOf(a)) = SumOf(MissedOf(g)) + c.missed
    BY ColumnsAppend
  <2>3. Late(e) = Late(rep) + overdue /\ SumOf(e) = SumOf(rep) + x /\ overdue \in Nat
    BY <1>1, LateAppend DEF overdue
  <2>4. SumOf(FramesOf(g)) \in Nat /\ SumOf(TotalsOf(g)) \in Nat /\ SumOf(MissedOf(g)) \in Nat
    BY ColumnTypes
  <2>5. c.total \in Nat /\ c.missed \in Nat
    BY DEF CaseRecord
  <2>6. /\ SumOf(FramesOf(a)) + Len(Open(a)) = Len(rep)
        /\ SumOf(TotalsOf(a)) = SumOf(rep)
        /\ SumOf(MissedOf(a)) = Late(rep)
    BY DEF Measured, Books
  <2> HIDE DEF a, b, e
  <2>7. SumOf(FramesOf(b)) + Len(Open(b)) = Len(e)
    BY <1>5, <1>6, <2>1, <2>2, <2>4, <2>6
  <2>8. SumOf(TotalsOf(b)) = SumOf(e)
    BY <1>1, <2>1, <2>2, <2>3, <2>4, <2>5, <2>6
  <2>9. SumOf(MissedOf(b)) = Late(e)
    BY <2>1, <2>2, <2>3, <2>4, <2>5, <2>6
  <2>10. QED  BY <2>7, <2>8, <2>9 DEF Books
<1>9. OpenCase(d, e)
  <2> DEFINE s == c.samples
             t == Append(s, x)
  <2>1. d.total = SumOf(t) /\ d.missed = Late(t)
    BY <1>1, <1>2, <1>7, LateAppend DEF OpenCase, overdue
  <2>2. /\ Len(s) <= Len(rep) /\ Len(s) \in Nat
        /\ \A j \in 1 .. Len(s) : s[j] = rep[(Len(rep) - Len(s)) + j]
    <3>1. Len(s) \in Nat
      BY <1>1
    <3>2. QED  BY <1>7, <3>1 DEF OpenCase, IsTail
  <2>3. Len(t) = Len(s) + 1 /\ t[Len(s) + 1] = x /\ \A j \in 1 .. Len(s) : t[j] = s[j]
    BY <1>1
  <2> HIDE DEF s, t, e
  <2>4. ASSUME NEW j \in 1 .. Len(t)
        PROVE  t[j] = e[(Len(e) - Len(t)) + j]
    <3>1. (Len(e) - Len(t)) + j = (Len(rep) - Len(s)) + j
      BY <1>5, <2>2, <2>3
    <3>2. CASE j \in 1 .. Len(s)
      <4>1. (Len(rep) - Len(s)) + j \in 1 .. Len(rep)
        BY <1>5, <2>2, <3>2
      <4>2. QED  BY <1>5, <2>2, <2>3, <3>1, <3>2, <4>1
    <3>3. CASE j = Len(s) + 1
      <4>1. (Len(rep) - Len(s)) + j = Len(e)
        BY <1>5, <2>2, <3>3
      <4>2. QED  BY <1>5, <2>3, <3>1, <3>3, <4>1
    <3>4. QED  BY <2>2, <2>3, <3>2, <3>3
  <2>5. Len(t) <= Len(e)
    BY <1>5, <2>2, <2>3
  <2>6. IsTail(t, e) /\ t = d.samples
    BY <1>2, <2>4, <2>5 DEF IsTail, t, s
  <2>7. QED  BY <2>1, <2>6 DEF OpenCase
<1>10. ASSUME NEW k \in 1 .. Len(b), b[k].frames > 0
       PROVE  EndedCase(b[k], e)
  <2>1. k \in 1 .. n
    BY <1>2, <1>3, <1>10
  <2>2. EndedCase(g[k], rep)
    <3>1. k \in 1 .. Len(a) /\ a[k] = g[k] /\ b[k] = g[k]
      BY <1>3, <2>1
    <3>2. Measured(a, rep)
      OBVIOUS
    <3> HIDE DEF a, b
    <3>3. QED  BY <1>10, <3>1, <3>2 DEF Measured
  <2>3. QED  BY <1>3, <2>1, <2>2, EndedStays
<1>11. ASSUME NEW i \in 1 .. Len(e) - Len(Open(b))
       PROVE  \E k \in 1 .. Len(b) : InCase(i, b[k])
  <2>1. i \in 1 .. Len(rep) - Len(Open(a))
    BY <1>5, <1>6
  <2>2. PICK k \in 1 .. Len(a) : InCase(i, a[k])
    BY <2>1 DEF Measured
  <2>3. k \in 1 .. n
    BY <1>3, <2>2 DEF InCase
  <2>4. k \in 1 .. Len(b) /\ b[k] = a[k]
    BY <1>3, <2>3
  <2> HIDE DEF a, b
  <2>5. QED  BY <2>2, <2>4
<1>12. Measured(b, e)
  <2>1. b[Len(b)] = d
    BY <1>3
  <2> HIDE DEF b, e
  <2>2. QED  BY <1>8, <1>9, <1>10, <1>11, <2>1 DEF Measured
<1>13. QED  BY <1>2, <1>12 DEF d

(* A case that ends begins where the frames of the earlier ones end. *)
LEMMA CaseEnded ==
    ASSUME NEW g \in Seq(CaseRecord), NEW c \in CaseRecord, NEW rep \in Seq(SampleTotals),
           Measured(Append(g, c), rep), c.frames = 0, c.samples # <<>>
    PROVE  LET d == Finished(c, SumOf(FramesOf(g)))
           IN  /\ d \in CaseRecord /\ d.cap = c.cap /\ d.frames > 0 /\ d.samples = <<>>
               /\ Measured(Append(g, d), rep)
<1> DEFINE a == Append(g, c)
           first == SumOf(FramesOf(g))
           d == Finished(c, first)
           b == Append(g, d)
           n == Len(g)
           s == c.samples
<1>1. s \in Seq(SampleTotals) /\ Len(s) \in Nat /\ first \in Nat /\ Len(rep) \in Nat
  <2>1. s \in Seq(SampleTotals)
    BY DEF CaseRecord
  <2> HIDE DEF s
  <2>2. QED  BY <2>1, ColumnTypes
<1>2. /\ Len(a) = n + 1 /\ a[n + 1] = c /\ Len(b) = n + 1 /\ b[n + 1] = d /\ n \in Nat
      /\ \A k \in 1 .. n : a[k] = g[k] /\ b[k] = g[k]
      /\ \A k \in 1 .. n + 1 : k \in 1 .. n \/ k = n + 1
      /\ a # <<>> /\ b # <<>>
  <2> HIDE DEF d
  <2>1. QED  OBVIOUS
<1>3. OpenCase(c, rep)
  BY <1>2 DEF Measured
<1>4. /\ d \in CaseRecord /\ d.samples = <<>> /\ d.first = first /\ d.cap = c.cap
      /\ d.total = c.total /\ d.missed = c.missed /\ d.frames = Len(s) /\ d.frames > 0
      /\ Stats(d, s)
  BY <1>1, <1>3, FinishedIs DEF OpenCase
<1> HIDE DEF d, first
<1>5. Open(a) = s /\ Open(b) = <<>>
  BY <1>4, OpenAppend
<1>6. /\ SumOf(FramesOf(a)) + Len(Open(a)) = Len(rep)
      /\ SumOf(TotalsOf(a)) = SumOf(rep)
      /\ SumOf(MissedOf(a)) = Late(rep)
  BY DEF Measured, Books
<1>7. /\ SumOf(FramesOf(a)) = first + 0
      /\ SumOf(TotalsOf(a)) = SumOf(TotalsOf(g)) + c.total
      /\ SumOf(MissedOf(a)) = SumOf(MissedOf(g)) + c.missed
  BY ColumnsAppend DEF first
<1>8. /\ SumOf(FramesOf(b)) = first + Len(s)
      /\ SumOf(TotalsOf(b)) = SumOf(TotalsOf(g)) + c.total
      /\ SumOf(MissedOf(b)) = SumOf(MissedOf(g)) + c.missed
  BY <1>4, ColumnsAppend DEF first
<1>9. Measured(a, rep)
  OBVIOUS
<1>10. Len(s) <= Len(rep) /\ \A j \in 1 .. Len(s) : s[j] = rep[(Len(rep) - Len(s)) + j]
  BY <1>3 DEF OpenCase, IsTail
<1> HIDE DEF a, b, n, s
<1>11. first + Len(s) = Len(rep) /\ Len(rep) - Len(s) = first
  BY <1>1, <1>5, <1>6, <1>7
<1>12. Books(b, rep)
  <2>1. Len(<<>>) = 0
    OBVIOUS
  <2>2. QED  BY <1>1, <1>5, <1>6, <1>7, <1>8, <1>11, <2>1 DEF Books
<1>13. EndedCase(d, rep)
  <2>1. SubSeq(rep, first + 1, first + Len(s)) = s
    <3>1. first + 1 \in Nat /\ first + 1 >= 1 /\ first + Len(s) \in Nat /\ first + 1 <= (first + Len(s)) + 1
          /\ (first + Len(s)) - (first + 1) + 1 = Len(s)
      BY <1>1
    <3>2. SubSeq(rep, first + 1, first + Len(s)) = [i \in 1 .. Len(s) |-> rep[first + i]]
      <4>1. SubSeq(rep, first + 1, first + Len(s))
              = [i \in 1 .. Len(s) |-> rep[i + (first + 1) - 1]]
        BY <1>1, <1>11
      <4>2. \A i \in 1 .. Len(s) : i + (first + 1) - 1 = first + i
        BY <1>1
      <4>3. QED  BY <4>1, <4>2
    <3>3. \A i \in 1 .. Len(s) : rep[first + i] = s[i]
      BY <1>10, <1>11
    <3>4. s = [i \in 1 .. Len(s) |-> s[i]]
      BY <1>1
    <3>5. QED  BY <3>2, <3>3, <3>4
  <2>2. d.first + d.frames = first + Len(s) /\ d.first + 1 = first + 1
    BY <1>4
  <2>3. first + Len(s) <= Len(rep)
    BY <1>1, <1>11
  <2>4. QED  BY <1>4, <2>1, <2>2, <2>3 DEF EndedCase
<1>14. ASSUME NEW k \in 1 .. Len(b), b[k].frames > 0
       PROVE  EndedCase(b[k], rep)
  <2>1. CASE k \in 1 .. n
    <3>1. k \in 1 .. Len(a) /\ a[k] = b[k]
      BY <1>2, <2>1
    <3>2. QED  BY <1>9, <1>14, <3>1 DEF Measured
  <2>2. CASE k = n + 1
    BY <1>2, <1>13, <2>2
  <2>3. QED  BY <1>2, <2>1, <2>2
<1>15. ASSUME NEW i \in 1 .. Len(rep) - Len(Open(b))
       PROVE  \E k \in 1 .. Len(b) : InCase(i, b[k])
  <2>1. i \in 1 .. Len(rep)
    <3>1. Len(<<>>) = 0
      OBVIOUS
    <3>2. QED  BY <1>1, <1>5, <3>1
  <2>2. CASE i <= first
    <3>1. i \in 1 .. Len(rep) - Len(Open(a))
      BY <1>1, <1>5, <1>11, <2>1, <2>2
    <3>2. PICK k \in 1 .. Len(a) : InCase(i, a[k])
      BY <1>9, <3>1 DEF Measured
    <3>3. k \in 1 .. n
      BY <1>2, <3>2 DEF InCase
    <3>4. k \in 1 .. Len(b) /\ b[k] = a[k]
      BY <1>2, <3>3
    <3>5. QED  BY <3>2, <3>4
  <2>3. CASE i > first
    <3>1. InCase(i, d)
      BY <1>1, <1>4, <1>11, <2>1, <2>3 DEF InCase
    <3>2. n + 1 \in 1 .. Len(b)
      BY <1>2
    <3>3. QED  BY <1>2, <3>1, <3>2
  <2>4. QED  BY <1>1, <2>1, <2>2, <2>3
<1>16. Measured(b, rep)
  <2>1. b[Len(b)].frames # 0
    BY <1>1, <1>2, <1>4
  <2>2. QED  BY <1>12, <1>14, <1>15, <2>1 DEF Measured
<1>17. QED  BY <1>4, <1>16 DEF b, d, first

(* A case without samples leaves no trace. *)
LEMMA CaseDropped ==
    ASSUME NEW g \in Seq(CaseRecord), NEW c \in CaseRecord, NEW rep \in Seq(SampleTotals),
           Measured(Append(g, c), rep), c.frames = 0, c.samples = <<>>,
           g # <<>> => g[Len(g)].frames > 0 /\ g[Len(g)].samples = <<>>
    PROVE  Measured(g, rep)
<1> DEFINE a == Append(g, c)
           n == Len(g)
<1>1. /\ Len(a) = n + 1 /\ a[n + 1] = c /\ n \in Nat /\ n = Len(g)
      /\ \A k \in 1 .. n : a[k] = g[k]
      /\ \A k \in 1 .. n + 1 : k \in 1 .. n \/ k = n + 1
      /\ a # <<>>
  <2>1. Len(a) = n + 1 /\ a[n + 1] = c /\ n \in Nat /\ n = Len(g) /\ a # <<>>
    OBVIOUS
  <2>2. \A k \in 1 .. n : a[k] = g[k]
    OBVIOUS
  <2>3. \A k \in 1 .. n + 1 : k \in 1 .. n \/ k = n + 1
    OBVIOUS
  <2>4. QED  BY <2>1, <2>2, <2>3
<1>2. OpenCase(c, rep)
  BY <1>1 DEF Measured
<1>3. c.total = 0 /\ c.missed = 0
  BY <1>2, SumEmpty, LateEmpty DEF OpenCase
<1>4. Open(a) = <<>> /\ Open(g) = <<>>
  BY OpenAppend DEF Open
<1>5. Books(a, rep) /\ Measured(a, rep)
  BY DEF Measured
<1>6. Books(g, rep)
  <2>1. /\ SumOf(FramesOf(a)) = SumOf(FramesOf(g)) + 0
        /\ SumOf(TotalsOf(a)) = SumOf(TotalsOf(g)) + 0
        /\ SumOf(MissedOf(a)) = SumOf(MissedOf(g)) + 0
    BY <1>3, ColumnsAppend
  <2>2. SumOf(FramesOf(g)) \in Nat /\ SumOf(TotalsOf(g)) \in Nat /\ SumOf(MissedOf(g)) \in Nat
    BY ColumnTypes
  <2> HIDE DEF a
  <2>3. QED  BY <1>4, <1>5, <2>1, <2>2 DEF Books
<1> HIDE DEF a, n
<1>7. ASSUME NEW k \in 1 .. Len(g), g[k].frames > 0
      PROVE  EndedCase(g[k], rep)
  <2>1. k \in 1 .. Len(a) /\ a[k] = g[k]
    BY <1>1
  <2>2. QED  BY <1>5, <1>7, <2>1 DEF Measured
<1>8. ASSUME NEW i \in 1 .. Len(rep) - Len(Open(g))
      PROVE  \E k \in 1 .. Len(g) : InCase(i, g[k])
  <2>1. PICK k \in 1 .. Len(a) : InCase(i, a[k])
    BY <1>4, <1>5 DEF Measured
  <2>2. k \in 1 .. n
    BY <1>1, <2>1 DEF InCase
  <2>3. QED  BY <1>1, <2>1, <2>2
<1>9. g # <<>> => g[Len(g)].frames # 0
  OBVIOUS
<1>10. QED  BY <1>6, <1>7, <1>8, <1>9 DEF Measured

(* A list of cases is all but the last, and the last. *)
LEMMA SplitLast ==
    ASSUME NEW cs \in Seq(CaseRecord), NEW n, n = Len(cs), n # 0
    PROVE  /\ Front(cs) \in Seq(CaseRecord) /\ Len(Front(cs)) = n - 1 /\ cs[n] \in CaseRecord
           /\ cs = Append(Front(cs), cs[n])
           /\ \A d \in CaseRecord : [cs EXCEPT ![n] = d] = Append(Front(cs), d)
           /\ \A k \in 1 .. n - 1 : Front(cs)[k] = cs[k]
           /\ FirstFrame(cs, n) = SumOf(FramesOf(Front(cs)))
<1> DEFINE g == Front(cs)
<1>1. n \in Nat \ {0} /\ n \in 1 .. n /\ \A k \in 1 .. n : cs[k] \in CaseRecord
  OBVIOUS
<1>2. g = [k \in 1 .. n - 1 |-> cs[k]]
  <2>1. g = SubSeq(cs, 1, n - 1)
    BY DEF Front
  <2>2. QED  BY <1>1, <2>1
<1>3. g \in Seq(CaseRecord) /\ Len(g) = n - 1 /\ \A k \in 1 .. n - 1 : g[k] = cs[k]
  <2>1. n - 1 \in Nat /\ \A k \in 1 .. n - 1 : k \in 1 .. n
    BY <1>1
  <2> HIDE DEF g
  <2>2. QED  BY <1>1, <1>2, <2>1
<1> HIDE DEF g
<1>4. ASSUME NEW d \in CaseRecord
      PROVE  [cs EXCEPT ![n] = d] = Append(g, d)
  <2> DEFINE e == [cs EXCEPT ![n] = d]
             a == Append(g, d)
  <2>1. cs \in [1 .. n -> CaseRecord]
    OBVIOUS
  <2>2. e \in [1 .. n -> CaseRecord] /\ \A k \in 1 .. n : e[k] = IF k = n THEN d ELSE cs[k]
    <3> HIDE DEF g
    <3>1. QED  BY <2>1
  <2>3. a \in Seq(CaseRecord) /\ Len(a) = (n - 1) + 1 /\ a[(n - 1) + 1] = d
        /\ \A k \in 1 .. n - 1 : a[k] = g[k]
    BY <1>1, <1>3
  <2>4. (n - 1) + 1 = n /\ \A k \in 1 .. n : k = n \/ k \in 1 .. n - 1
    BY <1>1
  <2> HIDE DEF e, a
  <2>5. e = a
    <3>1. a \in [1 .. n -> CaseRecord]
      BY <2>3, <2>4
    <3>2. \A k \in 1 .. n : e[k] = a[k]
      <4>1. \A k \in 1 .. n - 1 : k # n
        BY <1>1
      <4>2. QED  BY <1>3, <2>2, <2>3, <2>4, <4>1
    <3>3. QED  BY <2>2, <3>1, <3>2
  <2>6. QED  BY <2>5 DEF e, a
<1>5. cs = Append(g, cs[n])
  <2>1. [cs EXCEPT ![n] = cs[n]] = cs
    OBVIOUS
  <2>2. QED  BY <1>1, <1>4, <2>1
<1>6. FirstFrame(cs, n) = SumOf(FramesOf(g))
  <2>1. [j \in 1 .. n - 1 |-> cs[j].frames] = FramesOf(g)
    BY <1>3 DEF FramesOf
  <2>2. QED  BY <2>1 DEF FirstFrame
<1>7. QED  BY <1>1, <1>3, <1>4, <1>5, <1>6 DEF g

(* The suite, its open case and the samples it has accepted. *)
SuiteType ==
    /\ perf \in [state : 0 .. 3, sequence : 0 .. MaxSequence, cases : Seq(CaseRecord),
                 started : Nat, ended : Nat]
    /\ Len(perf.cases) <= MaxCases
    /\ \A k \in 1 .. Len(perf.cases) : Len(perf.cases[k].samples) <= perf.cases[k].cap
    /\ active \in 0 .. MaxCases /\ reported \in Seq(SampleTotals)
SuiteInv ==
    /\ SuiteType
    /\ active # 0 => perf.cases[active].frames = 0
    /\ Measured(perf.cases, reported)

(* A new suite, or none. *)
LEMMA FreshSuite ==
    ASSUME perf'.state \in 0 .. 3, perf'.sequence \in 0 .. MaxSequence, perf'.cases = <<>>,
           perf'.started \in Nat, perf'.ended \in Nat, active' = 0, reported' = <<>>,
           perf' = [state |-> perf'.state, sequence |-> perf'.sequence, cases |-> perf'.cases,
                    started |-> perf'.started, ended |-> perf'.ended]
    PROVE  SuiteInv'
<1>1. <<>> \in Seq(CaseRecord) /\ Len(<<>>) = 0 /\ <<>> \in Seq(SampleTotals)
  OBVIOUS
<1>2. perf' \in [state : 0 .. 3, sequence : 0 .. MaxSequence, cases : Seq(CaseRecord),
                 started : Nat, ended : Nat]
  BY <1>1
<1>3. Len(perf'.cases) <= MaxCases /\ active' \in 0 .. MaxCases /\ reported' \in Seq(SampleTotals)
      /\ \A k \in 1 .. Len(perf'.cases) : FALSE
  BY <1>1, BrokerAssumption
<1>4. SuiteType'
  BY <1>2, <1>3 DEF SuiteType
<1>5. QED  BY <1>4, NothingMeasured DEF SuiteInv

(* Every call keeps the books. *)
LEMMA MeasuredCall ==
    ASSUME SuiteInv, OneCaseOpen, OneCaseOpen', NEW now \in Nat, BrokerCall(now)
    PROVE  SuiteInv'
<1> DEFINE cs == perf.cases
           n == Len(cs)
           P(k) == Len(cs[k].samples) <= cs[k].cap
<1>1. /\ perf \in [state : 0 .. 3, sequence : 0 .. MaxSequence, cases : Seq(CaseRecord),
                   started : Nat, ended : Nat]
      /\ cs \in Seq(CaseRecord) /\ n \in Nat /\ n <= MaxCases /\ DOMAIN cs = 1 .. n
      /\ \A k \in 1 .. n : Len(cs[k].samples) <= cs[k].cap
      /\ active \in 0 .. MaxCases /\ reported \in Seq(SampleTotals)
  <2>1. /\ perf \in [state : 0 .. 3, sequence : 0 .. MaxSequence, cases : Seq(CaseRecord),
                     started : Nat, ended : Nat]
        /\ n <= MaxCases
        /\ \A k \in 1 .. n : Len(cs[k].samples) <= cs[k].cap
        /\ active \in 0 .. MaxCases /\ reported \in Seq(SampleTotals)
    BY DEF SuiteInv, SuiteType
  <2>2. cs \in Seq(CaseRecord)
    BY <2>1
  <2>3. QED  BY <2>1, <2>2
<1>2. Measured(cs, reported)
  BY DEF SuiteInv
<1>3. active # 0 => perf.state = 1 /\ active = n /\ cs[active].frames = 0
  BY DEF OneCaseOpen, SuiteInv
<1>4. \A k \in 1 .. n : perf.state # 3 /\ k # active => cs[k].frames > 0 /\ cs[k].samples = <<>>
  BY <1>1 DEF OneCaseOpen
<1>5. CASE SuiteBegin(now)
  <2>1. /\ perf.sequence < MaxSequence /\ active' = 0 /\ reported' = <<>>
        /\ perf' = [state |-> 1, sequence |-> perf.sequence + 1, cases |-> <<>>,
                    started |-> now, ended |-> 0]
    BY <1>5 DEF SuiteBegin, NoPerf
  <2>2. perf.sequence \in 0 .. MaxSequence
    BY <1>1
  <2>3. perf.sequence + 1 \in 0 .. MaxSequence
    BY <2>1, <2>2, BrokerAssumption
  <2>4. QED  BY <2>1, <2>3, FreshSuite
<1>6. ASSUME NEW cap \in 1 .. MaxFrames, CaseBegin(cap)
      PROVE  SuiteInv'
  <2> DEFINE d == NewCase(cap)
             b == Append(cs, d)
  <2>1. /\ perf' = [perf EXCEPT !.cases = b]
        /\ active' = n + 1 /\ perf.state = 1 /\ active = 0 /\ n < MaxCases /\ reported' = reported
    BY <1>6 DEF CaseBegin
  <2>2. /\ d \in CaseRecord /\ d.samples = <<>> /\ d.total = 0 /\ d.missed = 0 /\ d.frames = 0
        /\ Len(d.samples) <= d.cap
    <3>1. <<>> \in Seq(SampleTotals) /\ Len(<<>>) = 0
      OBVIOUS
    <3>2. QED  BY <3>1 DEF NewCase, CaseRecord
  <2> HIDE DEF d
  <2>3. Open(cs) = <<>>
    <3>1. CASE cs = <<>>
      BY <3>1 DEF Open
    <3>2. CASE cs # <<>>
      <4>1. n \in 1 .. n
        BY <1>1, <3>2
      <4>2. QED  BY <1>4, <2>1, <3>2, <4>1 DEF Open
    <3>3. QED  BY <3>1, <3>2
  <2>4. Measured(b, reported)
    BY <1>1, <1>2, <2>2, <2>3, CaseBegins
  <2>5. /\ b \in Seq(CaseRecord) /\ Len(b) = n + 1 /\ b[n + 1] = d
        /\ \A k \in 1 .. n + 1 : Len(b[k].samples) <= b[k].cap
    <3>1. b \in Seq(CaseRecord) /\ Len(b) = n + 1 /\ b[n + 1] = d /\ \A k \in 1 .. n : b[k] = cs[k]
      BY <1>1, <2>2
    <3>2. \A k \in 1 .. n + 1 : k \in 1 .. n \/ k = n + 1
      BY <1>1
    <3>3. QED  BY <1>1, <2>2, <3>1, <3>2
  <2>6. /\ perf'.cases = b
        /\ perf' \in [state : 0 .. 3, sequence : 0 .. MaxSequence, cases : Seq(CaseRecord),
                      started : Nat, ended : Nat]
    <3> HIDE DEF b, cs
    <3>1. QED  BY <1>1, <2>1, <2>5
  <2>7. n + 1 \in 0 .. MaxCases
    BY <1>1, <2>1, BrokerAssumption
  <2> HIDE DEF b, n
  <2>8. SuiteType'
    BY <1>1, <2>1, <2>5, <2>6, <2>7 DEF SuiteType
  <2>9. QED  BY <2>1, <2>2, <2>4, <2>5, <2>6, <2>8 DEF SuiteInv
<1>7. ASSUME active # 0, NEW d \in CaseRecord, perf' = [perf EXCEPT !.cases = Append(Front(cs), d)],
             Len(d.samples) <= d.cap, reported' \in Seq(SampleTotals),
             active' \in {0, active}, active' # 0 => d.frames = 0,
             Measured(Append(Front(cs), d), reported')
      PROVE  SuiteInv'
  <2> DEFINE g == Front(cs)
             b == Append(g, d)
  <2>1. active = n /\ n # 0
    BY <1>3, <1>7
  <2>2. g \in Seq(CaseRecord) /\ Len(g) = n - 1 /\ \A k \in 1 .. n - 1 : g[k] = cs[k]
    BY <1>1, <2>1, SplitLast
  <2> HIDE DEF g
  <2>3. /\ b \in Seq(CaseRecord) /\ Len(b) = n /\ b[n] = d
        /\ \A k \in 1 .. n : Len(b[k].samples) <= b[k].cap
    <3>1. /\ b \in Seq(CaseRecord) /\ Len(b) = (n - 1) + 1 /\ b[(n - 1) + 1] = d
          /\ \A k \in 1 .. n - 1 : b[k] = g[k]
      BY <2>2
    <3>2. (n - 1) + 1 = n /\ \A k \in 1 .. n : k \in 1 .. n - 1 \/ k = n
      BY <1>1, <2>1
    <3> HIDE DEF b, n, cs
    <3>3. \A k \in 1 .. n - 1 : b[k] = cs[k] /\ k \in 1 .. n
      BY <1>1, <2>2, <3>1
    <3>4. QED  BY <1>1, <1>7, <3>1, <3>2, <3>3
  <2>4. /\ perf'.cases = b
        /\ perf' \in [state : 0 .. 3, sequence : 0 .. MaxSequence, cases : Seq(CaseRecord),
                      started : Nat, ended : Nat]
    <3>1. perf' = [perf EXCEPT !.cases = b]
      BY <1>7 DEF g
    <3> HIDE DEF b, cs
    <3>2. QED  BY <1>1, <2>3, <3>1
  <2>5. Measured(b, reported')
    BY <1>7 DEF g
  <2> HIDE DEF b, n, cs
  <2>6. SuiteType'
    <3>1. active' \in 0 .. MaxCases
      BY <1>1, <1>7, BrokerAssumption
    <3>2. Len(b) <= MaxCases
      BY <1>1, <2>3
    <3>3. QED  BY <1>7, <2>3, <2>4, <3>1, <3>2 DEF SuiteType
  <2>7. active' # 0 => perf'.cases[active'].frames = 0
    BY <1>7, <2>1, <2>3, <2>4
  <2>8. QED  BY <2>4, <2>5, <2>6, <2>7 DEF SuiteInv
<1>8. ASSUME NEW total \in SampleTotals, Sample(total)
      PROVE  SuiteInv'
  <2> DEFINE c == cs[n]
             g == Front(cs)
             d == WithSample(c, total)
  <2>1. active # 0 /\ active = n /\ n # 0 /\ active' = active /\ c.frames = 0
        /\ Len(c.samples) < c.cap /\ reported' = Append(reported, total)
    BY <1>3, <1>8 DEF Sample
  <2>2. perf' = [perf EXCEPT !.cases = [cs EXCEPT ![n] = d]]
    BY <1>8, <2>1 DEF Sample
  <2>3. /\ g \in Seq(CaseRecord) /\ c \in CaseRecord /\ cs = Append(g, c)
        /\ \A x \in CaseRecord : [cs EXCEPT ![n] = x] = Append(g, x)
    BY <1>1, <2>1, SplitLast
  <2>4. Measured(Append(g, c), reported)
    BY <1>2, <2>3
  <2>5. /\ d \in CaseRecord /\ d.cap = c.cap /\ d.frames = 0 /\ d.samples = Append(c.samples, total)
        /\ Measured(Append(g, d), Append(reported, total))
    <3> HIDE DEF c, g
    <3>1. QED  BY <1>1, <2>1, <2>3, <2>4, Sampled
  <2>6. Len(d.samples) <= d.cap
    <3> HIDE DEF c, d
    <3>1. c.samples \in Seq(SampleTotals) /\ c.cap \in Nat
      <4>1. c.samples \in Seq(SampleTotals) /\ c.cap \in 1 .. MaxFrames
        BY <2>3 DEF CaseRecord
      <4>2. QED  BY <4>1
    <3>2. Len(Append(c.samples, total)) = Len(c.samples) + 1 /\ Len(c.samples) \in Nat
      BY <3>1
    <3>3. QED  BY <2>1, <2>5, <3>1, <3>2
  <2>7. Append(reported, total) \in Seq(SampleTotals)
    BY <1>1
  <2>8. perf' = [perf EXCEPT !.cases = Append(Front(cs), d)]
    BY <2>2, <2>3, <2>5
  <2> HIDE DEF c, d, g, cs
  <2>9. QED  BY <1>7, <2>1, <2>5, <2>6, <2>7, <2>8 DEF g
<1>9. CASE CaseEnd
  <2> DEFINE c == cs[n]
             g == Front(cs)
             d == Finished(c, SumOf(FramesOf(g)))
  <2>1. active # 0 /\ active = n /\ n # 0 /\ n \in 1 .. n /\ active' = 0 /\ c.frames = 0
        /\ perf.state = 1 /\ reported' = reported
    BY <1>1, <1>3, <1>9 DEF CaseEnd
  <2>2. /\ g \in Seq(CaseRecord) /\ c \in CaseRecord /\ cs = Append(g, c) /\ Len(g) = n - 1
        /\ \A x \in CaseRecord : [cs EXCEPT ![n] = x] = Append(g, x)
        /\ \A k \in 1 .. n - 1 : g[k] = cs[k]
        /\ FirstFrame(cs, n) = SumOf(FramesOf(g))
    BY <1>1, <2>1, SplitLast
  <2>3. Measured(Append(g, c), reported)
    BY <1>2, <2>2
  <2>4. CASE c.samples = <<>>
    <3>1. perf' = [perf EXCEPT !.cases = g]
      BY <1>9, <2>1, <2>4 DEF CaseEnd
    <3>2. \A k \in 1 .. n - 1 : g[k] = cs[k] /\ k \in 1 .. n /\ k # active
      BY <1>1, <2>1, <2>2
    <3>3. g # <<>> => g[Len(g)].frames > 0 /\ g[Len(g)].samples = <<>>
      <4>1. SUFFICES ASSUME g # <<>>
                     PROVE  g[n - 1].frames > 0 /\ g[n - 1].samples = <<>>
        BY <2>2
      <4>2. n - 1 \in 1 .. n - 1
        BY <1>1, <2>1, <2>2, <4>1
      <4>3. n - 1 \in 1 .. n /\ n - 1 # active /\ g[n - 1] = cs[n - 1]
        BY <3>2, <4>2
      <4> HIDE DEF c, g, cs
      <4>4. QED  BY <1>4, <2>1, <4>3
    <3>4. Measured(g, reported)
      <4> HIDE DEF c, g
      <4>1. QED  BY <1>1, <2>1, <2>2, <2>3, <2>4, <3>3, CaseDropped
    <3>5. \A k \in 1 .. n - 1 : Len(g[k].samples) <= g[k].cap
      BY <1>1, <3>2
    <3> HIDE DEF c, g, cs
    <3>6. /\ perf'.cases = g
          /\ perf' \in [state : 0 .. 3, sequence : 0 .. MaxSequence, cases : Seq(CaseRecord),
                        started : Nat, ended : Nat]
      BY <1>1, <2>2, <3>1
    <3>7. n - 1 <= MaxCases
      BY <1>1, <2>1, BrokerAssumption
    <3>8. SuiteType'
      BY <1>1, <2>1, <2>2, <3>5, <3>6, <3>7, BrokerAssumption DEF SuiteType
    <3>9. QED  BY <2>1, <3>4, <3>6, <3>8 DEF SuiteInv
  <2>5. CASE c.samples # <<>>
    <3>1. perf' = [perf EXCEPT !.cases = [cs EXCEPT ![n] = d]]
      BY <1>9, <2>1, <2>2, <2>5 DEF CaseEnd
    <3>2. d \in CaseRecord /\ d.cap = c.cap /\ d.samples = <<>> /\ Measured(Append(g, d), reported)
      <4> HIDE DEF c, g
      <4>1. QED  BY <1>1, <2>1, <2>2, <2>3, <2>5, CaseEnded
    <3>3. Len(d.samples) <= d.cap
      <4>1. d.cap \in Nat
        BY <3>2 DEF CaseRecord
      <4>2. Len(<<>>) = 0
        OBVIOUS
      <4> HIDE DEF d
      <4>3. QED  BY <3>2, <4>1, <4>2
    <3>4. perf' = [perf EXCEPT !.cases = Append(Front(cs), d)]
      BY <2>2, <3>1, <3>2
    <3> HIDE DEF c, d, g, cs
    <3>5. QED  BY <1>1, <1>7, <2>1, <3>2, <3>3, <3>4 DEF g
  <2>6. QED  BY <2>4, <2>5
<1>10. CASE SuiteEnd(now) \/ SuiteAbort(now)
  <2>1. PICK st \in {2, 3} : perf' = [perf EXCEPT !.state = st, !.ended = now]
    BY <1>10 DEF SuiteEnd, SuiteAbort
  <2>2. active' = 0 /\ reported' = reported
    BY <1>10 DEF SuiteEnd, SuiteAbort
  <2>3. /\ perf'.cases = cs
        /\ perf' \in [state : 0 .. 3, sequence : 0 .. MaxSequence, cases : Seq(CaseRecord),
                      started : Nat, ended : Nat]
    <3>1. st \in 0 .. 3
      OBVIOUS
    <3>2. perf'.cases = cs
      BY <1>1, <2>1
    <3> HIDE DEF cs, n
    <3>3. QED  BY <1>1, <2>1, <3>1, <3>2
  <2> HIDE DEF cs
  <2>4. SuiteType'
    BY <1>1, <2>2, <2>3, BrokerAssumption DEF SuiteType
  <2>5. QED  BY <1>2, <2>2, <2>3, <2>4 DEF SuiteInv
<1>11. QED  BY <1>5, <1>6, <1>8, <1>9, <1>10 DEF BrokerCall

(* The frames of a case are where its place in the suite says. *)
LEMMA CaseSlice ==
    ASSUME NEW c \in CaseRecord, NEW rep \in Seq(SampleTotals), EndedCase(c, rep),
           NEW s, s = SubSeq(rep, c.first + 1, c.first + c.frames)
    PROVE  /\ s \in Seq(SampleTotals) /\ Len(s) = c.frames
           /\ \A i \in 1 .. c.frames : c.first + i \in 1 .. Len(rep) /\ s[i] = rep[c.first + i]
<1>1. c.first \in Nat /\ c.frames \in Nat /\ c.first + c.frames <= Len(rep) /\ Len(rep) \in Nat
  BY DEF CaseRecord, EndedCase
<1>2. s \in Seq(SampleTotals) /\ Len(s) = c.frames
  BY DEF EndedCase, Stats
<1>3. ASSUME NEW i \in 1 .. c.frames
      PROVE  c.first + i \in 1 .. Len(rep) /\ s[i] = rep[c.first + i]
  <2>1. s[i] = rep[i + (c.first + 1) - 1]
    BY <1>1
  <2>2. i + (c.first + 1) - 1 = c.first + i
    BY <1>1
  <2>3. QED  BY <1>1, <2>1, <2>2
<1>4. QED  BY <1>2, <1>3

(* From the books: every case is of its frames, ... *)
LEMMA MeasuredCases ==
    ASSUME SuiteInv
    PROVE  CasesMeasured
<1> SUFFICES ASSUME NEW k \in DOMAIN perf.cases, perf.cases[k].frames > 0
             PROVE  LET c == perf.cases[k]
                        s == CaseFrames(c)
                    IN  /\ Len(s) = c.frames
                        /\ c.total = SumOf(s)
                        /\ c.p50 \in SampleTotals /\ IsPercentile(s, c.p50, 50)
                        /\ IsPercentile(s, c.p95, 95) /\ IsPercentile(s, c.p99, 99)
                        /\ AtMost(s, c.max) = Len(s) /\ AtMost(s, c.min - 1) = 0
  BY DEF CasesMeasured
<1> DEFINE c == perf.cases[k]
           s == CaseFrames(c)
<1>1. perf.cases \in Seq(CaseRecord) /\ reported \in Seq(SampleTotals)
  BY DEF SuiteInv, SuiteType
<1>2. c \in CaseRecord /\ k \in 1 .. Len(perf.cases)
  BY <1>1
<1>3. EndedCase(c, reported)
  BY <1>2 DEF SuiteInv, Measured
<1>4. Stats(c, s)
  BY <1>3 DEF EndedCase, CaseFrames
<1> HIDE DEF c, s
<1>5. s \in Seq(Nat) /\ Len(s) \in Nat /\ c.min \in Nat /\ c.max \in Nat
  <2>1. s \in Seq(Nat)
    BY <1>4, SamplesAreNumbers DEF Stats
  <2>2. c.min \in Nat /\ c.max \in Nat
    BY <1>2 DEF CaseRecord
  <2>3. QED  BY <2>1, <2>2
<1>6. \A i \in 1 .. Len(s) : s[i] \in Nat /\ c.min <= s[i] /\ s[i] <= c.max
  BY <1>4, <1>5 DEF Stats
<1>7. AtMost(s, c.max) = Len(s)
  <2>1. c.max \in Int /\ Len(s) \in 0 .. Len(s)
    BY <1>5
  <2>2. \A i \in 1 .. Len(s) : s[i] <= c.max
    BY <1>6
  <2>3. AtMost(s, c.max) \in 0 .. Len(s) /\ AtMost(s, c.max) >= Len(s)
    BY <1>5, <2>1, <2>2, Counts
  <2>4. QED  BY <1>5, <2>3
<1>8. AtMost(s, c.min - 1) = 0
  <2>1. c.min - 1 \in Int /\ 0 \in 0 .. Len(s)
    BY <1>5
  <2>2. \A i \in 0 + 1 .. Len(s) : s[i] > c.min - 1
    BY <1>5, <1>6
  <2>3. AtMost(s, c.min - 1) \in 0 .. Len(s) /\ AtMost(s, c.min - 1) <= 0
    BY <1>5, <2>1, <2>2, Counts
  <2>4. QED  BY <1>5, <2>3
<1>9. QED  BY <1>4, <1>7, <1>8 DEF Stats, c, s

(* The least of the numbers of a list is one of them. *)
LEMMA LeastIs ==
    ASSUME NEW n \in Nat \ {0}, NEW f \in [1 .. n -> Nat]
    PROVE  \E k \in 1 .. n : Min({f[j] : j \in 1 .. n}) = f[k] /\ \A j \in 1 .. n : f[k] <= f[j]
<1> DEFINE S == {f[j] : j \in 1 .. n}
           R == OpToRel(<, Nat)
<1>1. S \subseteq Nat /\ S # {}
  BY SMT
<1>2. IsWellFoundedOn(R, Nat)
  BY NatLessThanWellFounded
<1>3. \A y, z \in Nat : y < z => <<y, z>> \in R
  BY DEF OpToRel
<1>4. S = {f[j] : j \in 1 .. n}
  OBVIOUS
<1> HIDE DEF R, S
<1>5. PICK z \in S : \A y \in S : ~(<<y, z>> \in R)
  BY <1>1, <1>2, WFMin
<1>6. ASSUME NEW y \in S
      PROVE  z <= y
  <2>1. y \in Nat /\ z \in Nat /\ ~(y < z)
    BY <1>1, <1>3, <1>5
  <2>2. QED  BY <2>1
<1>7. Min(S) \in S /\ \A y \in S : Min(S) <= y
  BY <1>5, <1>6 DEF Min
<1>8. \E k \in 1 .. n : Min(S) = f[k]
  BY <1>4, <1>7
<1>9. \A j \in 1 .. n : f[j] \in S
  BY <1>4
<1>10. QED  BY <1>4, <1>7, <1>8, <1>9

(* The greatest is at least 0, which the code begins with. *)
LEMMA GreatestIs ==
    ASSUME NEW n \in Nat \ {0}, NEW f \in [1 .. n -> Nat]
    PROVE  \E k \in 1 .. n : Max({0} \cup {f[j] : j \in 1 .. n}) = f[k] /\ \A j \in 1 .. n : f[j] <= f[k]
<1> DEFINE S == {0} \cup {f[j] : j \in 1 .. n}
<1>1. \E k \in 1 .. n : \A j \in 1 .. n : f[j] <= f[k]
  <2>1. n - 1 \in Nat /\ (n - 1) + 1 = n
    OBVIOUS
  <2>2. HasGreatest(n - 1)
    BY <2>1, Greatest
  <2>3. QED  BY <2>1, <2>2 DEF HasGreatest
<1>2. PICK k \in 1 .. n : \A j \in 1 .. n : f[j] <= f[k]
  BY <1>1
<1>3. f[k] \in S /\ S \subseteq Nat /\ \A y \in S : y <= f[k]
  BY <1>2
<1>4. S = {0} \cup {f[j] : j \in 1 .. n}
  OBVIOUS
<1> HIDE DEF S
<1>5. Max(S) \in S /\ \A y \in S : Max(S) >= y
  <2>1. \A y \in S : f[k] >= y
    BY <1>3
  <2>2. QED  BY <1>3, <2>1 DEF Max
<1>6. Max(S) = f[k]
  <2>1. Max(S) \in Nat /\ f[k] \in Nat /\ Max(S) <= f[k] /\ Max(S) >= f[k]
    BY <1>3, <1>5
  <2>2. QED  BY <2>1
<1>7. QED  BY <1>4, <1>2, <1>6

(* ... the summary of a complete suite is of all, ... *)
LEMMA MeasuredSummary ==
    ASSUME SuiteInv, OneCaseOpen
    PROVE  SummaryOfAllFrames
<1> SUFFICES ASSUME perf.state = 2
             PROVE  /\ Summary.frames = Len(reported)
                    /\ Summary.missed = Late(reported)
                    /\ reported # <<>> =>
                          /\ Summary.mean = SumOf(reported) \div Len(reported)
                          /\ \A k \in DOMAIN reported : reported[k] \in Summary.min .. Summary.max
                          /\ \E k \in DOMAIN reported : reported[k] = Summary.min
                          /\ \E k \in DOMAIN reported : reported[k] = Summary.max
  BY DEF SummaryOfAllFrames, Late
<1> DEFINE cs == perf.cases
           n == Len(cs)
           lows == [k \in 1 .. n |-> cs[k].min]
           tops == [k \in 1 .. n |-> cs[k].max]
<1>1. cs \in Seq(CaseRecord) /\ reported \in Seq(SampleTotals) /\ DOMAIN cs = 1 .. n /\ n \in Nat
      /\ DOMAIN reported = 1 .. Len(reported) /\ Len(reported) \in Nat
  <2>1. cs \in Seq(CaseRecord) /\ reported \in Seq(SampleTotals)
    BY DEF SuiteInv, SuiteType
  <2>2. QED  BY <2>1
<1>2. \A k \in 1 .. n : cs[k].frames > 0 /\ cs[k].samples = <<>> /\ cs[k] \in CaseRecord
  <2>1. active = 0
    BY DEF OneCaseOpen
  <2>2. \A k \in 1 .. n : cs[k] \in CaseRecord /\ k # 0
    BY <1>1
  <2>3. QED  BY <1>1, <2>1, <2>2 DEF OneCaseOpen
<1>3. Open(cs) = <<>>
  <2>1. cs # <<>> => n \in 1 .. n
    BY <1>1
  <2>2. QED  BY <1>2, <2>1 DEF Open
<1>4. /\ SumOf(FramesOf(cs)) = Len(reported)
      /\ SumOf(TotalsOf(cs)) = SumOf(reported)
      /\ SumOf(MissedOf(cs)) = Late(reported)
      /\ \A k \in 1 .. n : EndedCase(cs[k], reported)
      /\ \A i \in 1 .. Len(reported) : \E k \in 1 .. n : InCase(i, cs[k])
  <2>1. Len(<<>>) = 0 /\ SumOf(FramesOf(cs)) \in Nat
    BY <1>1, ColumnTypes
  <2>2. Measured(cs, reported)
    BY DEF SuiteInv
  <2> HIDE DEF cs
  <2>3. SumOf(FramesOf(cs)) + 0 = Len(reported) /\ Len(reported) - 0 = Len(reported)
    BY <1>1, <1>3, <2>1, <2>2 DEF Measured, Books
  <2>4. QED  BY <1>1, <1>2, <1>3, <2>1, <2>2, <2>3 DEF Measured, Books
<1>5. /\ Summary.frames = Len(reported)
      /\ Summary.missed = Late(reported)
      /\ Summary.mean = IF Len(reported) = 0 THEN 0 ELSE SumOf(reported) \div Len(reported)
      /\ Summary.min = IF cs = <<>> THEN 0 ELSE Min({cs[k].min : k \in 1 .. n})
      /\ Summary.max = Max({0} \cup {cs[k].max : k \in 1 .. n})
  BY <1>1, <1>4 DEF Summary, FramesOf, TotalsOf, MissedOf
<1>6. SUFFICES ASSUME reported # <<>>
               PROVE  /\ Summary.mean = SumOf(reported) \div Len(reported)
                      /\ \A k \in 1 .. Len(reported) : reported[k] \in Summary.min .. Summary.max
                      /\ \E k \in 1 .. Len(reported) : reported[k] = Summary.min
                      /\ \E k \in 1 .. Len(reported) : reported[k] = Summary.max
  BY <1>1, <1>5
<1>7. Len(reported) # 0
  BY <1>1, <1>6
<1>8. cs # <<>> /\ n \in Nat \ {0}
  <2>1. 1 \in 1 .. Len(reported)
    BY <1>1, <1>7
  <2>2. PICK k \in 1 .. n : InCase(1, cs[k])
    BY <1>4, <2>1
  <2>3. QED  BY <1>1, <2>2
<1>9. /\ lows \in [1 .. n -> Nat] /\ tops \in [1 .. n -> Nat]
      /\ {cs[k].min : k \in 1 .. n} = {lows[k] : k \in 1 .. n}
      /\ {cs[k].max : k \in 1 .. n} = {tops[k] : k \in 1 .. n}
      /\ \A k \in 1 .. n : lows[k] = cs[k].min /\ tops[k] = cs[k].max
  <2>1. \A k \in 1 .. n : cs[k].min \in Nat /\ cs[k].max \in Nat
    BY <1>2 DEF CaseRecord
  <2> HIDE DEF cs, n
  <2>2. lows \in [1 .. n -> Nat] /\ tops \in [1 .. n -> Nat]
    BY <2>1
  <2>3. QED  BY <2>2
<1> HIDE DEF cs, n, lows, tops
<1>10. PICK p \in 1 .. n : Summary.min = cs[p].min /\ \A j \in 1 .. n : cs[p].min <= cs[j].min
  <2>1. \E p \in 1 .. n : Min({lows[j] : j \in 1 .. n}) = lows[p] /\ \A j \in 1 .. n : lows[p] <= lows[j]
    BY <1>8, <1>9, LeastIs
  <2>2. PICK p \in 1 .. n : Min({lows[j] : j \in 1 .. n}) = lows[p] /\ \A j \in 1 .. n : lows[p] <= lows[j]
    BY <2>1
  <2>3. Summary.min = lows[p]
    BY <1>5, <1>8, <1>9, <2>2
  <2>4. QED  BY <1>9, <2>2, <2>3
<1>11. PICK q \in 1 .. n : Summary.max = cs[q].max /\ \A j \in 1 .. n : cs[j].max <= cs[q].max
  <2>1. \E q \in 1 .. n : Max({0} \cup {tops[j] : j \in 1 .. n}) = tops[q] /\ \A j \in 1 .. n : tops[j] <= tops[q]
    BY <1>8, <1>9, GreatestIs
  <2>2. PICK q \in 1 .. n : Max({0} \cup {tops[j] : j \in 1 .. n}) = tops[q] /\ \A j \in 1 .. n : tops[j] <= tops[q]
    BY <2>1
  <2>3. Summary.max = tops[q]
    BY <1>5, <1>9, <2>2
  <2>4. QED  BY <1>9, <2>2, <2>3
<1>12. ASSUME NEW j \in 1 .. n
       PROVE  LET c == cs[j]
              IN  /\ \A i \in 1 .. c.frames : /\ c.first + i \in 1 .. Len(reported)
                                              /\ reported[c.first + i] \in c.min .. c.max
                  /\ \E i \in 1 .. c.frames : reported[c.first + i] = c.min
                  /\ \E i \in 1 .. c.frames : reported[c.first + i] = c.max
                  /\ c.min \in Nat /\ c.max \in Nat /\ c.first \in Nat /\ c.frames \in Nat
  <2> DEFINE c == cs[j]
             s == SubSeq(reported, c.first + 1, c.first + c.frames)
  <2>1. c \in CaseRecord /\ EndedCase(c, reported)
    BY <1>2, <1>4
  <2>2. /\ Len(s) = c.frames
        /\ \A i \in 1 .. c.frames : c.first + i \in 1 .. Len(reported) /\ s[i] = reported[c.first + i]
    BY <1>1, <2>1, CaseSlice
  <2>3. Stats(c, s)
    BY <2>1 DEF EndedCase
  <2>4. c.min \in Nat /\ c.max \in Nat /\ c.first \in Nat /\ c.frames \in Nat
    BY <2>1 DEF CaseRecord
  <2> HIDE DEF c, s
  <2>5. QED  BY <2>2, <2>3, <2>4 DEF Stats, c
<1>13. ASSUME NEW k \in 1 .. Len(reported)
       PROVE  reported[k] \in Summary.min .. Summary.max
  <2>1. PICK j \in 1 .. n : InCase(k, cs[j])
    BY <1>4
  <2> DEFINE c == cs[j]
             i == k - c.first
  <2>2. i \in 1 .. c.frames /\ c.first + i = k
    <3>1. c.first \in Nat /\ c.frames \in Nat
      BY <1>12
    <3>2. k \in c.first + 1 .. c.first + c.frames
      BY <2>1 DEF InCase
    <3> HIDE DEF c
    <3>3. QED  BY <3>1, <3>2
  <2>3. reported[k] \in c.min .. c.max
    <3> HIDE DEF i
    <3>1. QED  BY <1>12, <2>2
  <2>4. c.min \in Nat /\ c.max \in Nat /\ cs[p].min \in Nat /\ cs[q].max \in Nat
    BY <1>12
  <2>5. cs[p].min <= c.min /\ c.max <= cs[q].max
    BY <1>10, <1>11
  <2> HIDE DEF c
  <2>6. reported[k] \in cs[p].min .. cs[q].max
    BY <2>3, <2>4, <2>5
  <2>7. QED  BY <1>10, <1>11, <2>6
<1>14. \E k \in 1 .. Len(reported) : reported[k] = Summary.min
  BY <1>10, <1>12
<1>15. \E k \in 1 .. Len(reported) : reported[k] = Summary.max
  BY <1>11, <1>12
<1>16. QED  BY <1>5, <1>7, <1>13, <1>14, <1>15

(* ... and everything has its type. *)
LEMMA SuiteTypes ==
    ASSUME SuiteInv
    PROVE  BrokerTypeOK
<1>1. /\ perf \in [state : 0 .. 3, sequence : 0 .. MaxSequence, cases : Seq(CaseRecord),
                   started : Nat, ended : Nat]
      /\ Len(perf.cases) <= MaxCases
      /\ \A k \in 1 .. Len(perf.cases) : Len(perf.cases[k].samples) <= perf.cases[k].cap
      /\ active \in 0 .. MaxCases /\ perf.cases \in Seq(CaseRecord)
  BY DEF SuiteInv, SuiteType
<1>2. \A c \in CaseRecord :
         /\ c.cap \in 1 .. MaxFrames
         /\ \A f \in {"total", "missed", "frames", "first", "min", "max", "mean", "p50", "p95", "p99"} :
               c[f] \in Nat
  BY DEF CaseRecord
<1>3. ASSUME NEW k \in DOMAIN perf.cases
      PROVE  CaseType(perf.cases[k])
  <2>1. perf.cases[k] \in CaseRecord /\ k \in 1 .. Len(perf.cases)
    BY <1>1
  <2>2. QED  BY <1>1, <1>2, <2>1 DEF CaseType
<1>4. QED  BY <1>1, <1>3 DEF BrokerTypeOK

(* Every step leaves the broker alone, forgets the suite, or is a call of it. *)
LEMMA MeasuredStep ==
    ASSUME SuiteInv, OneCaseOpen, OneCaseOpen', TimeShape, [Next]_vars
    PROVE  SuiteInv'
<1>1. CASE UNCHANGED brokerVars
  BY <1>1 DEF brokerVars, SuiteInv, SuiteType
<1>2. CASE BrokerReset
  BY <1>2, FreshSuite, BrokerAssumption DEF BrokerReset, NoPerf
<1>3. CASE CallsBroker
  <2> DEFINE now == Now
  <2>1. now \in Nat
    BY NowIsNat DEF TimeShape, Now
  <2>2. BrokerCall(now)
    BY <1>3 DEF CallsBroker
  <2> HIDE DEF now
  <2>3. QED  BY <2>1, <2>2, MeasuredCall
<1>4. QED  BY <1>1, <1>2, <1>3 DEF Next, vars, Loads, HostStep, CallsTrack

(* What a suite reports is what was measured, case by case and as a whole,   *)
(* whatever the samples and the order of the calls.                          *)
THEOREM SuitesAreMeasured == Spec => []SuiteMeasured
<1> DEFINE Inv == SuiteInv /\ OneCaseOpen /\ PerfShape /\ TimeShape /\ SuiteTimed /\ PacedTypes
                  /\ FramesPaced
<1>1. Init => Inv
  <2> SUFFICES ASSUME Init PROVE Inv
    OBVIOUS
  <2>1. perf = NoPerf /\ active = 0 /\ reported = <<>>
    BY DEF Init, BrokerInit
  <2>2. /\ {"state", "sequence", "cases", "started", "ended"} \subseteq DOMAIN NoPerf
        /\ NoPerf.cases \in Seq(CaseRecord) /\ NoPerf.cases = <<>> /\ Len(NoPerf.cases) = 0
        /\ NoPerf \in [state : 0 .. 3, sequence : 0 .. MaxSequence, cases : Seq(CaseRecord),
                       started : Nat, ended : Nat]
    BY BrokerAssumption DEF NoPerf
  <2>3. OneCaseOpen /\ PerfShape
    BY <2>1, <2>2 DEF OneCaseOpen, PerfShape
  <2>4. SuiteType
    BY <2>1, <2>2, BrokerAssumption DEF SuiteType
  <2>5. SuiteInv
    BY <2>1, <2>2, <2>4, NothingMeasured DEF SuiteInv
  <2>6. TimeShape /\ SuiteTimed /\ PacedTypes /\ FramesPaced
    BY ClockAssumption
    DEF Init, ClockInit, BrokerInit, NoPerf, TimeShape, SuiteTimed, PacedTypes, FramesPaced
  <2>7. QED  BY <2>3, <2>5, <2>6
<1>2. Inv /\ [Next]_vars => Inv'
  BY SuiteStep, TimedStep, PacedStep, ClockSteps, MeasuredStep
<1>3. Inv => SuiteMeasured
  BY MeasuredCases, MeasuredSummary, SuiteTypes DEF SuiteMeasured
<1>4. QED  BY <1>1, <1>2, <1>3, PTL DEF Spec
=============================================================================
