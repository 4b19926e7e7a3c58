----------------------------- MODULE PerfBroker -----------------------------
(***************************************************************************)
(* The performance-suite broker a cartridge reports its measurements to    *)
(* (ABI calls #125-#132, Runtime::performanceCall).  A suite is a list of  *)
(* cases, each a list of frame times that ends as statistics.              *)
(*                                                                         *)
(* A sample is its total; update, draw and present are summed the same way *)
(* and left out, as are names and texts.  A refused call changes nothing.  *)
(***************************************************************************)
EXTENDS Integers, Sequences, SequencesExt

CONSTANTS
    MaxCases,      \* cases a suite may hold (12)
    MaxFrames,     \* frames a case may announce (100000)
    SampleTotals,  \* frame times a cartridge reports
    FrameLimit,    \* a longer frame is counted as missed (33333)
    MaxSequence    \* bound: suites begun between two loads

ASSUME BrokerAssumption ==
    /\ MaxCases \in Nat \ {0} /\ MaxFrames \in Nat \ {0}
    /\ SampleTotals \subseteq Nat /\ FrameLimit \in Nat /\ MaxSequence \in Nat

VARIABLES
    perf,      \* perf_: state (0 idle, 1 running, 2 complete, 3 aborted), sequence, cases, times
    active,    \* activePerfCase_: index of the open case, 0 for none (the code's -1)
    reported   \* history: every sample accepted since the suite began

brokerVars == <<perf, active, reported>>

NoPerf == [state |-> 0, sequence |-> 0, cases |-> <<>>, started |-> 0, ended |-> 0]
NewCase(cap) == [cap |-> cap, samples |-> <<>>, total |-> 0, missed |-> 0, frames |-> 0,
                 first |-> 0, min |-> 0, max |-> 0, mean |-> 0, p50 |-> 0, p95 |-> 0, p99 |-> 0]

SumOf(seq) ==
    LET sum[n \in 0 .. Len(seq)] == IF n = 0 THEN 0 ELSE sum[n - 1] + seq[n]
    IN  sum[Len(seq)]
SortedUp(seq) ==
    LET Ascends(p) == \A i, j \in DOMAIN seq : i < j => seq[p[i]] <= seq[p[j]]
        order == CHOOSE p \in Bijection(DOMAIN seq, DOMAIN seq) : Ascends(p)
    IN  [i \in DOMAIN seq |-> seq[order[i]]]

BrokerInit == perf = NoPerf /\ active = 0 /\ reported = <<>>

\* Runtime::load forgets the suite.
BrokerReset == perf' = NoPerf /\ active' = 0 /\ reported' = <<>>

\* ABI #125: a new suite, unless one is running.
SuiteBegin(now) ==
    /\ perf.state # 1 /\ perf.sequence < MaxSequence
    /\ perf' = [NoPerf EXCEPT !.sequence = perf.sequence + 1, !.state = 1, !.started = now]
    /\ active' = 0 /\ reported' = <<>>

\* Mutant: a case may begin while another is open.
CaseBeginNested(cap) ==
    /\ perf.state = 1 /\ Len(perf.cases) < MaxCases
    /\ perf' = [perf EXCEPT !.cases = Append(@, NewCase(cap))]
    /\ active' = Len(perf.cases) + 1
    /\ UNCHANGED reported

\* ABI #126: a case for at most cap frames.
CaseBegin(cap) ==
    /\ perf.state = 1 /\ active = 0 /\ Len(perf.cases) < MaxCases
    /\ perf' = [perf EXCEPT !.cases = Append(@, NewCase(cap))]
    /\ active' = Len(perf.cases) + 1
    /\ UNCHANGED reported

\* ABI #127: one frame of the open case, unless it has all it announced.
WithSample(c, total) ==
    [c EXCEPT !.samples = Append(@, total), !.total = @ + total,
              !.missed = @ + IF total > FrameLimit THEN 1 ELSE 0]
Sample(total) ==
    /\ active # 0 /\ Len(perf.cases[active].samples) < perf.cases[active].cap
    /\ perf' = [perf EXCEPT !.cases[active] = WithSample(@, total)]
    /\ reported' = Append(reported, total)
    /\ UNCHANGED active

\* Mutant: the rank is rounded down.
PercentileDown(sorted, n) ==
    LET rank == (Len(sorted) * n) \div 100
    IN  sorted[IF rank < 1 THEN 1 ELSE rank]

\* The nearest-rank percentile of case end: element (size * n + 99) / 100 - 1 of the sorted samples.
Percentile(sorted, n) ==
    LET rank == (Len(sorted) * n + 99) \div 100
    IN  sorted[IF rank < Len(sorted) THEN rank ELSE Len(sorted)]

\* Frames of the cases before the k-th.
FirstFrame(cases, k) == SumOf([j \in 1 .. k - 1 |-> cases[j].frames])

Finished(c, first) ==
    LET sorted == SortedUp(c.samples)
        n == Len(c.samples)
    IN  [c EXCEPT !.frames = n, !.first = first, !.min = sorted[1], !.max = sorted[n],
                  !.mean = c.total \div n, !.p50 = Percentile(sorted, 50),
                  !.p95 = Percentile(sorted, 95), !.p99 = Percentile(sorted, 99),
                  !.samples = <<>>]

\* ABI #128: the open case becomes statistics; one without a sample is dropped.
CaseEnd ==
    /\ active # 0 /\ active' = 0
    /\ perf' = IF perf.cases[active].samples = <<>>
               THEN [perf EXCEPT !.cases = Front(@)]
               ELSE [perf EXCEPT !.cases[active] = Finished(@, FirstFrame(perf.cases, active))]
    /\ UNCHANGED reported

\* ABI #129: the suite is complete, unless a case is open.
SuiteEnd(now) ==
    /\ perf.state = 1 /\ active = 0
    /\ perf' = [perf EXCEPT !.state = 2, !.ended = now]
    /\ UNCHANGED <<active, reported>>

\* ABI #130: a running suite is given up; its open case stays as it is.
SuiteAbort(now) ==
    /\ perf.state = 1
    /\ perf' = [perf EXCEPT !.state = 3, !.ended = now]
    /\ active' = 0 /\ UNCHANGED reported

BrokerCall(now) ==
    \/ SuiteBegin(now)
    \/ \E cap \in 1 .. MaxFrames : CaseBegin(cap)
    \/ \E total \in SampleTotals : Sample(total)
    \/ CaseEnd
    \/ SuiteEnd(now)
    \/ SuiteAbort(now)

\* ABI #132: what a complete suite reports, folded from the cases' statistics.
Summary ==
    LET cs == perf.cases
        frames == SumOf([k \in DOMAIN cs |-> cs[k].frames])
        total == SumOf([k \in DOMAIN cs |-> cs[k].total])
    IN  [frames |-> frames,
         min |-> IF cs = <<>> THEN 0 ELSE Min({cs[k].min : k \in DOMAIN cs}),
         max |-> Max({0} \cup {cs[k].max : k \in DOMAIN cs}),
         mean |-> IF frames = 0 THEN 0 ELSE total \div frames,
         missed |-> SumOf([k \in DOMAIN cs |-> cs[k].missed])]

----------------------------------------------------------------------------
(* Properties *)

CaseType(c) ==
    /\ c.cap \in 1 .. MaxFrames /\ Len(c.samples) <= c.cap
    /\ \A f \in {"total", "missed", "frames", "first", "min", "max", "mean", "p50", "p95", "p99"} :
          c[f] \in Nat
BrokerTypeOK ==
    /\ perf.state \in 0 .. 3 /\ perf.sequence \in 0 .. MaxSequence
    /\ Len(perf.cases) <= MaxCases /\ \A k \in DOMAIN perf.cases : CaseType(perf.cases[k])
    /\ perf.started \in Nat /\ perf.ended \in Nat
    /\ active \in 0 .. MaxCases

\* Whatever order the calls come in, the open case is the last of a running suite, and every other
\* case but the last of an aborted suite has its statistics and holds no samples.
OneCaseOpen ==
    /\ active # 0 => perf.state = 1 /\ active = Len(perf.cases)
    /\ \A k \in DOMAIN perf.cases :
          \/ perf.cases[k].frames > 0 /\ perf.cases[k].samples = <<>>
          \/ k = active
          \/ perf.state = 3 /\ k = Len(perf.cases)

\* The statistics of a case are those of its frames: the percentile is the least reported time that
\* at least n per cent of them do not exceed, and the frames before it are those of earlier cases.
AtMost(s, v) == Cardinality({k \in DOMAIN s : s[k] <= v})
IsPercentile(s, v, n) ==
    /\ AtMost(s, v) * 100 >= n * Len(s)
    /\ \A u \in SampleTotals : u < v => AtMost(s, u) * 100 < n * Len(s)
CaseFrames(c) == SubSeq(reported, c.first + 1, c.first + c.frames)
CasesMeasured ==
    \A k \in DOMAIN perf.cases :
        LET c == perf.cases[k]
            s == CaseFrames(c)
        IN  c.frames > 0 =>
              /\ Len(s) = c.frames
              /\ c.total = SumOf(s)
              /\ c.p50 \in SampleTotals /\ IsPercentile(s, c.p50, 50)
              /\ IsPercentile(s, c.p95, 95) /\ IsPercentile(s, c.p99, 99)
              /\ AtMost(s, c.max) = Len(s) /\ AtMost(s, c.min - 1) = 0

\* The summary of a complete suite is that of all the frames it accepted, as if they were one case.
SummaryOfAllFrames ==
    perf.state = 2 =>
        /\ Summary.frames = Len(reported)
        /\ Summary.missed = Cardinality({k \in DOMAIN reported : reported[k] > FrameLimit})
        /\ reported # <<>> =>
              /\ Summary.mean = SumOf(reported) \div Len(reported)
              /\ \A k \in DOMAIN reported : reported[k] \in Summary.min .. Summary.max
              /\ \E k \in DOMAIN reported : reported[k] = Summary.min
              /\ \E k \in DOMAIN reported : reported[k] = Summary.max

\* What a suite reports is what was measured, case by case and as a whole, and it keeps its type.
SuiteMeasured == BrokerTypeOK /\ CasesMeasured /\ SummaryOfAllFrames
=============================================================================
