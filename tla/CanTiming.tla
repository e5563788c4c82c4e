----------------------------- MODULE CanTiming -----------------------------
(***************************************************************************)
(* The search for the bit timing of the CAN controller                     *)
(* (src/can_timing.rs): every prescaler, then both segments, keeping the   *)
(* best so far.  A step is one prescaler.  Rates are in kbit/s and the     *)
(* clock in kHz; the ranges of the registers are constants.                *)
(***************************************************************************)
EXTENDS Integers, Sequences, SequencesExt

CONSTANTS Requests,      \* what is asked for: clock, rate, sample (permille), sjw, ppm
          MaxPrescaler, MaxSeg1, MaxSeg2, MaxRate,
          NoTiming

VARIABLES request, prescaler, best
timingVars == <<request, prescaler, best>>

TimingAssumption ==
    /\ MaxPrescaler >= 2 /\ MaxSeg1 >= 2 /\ MaxSeg2 >= 1
    /\ \A q \in Requests : q.ppm % 1000 = 0
-----------------------------------------------------------------------------
Distance(a, b) == IF a < b THEN b - a ELSE a - b
UpTo(a, b) == [i \in 1..(b - a + 1) |-> a + i - 1]
Total(c) == c.seg1 + c.seg2
Divisor(c) == c.prescaler * Total(c)
Cycles(q, c) == q.rate * Divisor(c)
RateMiss(q, c) == Distance(q.clock, Cycles(q, c))
SampleMiss(q, c) == Distance(c.seg1 * 1000, q.sample * Total(c))

\* numerator * 1000000 / denominator, a digit at a time, and what remains.
PpmFloorAndRemainder(numerator, denominator) ==
    LET Digit(acc, i) == <<acc[1] * 10 + (acc[2] * 10) \div denominator, (acc[2] * 10) % denominator>>
        six == FoldLeft(Digit, <<0, numerator % denominator>>, UpTo(1, 6))
    IN <<(numerator \div denominator) * 1000000 + six[1], six[2]>>
WithinErrorLimit(difference, cycles, ppm) ==
    LET p == PpmFloorAndRemainder(difference, cycles)
    IN p[1] < ppm \/ (p[1] = ppm /\ p[2] = 0)

\* Errors are compared as fractions, neither rounded.
IsBetter(q, c, b) ==
    LET rateC == RateMiss(q, c) * Divisor(b)    rateB == RateMiss(q, b) * Divisor(c)
        pointC == SampleMiss(q, c) * Total(b)   pointB == SampleMiss(q, b) * Total(c)
    IN IF rateC # rateB THEN rateC < rateB
       ELSE IF pointC # pointB THEN pointC < pointB
       ELSE Total(c) > Total(b)

Considered(q, b, c) ==
    IF /\ q.clock <= MaxRate * Divisor(c)
       /\ WithinErrorLimit(RateMiss(q, c), Cycles(q, c), q.ppm)
       /\ b # NoTiming => IsBetter(q, c, b)
    THEN c ELSE b

Refused(q) == q.rate = 0 \/ q.rate > MaxRate \/ q.sample = 0 \/ q.sample >= 1000
              \/ q.sjw = 0 \/ q.sjw > MaxSeg2

\* Calculate, one prescaler on: prescaler one is left out.
Calculate ==
    /\ ~Refused(request) /\ prescaler <= MaxPrescaler
    /\ LET Seg1(seg2, b, seg1) ==
               Considered(request, b, [prescaler |-> prescaler, seg1 |-> seg1, seg2 |-> seg2])
           Seg2(b, seg2) ==
               FoldLeft(LAMBDA x, seg1 : Seg1(seg2, x, seg1), b, UpTo(seg2 + 1, MaxSeg1))
       IN best' = FoldLeft(Seg2, best, UpTo(request.sjw, MaxSeg2))
    /\ prescaler' = prescaler + 1
    /\ UNCHANGED request
-----------------------------------------------------------------------------
TimingInit == request \in Requests /\ prescaler = 2 /\ best = NoTiming
TimingNext == Calculate

\* What the search may choose from, by the definition of the error's limit.
Candidates(q) ==
    {c \in [prescaler : 2..MaxPrescaler, seg1 : 2..MaxSeg1, seg2 : 1..MaxSeg2] :
        /\ c.seg2 >= q.sjw /\ c.seg1 > c.seg2
        /\ q.clock <= MaxRate * Divisor(c)
        /\ RateMiss(q, c) * 1000 <= (q.ppm \div 1000) * Cycles(q, c)}
\* Nothing that is allowed is better than what the search returns, and it returns
\* something whenever something is allowed.
TimingBest ==
    prescaler > MaxPrescaler =>
        IF best = NoTiming THEN Candidates(request) = {}
        ELSE best \in Candidates(request) /\ \A c \in Candidates(request) : ~IsBetter(request, c, best)
=============================================================================
