-------------------------------- MODULE Jump --------------------------------
(***************************************************************************)
(* The attributes computed from the GNSS samples of one recording:         *)
(* calculations/attributecalculations.cpp, wspcalculations.cpp and         *)
(* spcalculations.cpp, with the derivative and the altitude they read.     *)
(*                                                                         *)
(* A computed value is an operator of the state, as it is a pure function  *)
(* of its inputs in the code; the state is those inputs: the samples, and  *)
(* the attributes the user has stored, which come before computed ones.    *)
(* Times are seconds, heights metres and speeds metres per second, all     *)
(* whole. An interpolated value is rounded up, which leaves every          *)
(* comparison with a whole number as it is in the code.                    *)
(***************************************************************************)
EXTENDS Integers, SequencesExt

CONSTANTS
  Kinds,        \* what a sample adds: seconds, climb, velD, velH, sAcc, vAcc
  MaxSamples,   \* how long a recording is
  First,        \* time and height its first sample is measured from
  Pause,        \* preference import/descentPauseSeconds
  Overrides,      \* the values a user stores, per attribute
  Defaults,     \* the parameters of the two disciplines
  None,         \* an attribute that is not available
  NaN           \* the result of 0 / 0

VARIABLES
  rec,          \* the samples
  stored        \* the attributes of the session that are stored

vars == <<rec, stored>>

Attributes == DOMAIN Overrides
n == Len(rec)
T(i) == rec[i].time
H(i) == rec[i].hMSL
V(i) == rec[i].velD

\* No comparison with NaN holds.
Before(t, x) == x # NaN /\ t < x
AtOrAfter(t, x) == x # NaN /\ t >= x

DivUp(a, b) == -((-a) \div b)

\* The value at x of the line through two points.
Between(x0, y0, x1, y1, x) == y0 + DivUp((x - x0) * (y1 - y0), x1 - x0)

\* When a quantity that is y0 at sample i - 1 and y1 at sample i passes a level.
PassTime(i, y0, y1, level) ==
  LET sign == IF y1 < y0 THEN -1 ELSE 1
  IN  T(i - 1) + DivUp(sign * (level - y0) * (T(i) - T(i - 1)), sign * (y1 - y0))

\* A stored attribute takes precedence over the computed one.
Attribute(key, computed) == IF stored[key] # None THEN stored[key] ELSE computed

------------------------------------------------------------------------------
(* The analysis window and what is found in it.                              *)

Larger(high, low, best) == IF H(high) - H(low) > H(best[1]) - H(best[2]) THEN <<high, low>> ELSE best

FollowDescent(s, i) ==
  IF H(i) > H(s.high) THEN [s EXCEPT !.high = i, !.low = i]
  ELSE IF H(i) <= H(s.low) THEN [s EXCEPT !.low = i]
  ELSE IF T(i) - T(s.low) > Pause THEN [high |-> i, low |-> i, best |-> Larger(s.high, s.low, s.best)]
  ELSE s

ComputeAnalysisRange ==
  LET s == FoldLeft(FollowDescent, [high |-> 1, low |-> 1, best |-> <<1, 1>>], [k \in 1..n - 1 |-> k + 1])
      best == Larger(s.high, s.low, s.best)
  IN  IF H(best[1]) = H(best[2]) THEN None
      ELSE [start |-> Max({T(best[1]) - Pause, T(1)}), end |-> Min({T(best[2]) + Pause, T(n)})]

AnalysisRange == IF n = 0 THEN None ELSE ComputeAnalysisRange

\* Forward, centred and backward differences, as fractions.
ComputeDerivative(values) ==
  LET prev(i) == Max({i - 1, 1})
      next(i) == Min({i + 1, n})
  IN  IF n < 2 \/ \E i \in 1..n : T(next(i)) = T(prev(i)) THEN None
      ELSE [i \in 1..n |-> [num |-> values[next(i)] - values[prev(i)], den |-> T(next(i)) - T(prev(i))]]

Threshold == 10

\* How far along samples i - 1 and i the speed is at the threshold, p / q, and
\* the acceleration there, num / den.
AtThreshold(i, accD) ==
  LET sign == IF V(i) < V(i - 1) THEN -1 ELSE 1
      p == sign * (Threshold - V(i - 1))
      q == sign * (V(i) - V(i - 1))
      a0 == accD[i - 1]
      a1 == accD[i]
  IN  [p |-> p, q |-> q,
       num |-> a0.num * a1.den * q + p * (a1.num * a0.den - a0.num * a1.den), den |-> a0.den * a1.den * q]

\* The speed passes the threshold between the two samples, accurately, at
\* 2.5 m/s^2 or more. When both are at the threshold the coefficient is 0 / 0
\* and none of the three tests refuses the pair.
IsExit(i, at) ==
  \/ at.p = 0 /\ at.q = 0
  \/ /\ at.q > 0 /\ at.p \in 0..at.q
     /\ rec[i - 1].sAcc * at.q + at.p * (rec[i].sAcc - rec[i - 1].sAcc) <= at.q
     /\ 2 * at.num >= 5 * at.den

ExitAt(i, at) ==
  IF at.q = 0 THEN NaN
  ELSE T(i - 1) + DivUp(at.p * (T(i) - T(i - 1)) * at.num - Threshold * at.den * at.q, at.q * at.num)

Within(range) == { i \in 2..n : T(i) >= range.start /\ T(i) <= range.end }

ExitTime(range) ==
  LET accD == ComputeDerivative([i \in 1..n |-> V(i)])
      found == { i \in Within(range) : IsExit(i, AtThreshold(i, accD)) }
      first == Min(found)
  IN  IF range = None \/ accD = None THEN None
      ELSE IF found = {} THEN None ELSE ExitAt(first, AtThreshold(first, accD))

\* The video's sync time and the reference of the course default to the exit.
DefaultsToExit(exit) == exit

GroundElev(range) ==
  LET end == range.end
      i == Min({ k \in 2..n : T(k) >= end })
  IN  IF range = None THEN None
      ELSE IF end <= T(1) THEN H(1)
      ELSE IF end >= T(n) THEN H(n)
      ELSE Between(T(i - 1), H(i - 1), T(i), H(i), end)

IsWalking(i, ground) ==
  /\ V(i) < 2 * rec[i].sAcc /\ -V(i) < 2 * rec[i].sAcc
  /\ 36 * rec[i].velH < 100
  /\ H(i) - ground < 10

LandingTime(range, ground) ==
  LET found == { i \in Within(range) : ~IsWalking(i - 1, ground) /\ IsWalking(i, ground) }
  IN  IF range = None \/ ground = None THEN None
      ELSE IF found = {} THEN None ELSE T(Min(found))

\* Mutant: the walk is not held at the exit.
WalkBackPastExit(exit, s, j) ==
  IF ~s.going THEN s
  ELSE IF V(j) < V(s.min) THEN [s EXCEPT !.min = j]
  ELSE [s EXCEPT !.going = V(j) <= V(s.min) + 2 * rec[j].sAcc]

\* Walk back to the slowest sample, until the speed is confidently above it.
WalkBack(exit, s, j) ==
  IF ~s.going THEN s
  ELSE IF Before(T(j), exit) THEN [s EXCEPT !.going = FALSE]
  ELSE IF V(j) < V(s.min) THEN [s EXCEPT !.min = j]
  ELSE [s EXCEPT !.going = V(j) <= V(s.min) + 2 * rec[j].sAcc]

ReachesThreshold(i) == V(i - 1) < Threshold /\ V(i) >= Threshold

ManoeuvreStart(exit, landing) ==
  LET crossings == { i \in 2..n : ~Before(T(i), exit) /\ T(i) <= landing /\ ReachesThreshold(i) }
      last == Max(crossings)
      back == FoldLeft(LAMBDA s, j : WalkBack(exit, s, j), [min |-> last - 1, going |-> TRUE],
                       [k \in 1..last - 2 |-> last - 1 - k])
  IN  IF None \in {exit, landing} THEN None
      ELSE IF crossings = {} THEN None ELSE T(back.min)

FollowAscent(s, i) ==
  LET fresh == [s EXCEPT !.low = i, !.high = i]
  IN  IF H(i) < H(s.low) THEN fresh
      ELSE IF H(i) > H(s.high) THEN [s EXCEPT !.high = i]
      ELSE IF H(i) < H(s.high) - 2 * rec[i].vAcc THEN [fresh EXCEPT !.best = Larger(s.high, s.low, s.best)]
      ELSE s

ComputeFlare(exit, landing) ==
  LET flight == { i \in 1..n : AtOrAfter(T(i), exit) /\ T(i) <= landing }
      first == Min(flight)
      s == FoldLeft(FollowAscent, [high |-> first, low |-> first, best |-> <<1, 1>>],
                    [k \in 1..Cardinality(flight) - 1 |-> first + k])
      best == Larger(s.high, s.low, s.best)
  IN  IF flight = {} THEN None
      ELSE IF H(best[1]) = H(best[2]) THEN None
      ELSE [start |-> T(best[2]), end |-> T(best[1])]

Flare(exit, landing) == IF None \in {exit, landing} THEN None ELSE ComputeFlare(exit, landing)

\* The first of the highest values between manoeuvre start and landing.
TimeOfMaximum(start, landing, value) ==
  LET inside == { i \in 1..n : T(i) >= start /\ T(i) <= landing }
      peaks == { i \in inside : \A k \in inside : value[k] <= value[i] }
  IN  IF None \in {start, landing} THEN None
      ELSE IF peaks = {} THEN None ELSE T(Min(peaks))

\* The value of a measurement at a marker, which needs a sample on each side.
ValueAt(marker, value) ==
  LET after == { i \in 1..n : ~Before(T(i), marker) }
      i == Min(after)
  IN  IF marker = None \/ value = None THEN None
      ELSE IF after = {} \/ 1 \in after THEN None
      ELSE Between(T(i - 1), value[i - 1], T(i), value[i], marker)

------------------------------------------------------------------------------
(* Wingsuit performance: the gates of the competition window. z is the        *)
(* altitude of each sample above the ground.                                 *)

Parameter(key) == Attribute(key, Defaults[key])

Altitude(ground) == IF ground = None THEN None ELSE [i \in 1..n |-> H(i) - ground]

FallsThrough(z, i, altitude) == z[i - 1] >= altitude /\ z[i] < altitude

\* Where the fall speed reaches the threshold after the exit.
SpeedCrossings(exit) == { i \in 2..n : ~Before(T(i), exit) /\ ReachesThreshold(i) }

\* Nine seconds after the fall speed first reaches the threshold.
Ref1Time(exit) ==
  LET crossings == SpeedCrossings(exit)
      i == Min(crossings)
  IN  IF exit = None THEN None
      ELSE IF crossings = {} THEN None
      ELSE PassTime(i, V(i - 1), V(i), Threshold) + 9

\* The largest accuracy from the first reference to 20 m below the window.
Validation(z, ref1, gate, altitude) ==
  LET below == { i \in gate + 1..n : z[i] <= altitude - 20 }
      last == IF below = {} THEN n ELSE Min(below) - 1
      inside == { i \in 1..last : T(i) >= ref1 }
  IN  IF inside = {} THEN None ELSE Max({ rec[i].vAcc : i \in inside })

\* Mutant: the bottom gate is looked for in the whole flight.
ComputeWspResultsAnywhere(top, bottom, exit, z, ref1) ==
  LET flight == { i \in 2..n : AtOrAfter(T(i), exit) }
      entries == { i \in flight : FallsThrough(z, i, top) }
      in == Min(entries)
      exits == { i \in flight : FallsThrough(z, i, bottom) }
      out == Min(exits)
      entry == PassTime(in, z[in - 1], z[in], top)
      leave == PassTime(out, z[out - 1], z[out], bottom)
  IN  IF entries = {} THEN None
      ELSE IF exits = {} THEN [entry |-> entry, leave |-> None, sep |-> None]
      ELSE [entry |-> entry, leave |-> leave, sep |-> Validation(z, ref1, out, bottom)]

ComputeWspResults(top, bottom, exit, z, ref1) ==
  LET entries == { i \in 2..n : AtOrAfter(T(i), exit) /\ FallsThrough(z, i, top) }
      in == Min(entries)
      exits == { i \in in..n : FallsThrough(z, i, bottom) }
      out == Min(exits)
      entry == PassTime(in, z[in - 1], z[in], top)
      leave == PassTime(out, z[out - 1], z[out], bottom)
  IN  IF entries = {} THEN None
      ELSE IF exits = {} THEN [entry |-> entry, leave |-> None, sep |-> None]
      ELSE [entry |-> entry, leave |-> leave, sep |-> Validation(z, ref1, out, bottom)]

WspResults(exit, z, ref1) ==
  IF None \in {exit, ref1} \/ z = None THEN None
  ELSE ComputeWspResults(Parameter("WspTopAlt"), Parameter("WspBottomAlt"), exit, z, ref1)

------------------------------------------------------------------------------
(* Speed skydiving: the fastest three seconds of the performance window.     *)

ComputeSpWindowStart(exit, z) ==
  LET crossings == SpeedCrossings(exit)
      i == Min(crossings)
      time == PassTime(i, V(i - 1), V(i), Threshold)
  IN  IF crossings = {} THEN None
      ELSE [time |-> time, alt |-> Between(T(i - 1), z[i - 1], T(i), z[i], time)]

SpWindowStart(exit, z) ==
  IF exit = None \/ z = None THEN None ELSE ComputeSpWindowStart(exit, z)

\* Mutant: the second index is taken on before it is needed.
FollowSpanAhead(z, end, s, i) ==
  LET tEnd == T(i) + 3
      reached == { k \in s.j..n : T(k) >= tEnd }
      j == Min(reached)
      zEnd == IF j > 1 /\ T(j - 1) < tEnd THEN Between(T(j - 1), z[j - 1], T(j), z[j], tEnd) ELSE z[j]
      drop == z[i] - zEnd
      next == Min({ j + 1, n })
  IN  IF ~s.going \/ tEnd > end \/ reached = {} THEN [s EXCEPT !.going = FALSE]
      ELSE IF drop > s.drop THEN [s EXCEPT !.j = next, !.drop = drop, !.start = T(i)]
      ELSE [s EXCEPT !.j = next]

\* Three seconds from sample i: j moves on to the first sample at their end,
\* between which and the one before it the height there is interpolated.
FollowSpan(z, end, s, i) ==
  LET tEnd == T(i) + 3
      reached == { k \in s.j..n : T(k) >= tEnd }
      j == Min(reached)
      zEnd == IF j > 1 /\ T(j - 1) < tEnd THEN Between(T(j - 1), z[j - 1], T(j), z[j], tEnd) ELSE z[j]
      drop == z[i] - zEnd
  IN  IF ~s.going \/ tEnd > end \/ reached = {} THEN [s EXCEPT !.going = FALSE]
      ELSE IF drop > s.drop THEN [s EXCEPT !.j = j, !.drop = drop, !.start = T(i)]
      ELSE [s EXCEPT !.j = j]

\* The largest accuracy from the end back to where the validation window began.
SpeedAccuracy(z, close, altitude) ==
  LET above == { i \in 1..close : z[i] > altitude }
      lowest == IF above = {} THEN 1 ELSE Max(above) + 1
  IN  IF lowest > close THEN None ELSE Max({ rec[i].vAcc : i \in lowest..close })

\* The speed is kept as the drop in three seconds: -3 stands for the -1.0 that
\* the search starts from.
ComputeSpResults(perfHeight, valHeight, breakoff, start, z) ==
  LET altitude == Max({start.alt - perfHeight, breakoff})
      closes == { i \in 2..n : T(i) >= start.time /\ FallsThrough(z, i, altitude) }
      close == Min(closes)
      end == PassTime(close, z[close - 1], z[close], altitude)
      first == Min({ i \in 1..n : T(i) >= start.time })
      s == FoldLeft(LAMBDA acc, i : FollowSpan(z, end, acc, i),
                    [going |-> TRUE, j |-> first, drop |-> -3, start |-> None],
                    [k \in 1..n - first + 1 |-> first + k - 1])
  IN  IF closes = {} THEN None
      ELSE [end |-> end,
            drop |-> IF s.drop >= 0 THEN s.drop ELSE None,
            bestStart |-> IF s.drop >= 0 THEN s.start ELSE None,
            accuracy |-> SpeedAccuracy(z, close, altitude + valHeight)]

SpResults(start, z) ==
  IF start = None THEN None
  ELSE ComputeSpResults(Parameter("SpPerfWindowHeight"), Parameter("SpValWindowHeight"),
                        Parameter("SpBreakoffAlt"), start, z)

------------------------------------------------------------------------------
\* What the session shows of the recording: each computation reads the results
\* it declares as its inputs.
JumpValues ==
  LET range == AnalysisRange
      exit == Attribute("ExitTime", ExitTime(range))
      ground == Attribute("GroundElev", GroundElev(range))
      landing == Attribute("LandingTime", LandingTime(range, ground))
      start == ManoeuvreStart(exit, landing)
      z == Altitude(ground)
      spStart == SpWindowStart(exit, z)
  IN  [exit |-> exit, landing |-> landing, manoeuvreStart |-> start,
       sync |-> DefaultsToExit(exit),
       flare |-> Flare(exit, landing),
       maxVelD |-> TimeOfMaximum(start, landing, [i \in 1..n |-> V(i)]),
       maxVelH |-> TimeOfMaximum(start, landing, [i \in 1..n |-> rec[i].velH]),
       z |-> z, atLanding |-> ValueAt(landing, z),
       wsp |-> WspResults(exit, z, Ref1Time(exit)),
       spStart |-> spStart, sp |-> SpResults(spStart, z)]

Init ==
  /\ rec = << [time |-> First.time, hMSL |-> First.hMSL, velD |-> 0, velH |-> 0, sAcc |-> 1, vAcc |-> 1] >>
  /\ stored = [key \in Attributes |-> None]

\* Recordings are reached one sample at a time: what a file of n + 1 samples
\* gives is compared with what its first n give.
Record ==
  /\ n < MaxSamples
  /\ \E k \in Kinds :
       rec' = Append(rec, [time |-> T(n) + k.seconds, hMSL |-> H(n) + k.climb, velD |-> k.velD,
                           velH |-> k.velH, sAcc |-> k.sAcc, vAcc |-> k.vAcc])
  /\ UNCHANGED stored

\* One override at a time keeps the instance small.
StoreAttribute ==
  \E key \in Attributes : \E value \in Overrides[key] :
    /\ \A k \in Attributes : stored[k] = None
    /\ stored' = [stored EXCEPT ![key] = value]
    /\ UNCHANGED rec

RemoveAttribute ==
  \E key \in Attributes :
    /\ stored[key] # None
    /\ stored' = [stored EXCEPT ![key] = None]
    /\ UNCHANGED rec

Next == Record \/ StoreAttribute \/ RemoveAttribute

Spec == Init /\ [][Next]_vars

------------------------------------------------------------------------------

\* The markers of one jump are in the order in which they happened, whatever
\* the recording and whichever of them the user has set: the manoeuvre starts
\* before the landing and no more than one sample before the exit, the peaks of
\* the two speeds lie between them, and a flare ends after it starts, both in
\* flight. attributecalculations.cpp finds each in a scan of its own.
MarkersInOrder ==
  \A j \in {JumpValues} :
    /\ j.manoeuvreStart # None =>
         /\ j.manoeuvreStart < j.landing
         /\ \A i \in 1..n - 1 : T(i) = j.manoeuvreStart => ~Before(T(i + 1), j.exit)
         /\ \A peak \in {j.maxVelD, j.maxVelH} :
              peak # None /\ peak >= j.manoeuvreStart /\ peak <= j.landing
    /\ j.flare # None =>
         /\ AtOrAfter(j.flare.start, j.exit)
         /\ j.flare.start < j.flare.end /\ j.flare.end <= j.landing

\* The height at any time, on the line between two samples.
HeightAt(z, t) ==
  LET i == Min({ k \in 1..n : T(k) >= t })
  IN  IF i = 1 THEN z[1] ELSE Between(T(i - 1), z[i - 1], T(i), z[i], t)

\* The speed result is that of the fastest three seconds that begin at a sample
\* and lie in the performance window, and there is one as soon as such seconds
\* lose height: the two indices spcalculations.cpp moves over the samples leave
\* no interval out and measure each to its own end.
FastestIsFound ==
  \A j \in {JumpValues} :
    j.sp # None =>
      LET spans == { i \in 1..n : T(i) >= j.spStart.time /\ T(i) + 3 <= j.sp.end }
          drops == { j.z[i] - HeightAt(j.z, T(i) + 3) : i \in spans }
      IN  j.sp.drop = IF \E d \in drops : d >= 0 THEN Max(drops) ELSE None

\* A window closes after it opens: the two gates are found in scans of their
\* own that may share a segment of the track, and so may the opening of the
\* speed window and its end. Only a window whose top is below its bottom, or one
\* that opens below the breakoff altitude, can close first.
GatesInOrder ==
  \A j \in {JumpValues} :
    /\ /\ j.wsp # None
       /\ Parameter("WspTopAlt") >= Parameter("WspBottomAlt")
       => j.wsp.leave = None \/ j.wsp.leave >= j.wsp.entry
    /\ j.sp # None /\ j.spStart.alt >= Parameter("SpBreakoffAlt") => j.sp.end >= j.spStart.time

\* The times that are computed of a jump follow one another.
TimesInOrder == MarkersInOrder /\ GatesInOrder
=============================================================================
