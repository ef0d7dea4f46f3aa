-------------------------------- MODULE Sm2 --------------------------------
(***************************************************************************)
(* SM2Service.calculate (core/sm2.py), the arithmetic that reschedules a   *)
(* card after a rating.  The ease factor is a float that only ever moves   *)
(* in steps of a hundredth (2.5, +0.1, -0.32, ...), so it is kept here as  *)
(* an integer number of hundredths.                                        *)
(***************************************************************************)
EXTENDS Integers

DefaultEase == 250
DefaultInterval == 0
DefaultRepetitions == 0
MinEase == 130

Passed(quality) == quality >= 3

\* 0.1 - (5 - quality) * (0.08 + (5 - quality) * 0.02), in hundredths
EaseChange(quality) == 10 - (5 - quality) * (8 + (5 - quality) * 2)

NextEase(ease, quality) ==
  LET moved == ease + EaseChange(quality)
  IN  IF moved < MinEase THEN MinEase ELSE moved

\* round(interval * ease).  At an exact half Python rounds to even and the
\* float product may lie a hair to either side, so both neighbours are allowed.
Rounded(interval, ease) ==
  {(interval * ease + 50) \div 100, (interval * ease + 49) \div 100}

\* Faulty form of NextIntervals: a second pass keeps multiplying.
NextIntervalsNoSix(interval, ease, repetitions, quality) ==
  IF ~ Passed(quality) \/ repetitions = 0 THEN {1} ELSE Rounded(interval, ease)

\* Faulty form of NextIntervals: the ease is taken as a percentage to subtract.
NextIntervalsShrinking(interval, ease, repetitions, quality) ==
  IF ~ Passed(quality) \/ repetitions = 0 THEN {1}
  ELSE IF repetitions = 1 THEN {6}
  ELSE {(interval * 100) \div ease}

NextIntervals(interval, ease, repetitions, quality) ==
  IF ~ Passed(quality) \/ repetitions = 0 THEN {1}
  ELSE IF repetitions = 1 THEN {6}
  ELSE Rounded(interval, ease)

\* Faulty form of NextRepetitions: a failure takes one repetition back.
NextRepetitionsBelowZero(repetitions, quality) ==
  IF Passed(quality) THEN repetitions + 1 ELSE repetitions - 1

NextRepetitions(repetitions, quality) ==
  IF Passed(quality) THEN repetitions + 1 ELSE 0
=============================================================================
