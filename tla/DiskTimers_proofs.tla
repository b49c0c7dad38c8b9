------------------------- MODULE DiskTimers_proofs -------------------------
(***************************************************************************)
(* How early and how late a wait for the card can end, for bytes of any    *)
(* width and timers of any length.                                         *)
(***************************************************************************)
EXTENDS DiskTimers, TLAPS

-----------------------------------------------------------------------------
(* Words of two bytes.                                                     *)

(* Division by Base takes a word apart.                                    *)
LEMMA WordOfValue ==
  ASSUME NEW h \in Nat, NEW l \in 0 .. Base - 1
  PROVE  /\ (h * Base + l) % Base = l
         /\ (h * Base + l) \div Base = h
<1> DEFINE n == h * Base + l
           q == n \div Base
           r == n % Base
<1>1. Base \in Nat \ {0}
  BY TimerAssumption
<1>2. n \in Nat
  BY <1>1
<1>3. n = q * Base + r /\ q \in Nat /\ r \in 0 .. Base - 1
  BY <1>1, <1>2
<1> HIDE DEF q, r
<1>4. ~(q + 1 <= h)
  <2>1. SUFFICES ASSUME q + 1 <= h PROVE FALSE
    OBVIOUS
  <2>2. (q + 1) * Base <= h * Base
    BY <1>1, <1>3, <2>1
  <2>3. (q + 1) * Base = q * Base + Base
    BY <1>1, <1>3
  <2> QED
    BY <1>1, <1>3, <2>2, <2>3
<1>5. ~(h + 1 <= q)
  <2>1. SUFFICES ASSUME h + 1 <= q PROVE FALSE
    OBVIOUS
  <2>2. (h + 1) * Base <= q * Base
    BY <1>1, <1>3, <2>1
  <2>3. (h + 1) * Base = h * Base + Base
    BY <1>1
  <2> QED
    BY <1>1, <1>3, <2>2, <2>3
<1>6. q = h
  BY <1>3, <1>4, <1>5
<1> QED
  BY <1>1, <1>3, <1>6 DEF q, r

(* A tick takes one from the low byte, borrows from the high one when that *)
(* is zero, and leaves zero alone.                                         *)
LEMMA CountDownWord ==
  ASSUME NEW w \in Word
  PROVE  LET v == WordOf(CountDown(Value(w)))
         IN  /\ v \in Word
             /\ w.lo # 0 => v = [lo |-> w.lo - 1, hi |-> w.hi]
             /\ w.lo = 0 /\ w.hi # 0 => v = [lo |-> Base - 1, hi |-> w.hi - 1]
             /\ w.lo = 0 /\ w.hi = 0 => v = w
<1> DEFINE v == WordOf(CountDown(Value(w)))
<1>1. Base \in Nat \ {0} /\ w.lo \in 0 .. Base - 1 /\ w.hi \in 0 .. Base - 1
  BY TimerAssumption DEF Word
<1>2. w = [lo |-> w.lo, hi |-> w.hi]
  BY DEF Word
<1>3. ASSUME NEW l \in 0 .. Base - 1, NEW h \in 0 .. Base - 1
      PROVE  WordOf(h * Base + l) = [lo |-> l, hi |-> h]
  <2>1. h % Base = h
    BY <1>1
  <2> QED
    BY <1>1, <2>1, WordOfValue DEF WordOf
<1>4. CASE w.lo # 0
  <2>1. Value(w) # 0 /\ CountDown(Value(w)) = w.hi * Base + (w.lo - 1)
    BY <1>1, <1>4 DEF Value, CountDown
  <2>2. v = [lo |-> w.lo - 1, hi |-> w.hi]
    BY <1>1, <1>3, <1>4, <2>1
  <2> QED
    BY <1>1, <1>4, <2>2 DEF Word
<1>5. CASE w.lo = 0 /\ w.hi # 0
  <2>1. w.hi * Base = (w.hi - 1) * Base + Base
    BY <1>1
  <2>2. (w.hi - 1) * Base \in Nat
    BY <1>1, <1>5
  <2>3. Value(w) # 0
        /\ CountDown(Value(w)) = (w.hi - 1) * Base + (Base - 1)
    BY <1>1, <1>5, <2>1, <2>2 DEF Value, CountDown
  <2>4. v = [lo |-> Base - 1, hi |-> w.hi - 1]
    BY <1>1, <1>3, <1>5, <2>3
  <2> QED
    BY <1>1, <1>5, <2>4 DEF Word
<1>6. CASE w.lo = 0 /\ w.hi = 0
  <2>1. CountDown(Value(w)) = 0 * Base + 0
    BY <1>1, <1>6 DEF Value, CountDown
  <2>2. v = [lo |-> 0, hi |-> 0]
    BY <1>1, <1>3, <2>1
  <2> QED
    BY <1>2, <1>6, <2>2 DEF Word
<1> QED
  BY <1>1, <1>4, <1>5, <1>6

(* So a tick takes one from the value, down to zero.                       *)
LEMMA CountDownValue ==
  ASSUME NEW w \in Word
  PROVE  /\ Value(w) \in Nat
         /\ Value(WordOf(CountDown(Value(w)))) = CountDown(Value(w))
<1> DEFINE v == WordOf(CountDown(Value(w)))
<1>1. Base \in Nat \ {0} /\ w.lo \in 0 .. Base - 1 /\ w.hi \in 0 .. Base - 1
  BY TimerAssumption DEF Word
<1>2. w.hi * Base \in Nat
  BY <1>1
<1>3. w.hi # 0 => w.hi * Base = (w.hi - 1) * Base + Base
  BY <1>1
<1>4. /\ w.lo # 0 => v.lo = w.lo - 1 /\ v.hi = w.hi
      /\ w.lo = 0 /\ w.hi # 0 => v.lo = Base - 1 /\ v.hi = w.hi - 1
      /\ w.lo = 0 /\ w.hi = 0 => v = w
  BY CountDownWord
<1> HIDE DEF v
<1>5. Value(v) = CountDown(Value(w))
  <2>1. CASE w.lo # 0
    BY <1>1, <1>2, <1>4, <2>1 DEF Value, CountDown
  <2>2. CASE w.lo = 0 /\ w.hi # 0
    BY <1>1, <1>2, <1>3, <1>4, <2>2 DEF Value, CountDown
  <2>3. CASE w.lo = 0 /\ w.hi = 0
    BY <1>1, <1>4, <2>3 DEF Value, CountDown
  <2> QED
    BY <2>1, <2>2, <2>3
<1> QED
  BY <1>1, <1>2, <1>5 DEF v, Value

(* The two times of the code, as bytes.                                    *)
LEMMA TimeoutBytes ==
  ASSUME NEW w \in Loops
  PROVE  /\ Base \in Nat \ {0}
         /\ Timeout(w) \in Nat \ {0}
         /\ Timeout(w) < MaxTicks - 3
         /\ Timeout(w) % Base \in 1 .. Base - 1
         /\ HighByte(w) \in 0 .. Base - 1
         /\ HighByte(w) * Base + (Timeout(w) % Base) = Timeout(w)
<1> DEFINE t == Timeout(w)
           q == t \div Base
<1>1. Base \in Nat \ {0}
  BY TimerAssumption
<1>2. Base * Base \in Nat
  BY <1>1
<1>3. /\ t \in Nat \ {0} /\ t < Base * Base /\ t % Base # 0
      /\ t < MaxTicks - 3
  BY <1>2, TimerAssumption DEF Timeout, MaxTicks
<1> HIDE DEF t
<1>4. t = q * Base + (t % Base) /\ q \in Nat /\ t % Base \in 0 .. Base - 1
  BY <1>1, <1>3
<1> HIDE DEF q
<1>5. ~(Base <= q)
  <2>1. SUFFICES ASSUME Base <= q PROVE FALSE
    OBVIOUS
  <2>2. Base * Base <= q * Base
    BY <1>1, <1>4, <2>1
  <2>3. q * Base \in Nat
    BY <1>1, <1>4
  <2> QED
    BY <1>2, <1>3, <1>4, <2>2, <2>3
<1>6. t % Base \in 1 .. Base - 1 /\ q \in 0 .. Base - 1
  BY <1>1, <1>3, <1>4, <1>5
<1> QED
  BY <1>1, <1>3, <1>4, <1>6, Zenon DEF t, q, HighByte

-----------------------------------------------------------------------------
(* The inductive invariant.                                                *)

Timed == {"exchange", "test_low", "test_high"}

(* What is left of a time after t interrupts.                              *)
Left(w, t) == IF t <= Timeout(w) THEN Timeout(w) - t ELSE 0

(* A timer that is written: its low byte is, and does not borrow.          *)
HalfWritten ==
  step = "set_high" =>
    /\ ticks = IF ran THEN 0 ELSE 1
    /\ timer[loop].lo = (Timeout(loop) % Base) - ticks

(* A timer that is tested has counted every interrupt.                     *)
Counting == step \in Timed => Value(timer[loop]) = Left(loop, ticks)

(* No more than one interrupt comes between two steps of the loop, and     *)
(* none before the first of the wait.                                      *)
SinceLastStep == IF ran THEN 0 ELSE 1

Started == step \in Timed => ticks >= SinceLastStep

(* So the low byte was read at the last interrupt or after it.             *)
LowRead ==
  step = "test_high" => low = Left(loop, ticks - SinceLastStep) % Base

(* Each step of the round in which the timer runs down takes one.          *)
StepsOfRound ==
  CASE step = "exchange" -> 0 [] step = "test_low" -> 1 [] OTHER -> 2

OnTime ==
  step \in Timed => ticks <= Timeout(loop) + StepsOfRound + SinceLastStep

TimersInv ==
  /\ TimersTypeOK
  /\ HalfWritten /\ Counting /\ Started /\ LowRead /\ OnTime
  /\ TimesOutNotBefore

LEMMA TimersInvInit == TimersInit => TimersInv
<1> SUFFICES ASSUME TimersInit PROVE TimersInv
  OBVIOUS
<1>1. Base \in Nat \ {0} /\ 0 \in 0 .. Base - 1 /\ MaxTicks \in Nat
  BY TimerAssumption DEF MaxTicks
<1>2. WordOf(0) \in Word
  BY <1>1 DEF WordOf, Word
<1>3. TimersTypeOK
  <2>1. timer \in [Loops -> Word]
    BY <1>2 DEF TimersInit
  <2>2. ticks \in 0 .. MaxTicks
    BY <1>1 DEF TimersInit
  <2> QED
    BY <1>1, <2>1, <2>2 DEF TimersInit, TimersTypeOK, Loops
<1>4. step = "idle" /\ answer = "none"
  BY DEF TimersInit
<1> QED
  BY <1>3, <1>4 DEF TimersInv, HalfWritten, Counting, Started, LowRead, OnTime,
     TimesOutNotBefore, Timed

(* An interrupt.                                                           *)
LEMMA TimersInvTimerProc ==
  ASSUME TimersInv, TimerProc
  PROVE  TimersInv'
<1> USE DEF TimersInv
<1> DEFINE old == timer[loop]
<1>1. /\ loop \in Loops /\ ran /\ ran' = FALSE
      /\ ticks \in Nat /\ MaxTicks \in Nat /\ ticks <= MaxTicks /\ old \in Word
      /\ UNCHANGED <<loop, step, low, answer>>
  BY TimerAssumption DEF TimerProc, TimersTypeOK, MaxTicks
<1>2. timer'[loop] = WordOf(CountDown(Value(old)))
  BY <1>1 DEF TimerProc
<1>3. ticks' = IF ticks < MaxTicks THEN ticks + 1 ELSE ticks
  BY DEF TimerProc
<1>4. TimersTypeOK'
  <2>1. timer' \in [Loops -> Word]
    BY CountDownWord DEF TimerProc, TimersTypeOK
  <2>2. ticks' \in 0 .. MaxTicks
    BY <1>1, <1>3
  <2> QED
    BY <1>1, <2>1, <2>2 DEF TimersTypeOK
<1>5. step \in Timed \cup {"set_high"} => ticks' = ticks + 1
  BY <1>1, <1>3, TimeoutBytes
  DEF HalfWritten, OnTime, StepsOfRound, SinceLastStep, Timed
<1>6. HalfWritten'
  <2>1. SUFFICES ASSUME step = "set_high"
                 PROVE  /\ ticks' = 1
                        /\ timer'[loop].lo = (Timeout(loop) % Base) - 1
    BY <1>1 DEF HalfWritten
  <2>2. ticks = 0 /\ old.lo = Timeout(loop) % Base /\ old.lo # 0
    BY <1>1, <2>1, TimeoutBytes DEF HalfWritten
  <2> QED
    BY <1>1, <1>2, <1>5, <2>1, <2>2, CountDownWord
<1>7. Counting'
  <2>1. SUFFICES ASSUME step \in Timed
                 PROVE  Value(timer'[loop]) = Left(loop, ticks + 1)
    BY <1>1, <1>5 DEF Counting, Left
  <2>2. Value(timer'[loop]) = CountDown(Left(loop, ticks))
    BY <1>1, <1>2, <2>1, CountDownValue DEF Counting
  <2> QED
    BY <1>1, <2>2, TimeoutBytes DEF Left, CountDown
<1>8. Started' /\ OnTime'
  BY <1>1, <1>5, TimeoutBytes
  DEF Started, OnTime, StepsOfRound, SinceLastStep, Timed
<1>9. LowRead'
  BY <1>1, <1>5 DEF LowRead, SinceLastStep, Left, Timed
<1>10. TimesOutNotBefore'
  <2>1. LeastTicks(loop) \in Int /\ ticks' >= ticks
    BY <1>1, <1>3, TimeoutBytes DEF LeastTicks
  <2> QED
    BY <1>1, <1>3, <2>1 DEF TimesOutNotBefore, LeastTicks
<1> QED
  BY <1>4, <1>6, <1>7, <1>8, <1>9, <1>10

(* The steps up to the test.                                               *)
LEMMA TimersInvBeginWait ==
  ASSUME TimersInv, BeginWait
  PROVE  TimersInv'
<1>1. loop' \in Loops /\ ticks' = 0 /\ ran' = TRUE /\ step' = "set_high"
      /\ answer' = "none" /\ low' = low
      /\ timer' = [timer EXCEPT ![loop'].lo = Timeout(loop') % Base]
  BY DEF BeginWait
<1>2. timer \in [Loops -> Word]
  BY DEF TimersInv, TimersTypeOK
<1>3. Timeout(loop') % Base \in 0 .. Base - 1 /\ MaxTicks \in Nat
  BY <1>1, TimeoutBytes, TimerAssumption DEF MaxTicks
<1>4. timer' \in [Loops -> Word] /\ timer'[loop'].lo = Timeout(loop') % Base
  BY <1>1, <1>2, <1>3 DEF Word
<1>5. TimersTypeOK'
  BY <1>1, <1>3, <1>4 DEF TimersInv, TimersTypeOK
<1>6. HalfWritten'
  BY <1>1, <1>3, <1>4 DEF HalfWritten
<1> QED
  BY <1>1, <1>5, <1>6
  DEF TimersInv, Counting, Started, LowRead, OnTime, TimesOutNotBefore, Timed

LEMMA TimersInvSetHigh ==
  ASSUME TimersInv, SetHigh
  PROVE  TimersInv'
<1>1. loop \in Loops /\ ticks' = ticks /\ loop' = loop /\ ran' = TRUE
      /\ step' = "exchange" /\ low' = low /\ answer' = answer
      /\ timer' = [timer EXCEPT ![loop].hi = HighByte(loop)]
  BY DEF TimersInv, TimersTypeOK, SetHigh
<1>2. timer[loop] \in Word /\ ticks \in 0 .. 1
      /\ timer[loop].lo = (Timeout(loop) % Base) - ticks
  BY DEF TimersInv, TimersTypeOK, HalfWritten, SetHigh
<1>3. HighByte(loop) \in 0 .. Base - 1
  BY <1>1, TimeoutBytes
<1>4. timer' \in [Loops -> Word]
      /\ timer'[loop] = [timer[loop] EXCEPT !.hi = HighByte(loop)]
  BY <1>1, <1>3 DEF TimersInv, TimersTypeOK, Word
<1>5. TimersTypeOK'
  BY <1>1, <1>4 DEF TimersInv, TimersTypeOK
<1>6. Value(timer'[loop])
        = HighByte(loop) * Base + ((Timeout(loop) % Base) - ticks)
  BY <1>2, <1>4 DEF Value, Word
<1>7. Value(timer'[loop]) = Timeout(loop) - ticks
  <2>1. HighByte(loop) * Base \in Nat /\ Timeout(loop) % Base \in Nat
    BY <1>1, TimeoutBytes
  <2> QED
    BY <1>1, <1>2, <1>6, <2>1, TimeoutBytes
<1>8. Counting' /\ OnTime'
  BY <1>1, <1>2, <1>7, TimeoutBytes
  DEF Counting, OnTime, StepsOfRound, SinceLastStep, Left
<1> QED
  BY <1>1, <1>2, <1>5, <1>8
  DEF TimersInv, HalfWritten, Started, LowRead, TimesOutNotBefore, SinceLastStep

LEMMA TimersInvCardAnswers ==
  ASSUME TimersInv, CardAnswers
  PROVE  TimersInv'
BY DEF TimersInv, CardAnswers, TimersTypeOK, HalfWritten, Counting, Started,
   LowRead, OnTime, TimesOutNotBefore, Timed

LEMMA TimersInvCardIsBusy ==
  ASSUME TimersInv, CardIsBusy
  PROVE  TimersInv'
<1>1. UNCHANGED <<timer, loop, low, answer, ticks>> /\ step = "exchange"
      /\ step' = "test_low" /\ ran' = TRUE
  BY DEF CardIsBusy
<1>2. TimersTypeOK'
  BY <1>1 DEF TimersInv, TimersTypeOK
<1>3. loop \in Loops /\ ticks \in Nat
  BY DEF TimersInv, TimersTypeOK
<1>4. Started' /\ OnTime'
  BY <1>1, <1>3, TimeoutBytes
  DEF TimersInv, Started, OnTime, StepsOfRound, SinceLastStep, Timed
<1> QED
  BY <1>1, <1>2, <1>4
  DEF TimersInv, HalfWritten, Counting, LowRead, TimesOutNotBefore, Timed, Left

LEMMA TimersInvTestLow ==
  ASSUME TimersInv, TestLow
  PROVE  TimersInv'
<1>1. UNCHANGED <<timer, loop, answer, ticks>> /\ step = "test_low"
      /\ step' = "test_high" /\ ran' = TRUE /\ low' = timer[loop].lo
  BY DEF TestLow
<1>2. timer[loop] \in Word /\ loop \in Loops /\ ticks \in Nat
  BY DEF TimersInv, TimersTypeOK
<1>3. TimersTypeOK'
  BY <1>1, <1>2 DEF TimersInv, TimersTypeOK, Word
<1>4. Started' /\ OnTime'
  BY <1>1, <1>2, TimeoutBytes
  DEF TimersInv, Started, OnTime, StepsOfRound, SinceLastStep, Timed
<1>5. low' = Value(timer[loop]) % Base
  BY <1>1, <1>2, WordOfValue DEF Value, Word
<1>6. LowRead'
  BY <1>1, <1>2, <1>5
  DEF TimersInv, Counting, LowRead, SinceLastStep, Left, Timed
<1> QED
  BY <1>1, <1>3, <1>4, <1>6
  DEF TimersInv, HalfWritten, Counting, TimesOutNotBefore, Timed, Left

(* The test.  Both bytes are zero after the time; or the low byte was read *)
(* at the value Base, one interrupt before the high one.                   *)
LEMMA ZeroRead ==
  ASSUME TimersInv, step = "test_high", RunDown(low, timer[loop].hi)
  PROVE  ticks >= LeastTicks(loop)
<1> DEFINE t == Timeout(loop)
           v == timer[loop].lo
<1>1. loop \in Loops /\ timer[loop] \in Word /\ ticks \in Nat
      /\ Base \in Nat \ {0}
  BY TimerAssumption DEF TimersInv, TimersTypeOK
<1>2. t \in Nat \ {0} /\ LeastTicks(loop) <= t
  BY <1>1, TimeoutBytes DEF LeastTicks
<1>3. v \in 0 .. Base - 1 /\ v = Left(loop, ticks)
  BY <1>1 DEF TimersInv, Counting, Timed, Value, RunDown, Word
<1>4. Left(loop, ticks - SinceLastStep) % Base = 0 /\ ticks >= SinceLastStep
  BY DEF TimersInv, LowRead, Started, Timed, RunDown
<1>5. CASE ticks >= t
  BY <1>1, <1>2, <1>5 DEF LeastTicks
<1>6. CASE ticks < t
  <2>1. v = t - ticks /\ v > 0
    BY <1>1, <1>2, <1>3, <1>6 DEF Left
  <2>2. CASE ran
    <3>1. v % Base = v
      BY <1>1, <1>3
    <3>2. v % Base = 0
      BY <1>1, <1>3, <1>4, <2>2 DEF SinceLastStep
    <3> QED
      BY <2>1, <3>1, <3>2
  <2>3. CASE ~ran
    <3>1. ticks >= 1 /\ (v + 1) % Base = 0
      BY <1>1, <1>2, <1>4, <1>6, <2>1, <2>3 DEF SinceLastStep, Left
    <3>2. v + 1 >= Base
      <4>1. SUFFICES ASSUME v + 1 < Base PROVE FALSE
        BY <1>1, <1>3
      <4>2. (v + 1) % Base = v + 1
        BY <1>1, <1>3, <4>1
      <4> QED
        BY <1>3, <3>1, <4>2
    <3> QED
      BY <1>1, <1>2, <1>3, <2>1, <3>1, <3>2 DEF LeastTicks
  <2> QED
    BY <2>2, <2>3
<1> QED
  BY <1>1, <1>2, <1>5, <1>6

(* A test after the time finds both bytes zero, but for the one torn by    *)
(* the last interrupt.                                                     *)
LEMMA NotZeroRead ==
  ASSUME TimersInv, step = "test_high", ~RunDown(low, timer[loop].hi)
  PROVE  ticks <= Timeout(loop)
<1>1. SUFFICES ASSUME ticks > Timeout(loop) PROVE FALSE
  BY TimeoutBytes DEF TimersInv, TimersTypeOK
<1>2. loop \in Loops /\ timer[loop] \in Word /\ ticks \in Nat
      /\ Base \in Nat \ {0} /\ Timeout(loop) \in Nat
  BY TimerAssumption, TimeoutBytes DEF TimersInv, TimersTypeOK
<1>3. Left(loop, ticks) = 0 /\ Left(loop, ticks - SinceLastStep) = 0
  BY <1>1, <1>2 DEF Left, SinceLastStep
<1>4. 0 % Base = 0
  BY <1>2
<1>5. low = 0
  BY <1>3, <1>4 DEF TimersInv, LowRead
<1>6. timer[loop].hi * Base + timer[loop].lo = 0
  BY <1>3 DEF TimersInv, Counting, Timed, Value
<1>7. timer[loop].hi = 0
  <2>1. SUFFICES ASSUME timer[loop].hi # 0 PROVE FALSE
    OBVIOUS
  <2>2. timer[loop].hi \in Nat /\ timer[loop].lo \in Nat
    BY <1>2 DEF Word
  <2>3. timer[loop].hi * Base = (timer[loop].hi - 1) * Base + Base
        /\ (timer[loop].hi - 1) * Base \in Nat
    BY <1>2, <2>1, <2>2
  <2> QED
    BY <1>2, <1>6, <2>2, <2>3
<1> QED
  BY <1>5, <1>7 DEF RunDown

LEMMA TimersInvTestHigh ==
  ASSUME TimersInv, TestHigh
  PROVE  TimersInv'
<1>1. UNCHANGED <<timer, loop, low, ticks>> /\ step = "test_high"
      /\ ran' = TRUE
  BY DEF TestHigh
<1>2. loop \in Loops /\ ticks \in Nat
  BY DEF TimersInv, TimersTypeOK
<1>3. CASE RunDown(low, timer[loop].hi)
  <2>1. step' = "idle" /\ answer' = "timeout"
    BY <1>3 DEF TestHigh
  <2>2. TimersTypeOK'
    BY <1>1, <2>1 DEF TimersInv, TimersTypeOK
  <2>3. TimesOutNotBefore'
    BY <1>1, <1>3, <2>1, ZeroRead DEF TimesOutNotBefore, LeastTicks
  <2> QED
    BY <2>1, <2>2, <2>3
    DEF TimersInv, HalfWritten, Counting, Started, LowRead, OnTime, Timed
<1>4. CASE ~RunDown(low, timer[loop].hi)
  <2>1. step' = "exchange" /\ answer' = answer
    BY <1>4 DEF TestHigh
  <2>2. TimersTypeOK'
    BY <1>1, <2>1 DEF TimersInv, TimersTypeOK
  <2>3. Started' /\ OnTime'
    BY <1>1, <1>2, <1>4, <2>1, NotZeroRead, TimeoutBytes
    DEF Started, OnTime, StepsOfRound, SinceLastStep
  <2> QED
    BY <1>1, <2>1, <2>2, <2>3
    DEF TimersInv, HalfWritten, Counting, LowRead, TimesOutNotBefore, Timed,
        Left
<1> QED
  BY <1>3, <1>4

LEMMA TimersInvMainGoesOn ==
  ASSUME TimersInv, MainGoesOn
  PROVE  TimersInv'
BY DEF TimersInv, MainGoesOn, TimersTypeOK, HalfWritten, Counting, Started,
   LowRead, OnTime, TimesOutNotBefore, Timed

LEMMA TimersInvNext == TimersInv /\ [TimersNext]_timerVars => TimersInv'
<1> SUFFICES ASSUME TimersInv, [TimersNext]_timerVars PROVE TimersInv'
  OBVIOUS
<1>1. CASE UNCHANGED timerVars
  BY <1>1 DEF timerVars, TimersInv, TimersTypeOK, HalfWritten, Counting,
     Started, LowRead, OnTime, TimesOutNotBefore, Left, SinceLastStep,
     StepsOfRound
<1> QED
  BY <1>1, TimersInvTimerProc, TimersInvBeginWait, TimersInvSetHigh,
     TimersInvCardAnswers, TimersInvCardIsBusy, TimersInvTestLow,
     TimersInvTestHigh, TimersInvMainGoesOn
  DEF TimersNext, WaitStep, WaitGoesOn

THEOREM TimersInvariance == TimersSpec => []TimersInv
  BY TimersInvInit, TimersInvNext, PTL DEF TimersSpec

(* The bytes of the timers, and of the count, stay in their range.         *)
THEOREM TimersTypeCorrect == TimersSpec => []TimersTypeOK
<1>1. TimersInv => TimersTypeOK
  BY DEF TimersInv
<1> QED
  BY <1>1, TimersInvariance, PTL

(* No wait ends more than Base - 1 interrupts before its time, and one of  *)
(* less than Base interrupts never ends too early.                         *)
THEOREM NeverMuchTooEarly == TimersSpec => []TimesOutNotBefore
<1>1. TimersInv => TimesOutNotBefore
  BY DEF TimersInv
<1> QED
  BY <1>1, TimersInvariance, PTL

(* A wait that the timer has run down in ends within three interrupts,     *)
(* although disk_timerproc may run between the two reads of the test.      *)
THEOREM NeverTooLate == TimersSpec => []TimesOutInTime
<1>1. TimersInv => TimesOutInTime
  <2>1. SUFFICES ASSUME TimersInv, step # "idle"
                 PROVE  ticks <= Timeout(loop) + 3
    BY DEF TimesOutInTime
  <2>2. loop \in Loops /\ ticks \in Nat
        /\ step \in Timed \cup {"set_high"}
    BY <2>1 DEF TimersInv, TimersTypeOK, Timed
  <2> QED
    BY <2>1, <2>2, TimeoutBytes
    DEF TimersInv, HalfWritten, OnTime, StepsOfRound, SinceLastStep
<1> QED
  BY <1>1, TimersInvariance, PTL
=============================================================================
