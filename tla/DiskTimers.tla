----------------------------- MODULE DiskTimers -----------------------------
(***************************************************************************)
(* Timer1 and Timer2 of diskio.c: the two loops that wait for the card     *)
(* until a timer has run down, and disk_timerproc, which counts both down  *)
(* from the timer interrupt.                                               *)
(*                                                                         *)
(* The timers are 16 bits wide on a processor of 8 bits, and no interrupt  *)
(* is held off while they are used.  As built (bin/PicBoot.hex) a timer is *)
(* written low byte first and tested by reading the low byte, then the     *)
(* high one; the interrupt may come in between.                            *)
(***************************************************************************)
EXTENDS Integers

CONSTANTS
  Base,             \* values of a byte                              (256)
  ReadyTicks,       \* Timer2 of wait_ready                          (500)
  TokenTicks        \* Timer1 of disk_readp                          (200)

(* A low byte that starts at zero could be borrowed from before the high   *)
(* one is written; the two constants of the code do not.                   *)
ASSUME TimerAssumption ==
  /\ Base \in Nat \ {0}
  /\ ReadyTicks \in 1 .. Base * Base - 1 /\ ReadyTicks % Base # 0
  /\ TokenTicks \in 1 .. Base * Base - 1 /\ TokenTicks % Base # 0

Loops == {"ready", "token"}

Timeout(loop) == IF loop = "ready" THEN ReadyTicks ELSE TokenTicks

VARIABLES
  timer,            \* Timer2 for "ready", Timer1 for "token"
  loop,             \* the loop that waits, or the last one that did
  step,             \* where it is; "idle" outside the loops
  low,              \* the low byte as the test has read it
  answer,           \* how the last wait ended: "none", "card", "timeout"
  ticks,            \* history: interrupts since the timer was first written
  ran               \* the main program has run since the last interrupt

timerVars == <<timer, loop, step, low, answer, ticks, ran>>

Word == [lo : 0 .. Base - 1, hi : 0 .. Base - 1]

Value(word) == word.hi * Base + word.lo

WordOf(n) == [lo |-> n % Base, hi |-> (n \div Base) % Base]

(* More interrupts than this are not counted.                              *)
MaxTicks == ReadyTicks + TokenTicks + 8

TimersTypeOK ==
  /\ timer \in [Loops -> Word]
  /\ loop \in Loops
  /\ step \in {"idle", "set_high", "exchange", "test_low", "test_high"}
  /\ low \in 0 .. Base - 1
  /\ answer \in {"none", "card", "timeout"}
  /\ ticks \in 0 .. MaxTicks
  /\ ran \in BOOLEAN

TimersInit ==
  /\ timer = [w \in Loops |-> WordOf(0)]
  /\ loop = "ready"
  /\ step = "idle"
  /\ low = 0
  /\ answer = "none"
  /\ ticks = 0
  /\ ran = FALSE

(* disk_timerproc.                                                         *)
CountDownAlways(n) == (n - 1) % (Base * Base)      \* mutant: no test for zero

CountDown(n) == IF n # 0 THEN n - 1 ELSE n

(* An interrupt takes much less than the time between two of them, so that *)
(* the main program gets on in between.                                    *)
TimerProc ==
  /\ ran
  /\ timer' = [w \in Loops |-> WordOf(CountDown(Value(timer[w])))]
  /\ ticks' = IF ticks < MaxTicks THEN ticks + 1 ELSE ticks
  /\ ran' = FALSE
  /\ UNCHANGED <<loop, step, low, answer>>

-----------------------------------------------------------------------------
(* `Timer2 = 500' and `Timer1 = 200', in two instructions.                 *)
BeginWait ==
  /\ step = "idle"
  /\ loop' \in Loops
  /\ timer' = [timer EXCEPT ![loop'].lo = Timeout(loop') % Base]
  /\ step' = "set_high"
  /\ answer' = "none"
  /\ ticks' = 0
  /\ ran' = TRUE
  /\ UNCHANGED low

HighByteUnshifted(w) == Timeout(w) \* mutant: not divided by Base

HighByte(w) == Timeout(w) \div Base

SetHigh ==
  /\ step = "set_high"
  /\ timer' = [timer EXCEPT ![loop].hi = HighByte(loop)]
  /\ step' = "exchange"
  /\ ran' = TRUE
  /\ UNCHANGED <<loop, low, answer, ticks>>

(* rcvr_spi: the card is ready, or has sent something; or it has not.      *)
CardAnswers ==
  /\ step = "exchange"
  /\ step' = "idle"
  /\ answer' = "card"
  /\ ran' = TRUE
  /\ UNCHANGED <<timer, loop, low, ticks>>

CardIsBusy ==
  /\ step = "exchange"
  /\ step' = "test_low"
  /\ ran' = TRUE
  /\ UNCHANGED <<timer, loop, low, answer, ticks>>

(* `&& Timer2', `&& Timer1'.                                               *)
TestLow ==
  /\ step = "test_low"
  /\ low' = timer[loop].lo
  /\ step' = "test_high"
  /\ ran' = TRUE
  /\ UNCHANGED <<timer, loop, answer, ticks>>

RunDownLowOnly(lowByte, highByte) == lowByte = 0     \* mutant: a timer of 8 bits

RunDown(lowByte, highByte) == lowByte = 0 /\ highByte = 0

TestHigh ==
  /\ step = "test_high"
  /\ IF RunDown(low, timer[loop].hi)
       THEN step' = "idle" /\ answer' = "timeout"
       ELSE step' = "exchange" /\ UNCHANGED answer
  /\ ran' = TRUE
  /\ UNCHANGED <<timer, loop, low, ticks>>

(* The steps of a loop that do not need the card.                          *)
WaitGoesOn == SetHigh \/ CardIsBusy \/ TestLow \/ TestHigh

WaitStep == WaitGoesOn \/ CardAnswers

(* The rest of the main program, outside the loops.                        *)
MainGoesOn ==
  /\ step = "idle"
  /\ ran' = TRUE
  /\ UNCHANGED <<timer, loop, step, low, answer, ticks>>

TimersNext == TimerProc \/ BeginWait \/ WaitStep \/ MainGoesOn

TimersSpec == TimersInit /\ [][TimersNext]_timerVars

-----------------------------------------------------------------------------
(* A wait that times out has taken the time it was given or, when the high *)
(* byte was read one interrupt later than the low one, as the value went   *)
(* from Base to Base - 1, all but Base - 1 interrupts of it.               *)
LeastTicks(w) ==
  IF Timeout(w) < Base THEN Timeout(w) ELSE Timeout(w) - Base + 1

(* Comments at diskio.c:80 and diskio.c:246 allow the card 500 and 200     *)
(* interrupts; this is what it can count on.                               *)
TimesOutNotBefore ==
  step = "idle" /\ answer = "timeout" => ticks >= LeastTicks(loop)

(* A wait goes on for at most one round of the loop after its time, though *)
(* the loop may have missed the interrupt at which the timer ran down.     *)
TimesOutInTime == step # "idle" => ticks <= Timeout(loop) + 3
=============================================================================
