------------------------- MODULE BootVectors_proofs -------------------------
(***************************************************************************)
(* Which instructions of the bootloader an interrupt can reach, for any    *)
(* timers and however the switch is moved; where it goes; and that main    *)
(* and the interrupts use the timers as DiskTimers says.                   *)
(***************************************************************************)
EXTENDS BootVectors, DiskTimers_proofs

(* The registers as far as the argument needs them.                        *)
ControlType ==
  intcon \in [gieh : BOOLEAN, giel : BOOLEAN,
              tmr0ie : BOOLEAN, tmr0if : BOOLEAN]

IInv == ControlType /\ QuietBeforeChoice /\ MaskedWhileUnlocking

LEMMA IInvInit == Init => IInv
  BY DEF Init, IInv, ControlType, QuietBeforeChoice, MaskedWhileUnlocking,
         StartUp, HandOver, UnlockSteps

(* The steps that leave the place in main, and what protects it, alone.    *)
LEMMA IInvStutter ==
  ASSUME IInv, UNCHANGED <<main, cpuVars>>
  PROVE  IInv'
  BY DEF IInv, ControlType, QuietBeforeChoice, MaskedWhileUnlocking, cpuVars

LEMMA IInvStartUp ==
  ASSUME IInv,
         \/ SetUpTimer \/ EnableTimerInterrupt \/ EnableHigh \/ EnableLow
         \/ TestSwitch \/ TurnTimerOn
  PROVE  IInv'
<1> USE DEF Runs, IInv, ControlType, QuietBeforeChoice,
            MaskedWhileUnlocking, StartUp, HandOver, UnlockSteps
<1>1. CASE SetUpTimer            BY <1>1 DEF SetUpTimer
<1>2. CASE EnableTimerInterrupt  BY <1>2 DEF EnableTimerInterrupt
<1>3. CASE EnableHigh            BY <1>3 DEF EnableHigh
<1>4. CASE EnableLow             BY <1>4 DEF EnableLow
<1>5. CASE TestSwitch            BY <1>5 DEF TestSwitch
<1>6. CASE TurnTimerOn           BY <1>6 DEF TurnTimerOn
<1> QED BY <1>1, <1>2, <1>3, <1>4, <1>5, <1>6

LEMMA IInvHandOver ==
  ASSUME IInv,
         DisableTimerInterrupt \/ DisableHigh \/ DisableLow \/ StopTimer
  PROVE  IInv'
<1> USE DEF Runs, IInv, ControlType, QuietBeforeChoice,
            MaskedWhileUnlocking, StartUp, HandOver, UnlockSteps
<1>1. CASE DisableTimerInterrupt BY <1>1 DEF DisableTimerInterrupt
<1>2. CASE DisableHigh           BY <1>2 DEF DisableHigh
<1>3. CASE DisableLow            BY <1>3 DEF DisableLow
<1>4. CASE StopTimer             BY <1>4 DEF StopTimer
<1> QED BY <1>1, <1>2, <1>3, <1>4

LEMMA IInvCommit ==
  ASSUME IInv,
         \/ InterruptsOff \/ Unlock1 \/ Unlock2 \/ WriteCommand
         \/ InterruptsOn \/ EndSession \/ Halt \/ UserEnablesInterrupts
  PROVE  IInv'
<1> USE DEF Runs, IInv, ControlType, QuietBeforeChoice,
            MaskedWhileUnlocking, StartUp, HandOver, UnlockSteps
<1>1. CASE InterruptsOff         BY <1>1 DEF InterruptsOff
<1>2. CASE Unlock1               BY <1>2 DEF Unlock1
<1>3. CASE Unlock2               BY <1>3 DEF Unlock2
<1>4. CASE WriteCommand          BY <1>4 DEF WriteCommand
<1>5. CASE InterruptsOn          BY <1>5 DEF InterruptsOn
<1>6. CASE EndSession            BY <1>6 DEF EndSession
<1>7. CASE Halt                  BY <1>7 DEF Halt
<1>8. CASE UserEnablesInterrupts BY <1>8 DEF UserEnablesInterrupts
<1> QED BY <1>1, <1>2, <1>3, <1>4, <1>5, <1>6, <1>7, <1>8

(* An interrupt needs GIEH and TMR0IF, and TMR0IF a running timer.         *)
LEMMA IInvInterrupt ==
  ASSUME IInv, Timer0Overflow \/ LowVector \/ LowPriorityISR \/ UserISR
  PROVE  IInv'
<1> USE DEF IInv, ControlType, QuietBeforeChoice, MaskedWhileUnlocking
<1>1. CASE Timer0Overflow BY <1>1 DEF Timer0Overflow
<1>2. CASE LowVector
  <2>1. intcon.gieh /\ intcon.tmr0if
    BY <1>2 DEF LowVector, InterruptPending
  <2>2. main \notin StartUp \cup HandOver \cup {"boot"} /\ main \notin UnlockSteps
    BY <2>1
  <2> QED BY <1>2, <2>2 DEF LowVector
<1>3. CASE LowPriorityISR
  <2>1. main \notin StartUp \cup HandOver \cup {"boot"} /\ main \notin UnlockSteps
    BY <1>3 DEF LowPriorityISR
  <2> QED BY <1>3, <2>1 DEF LowPriorityISR
<1>4. CASE UserISR
  <2>1. main = "user" BY <1>4 DEF UserISR
  <2> QED BY <1>4, <2>1 DEF UserISR, StartUp, HandOver, UnlockSteps
<1> QED BY <1>1, <1>2, <1>3, <1>4

LEMMA IInvNext == IInv /\ [Next]_vars => IInv'
<1> SUFFICES ASSUME IInv, [Next]_vars PROVE IInv'
  OBVIOUS
<1>1. CASE WaitForCard \/ StartWait \/ CardReplies
  BY <1>1, IInvStutter DEF WaitForCard, StartWait, CardReplies, InSession
<1>2. CASE MoveSwitch
  BY <1>2, IInvStutter DEF MoveSwitch
<1>3. CASE Astray \/ UNCHANGED vars
  BY <1>3, IInvStutter DEF Astray, vars
<1> QED
  BY <1>1, <1>2, <1>3, IInvStartUp, IInvHandOver, IInvCommit, IInvInterrupt
  DEF Next, MainStep

THEOREM Invariance == Spec => []IInv
  BY IInvInit, IInvNext, PTL DEF Spec

(* The unlock sequence of flash_commit is not interrupted, whatever the    *)
(* timer, the card and the switch do.                                      *)
THEOREM UnlockSafe == Spec => []UnlockUninterrupted
<1>1. IInv => UnlockUninterrupted
  BY DEF IInv, MaskedWhileUnlocking, UnlockUninterrupted
<1> QED BY <1>1, Invariance, PTL

(* No interrupt before main has chosen a program and, for the user         *)
(* program, has jumped to it.                                              *)
THEOREM StartUpSafe == Spec => []NoEarlyInterrupt
<1>1. IInv => NoEarlyInterrupt
  BY DEF IInv, QuietBeforeChoice, NoEarlyInterrupt
<1> QED BY <1>1, Invariance, PTL

-----------------------------------------------------------------------------
(* Where an interrupt goes.                                                *)

Places == StartUp \cup BootMode \cup HandOver \cup {"user"}

(* Until it is moved, the switch stands as main has found it.              *)
ModeIsSwitch ==
  ~moved => /\ main \in BootMode => switchOn
            /\ main \in HandOver \cup {"user"} => ~switchOn

ModeType == /\ main \in Places
            /\ context \in {"main", "boot_isr", "user_isr"}
            /\ switchOn \in BOOLEAN /\ moved \in BOOLEAN

ModeInv == ModeType /\ ModeIsSwitch /\ VectorsFollowMode

LEMMA ModeInvInit == Init => ModeInv
  BY DEF Init, ModeInv, ModeType, Places, ModeIsSwitch, VectorsFollowMode,
         ModeFixedAtStartup, StartUp, BootMode, UnlockSteps, HandOver

(* A step of main, which is not interrupted.                               *)
LEMMA ModeInvRuns ==
  ASSUME ModeInv, NEW from \in Places, NEW to \in Places, Runs(from, to),
         \/ from \in BootMode /\ to \in BootMode
         \/ from \in HandOver \cup {"user"} /\ to \in HandOver \cup {"user"}
         \/ to \in StartUp
         \/ ~moved => IF switchOn THEN to \in BootMode ELSE to \in HandOver
  PROVE  ModeInv'
<1>1. /\ main = from /\ main' = to /\ context' = "main"
      /\ UNCHANGED <<switchOn, moved>>
  BY DEF Runs, switchVars
<1>2. ModeType'
  BY <1>1 DEF ModeInv, ModeType, Places
<1>3. VectorsFollowMode'
  BY <1>1 DEF VectorsFollowMode, ModeFixedAtStartup
<1>4. ModeIsSwitch'
  BY <1>1 DEF ModeInv, ModeType, ModeIsSwitch, StartUp, BootMode,
              UnlockSteps, HandOver
<1> QED
  BY <1>2, <1>3, <1>4 DEF ModeInv

LEMMA ModeInvMainSteps ==
  ASSUME ModeInv,
         \/ SetUpTimer \/ EnableTimerInterrupt \/ EnableHigh \/ EnableLow
         \/ TestSwitch \/ TurnTimerOn
         \/ DisableTimerInterrupt \/ DisableHigh \/ DisableLow \/ StopTimer
         \/ InterruptsOff \/ Unlock1 \/ Unlock2 \/ WriteCommand
         \/ InterruptsOn \/ EndSession \/ Halt \/ UserEnablesInterrupts
  PROVE  ModeInv'
<1> DEFINE Fits(from, to) ==
      \/ from \in BootMode /\ to \in BootMode
      \/ from \in HandOver \cup {"user"} /\ to \in HandOver \cup {"user"}
      \/ to \in StartUp
<1>1. ASSUME NEW from \in Places, NEW to \in Places, Runs(from, to),
             Fits(from, to)
      PROVE  ModeInv'
  BY <1>1, ModeInvRuns
<1>2. CASE TestSwitch
  <2>1. Runs("started", IF switchOn THEN "boot" ELSE "handover")
    BY <1>2 DEF TestSwitch
  <2>2. /\ "started" \in Places
        /\ (IF switchOn THEN "boot" ELSE "handover") \in Places
        /\ IF switchOn
             THEN (IF switchOn THEN "boot" ELSE "handover") \in BootMode
             ELSE (IF switchOn THEN "boot" ELSE "handover") \in HandOver
    BY DEF Places, StartUp, BootMode, UnlockSteps, HandOver
  <2> QED
    BY <2>1, <2>2, ModeInvRuns
<1> USE DEF Places, StartUp, BootMode, UnlockSteps, HandOver
<1>3. CASE SetUpTimer \/ EnableTimerInterrupt \/ EnableHigh \/ EnableLow
  BY <1>1, <1>3 DEF SetUpTimer, EnableTimerInterrupt, EnableHigh, EnableLow
<1>4. CASE TurnTimerOn \/ EndSession \/ Halt
  BY <1>1, <1>4 DEF TurnTimerOn, EndSession, Halt
<1>5. CASE InterruptsOff \/ Unlock1 \/ Unlock2 \/ WriteCommand \/ InterruptsOn
  BY <1>1, <1>5
  DEF InterruptsOff, Unlock1, Unlock2, WriteCommand, InterruptsOn
<1>6. CASE DisableTimerInterrupt \/ DisableHigh \/ DisableLow \/ StopTimer
  BY <1>1, <1>6 DEF DisableTimerInterrupt, DisableHigh, DisableLow, StopTimer
<1>7. CASE UserEnablesInterrupts
  BY <1>1, <1>7 DEF UserEnablesInterrupts
<1> QED
  BY <1>2, <1>3, <1>4, <1>5, <1>6, <1>7

(* An interrupt is taken only when the program that the switch has chosen  *)
(* runs; moving the switch before the choice is harmless.                  *)
LEMMA ModeInvInterrupt ==
  ASSUME IInv, ModeInv,
         Timer0Overflow \/ LowVector \/ LowPriorityISR \/ UserISR \/ MoveSwitch
  PROVE  ModeInv'
<1>1. CASE Timer0Overflow
  BY <1>1 DEF Timer0Overflow, ModeInv, ModeType, ModeIsSwitch,
     VectorsFollowMode, ModeFixedAtStartup, switchVars
<1>2. CASE LowVector
  <2>1. UNCHANGED <<main, switchOn, moved>> /\ context' = VectorTarget
    BY <1>2 DEF LowVector, switchVars
  <2>2. main \notin StartUp \cup HandOver \cup {"boot"}
    BY <1>2 DEF LowVector, InterruptPending, IInv, QuietBeforeChoice
  <2>3. main \in BootMode \cup {"user"}
    BY <2>2 DEF ModeInv, ModeType, Places
  <2>4. ~moved => IF switchOn THEN main \in BootMode ELSE main = "user"
    BY <2>3 DEF ModeInv, ModeIsSwitch
  <2>5. ModeType' /\ ModeIsSwitch'
    BY <2>1 DEF VectorTarget, ModeInv, ModeType, ModeIsSwitch
  <2>6. VectorsFollowMode'
    BY <2>1, <2>4 DEF VectorTarget, VectorsFollowMode, ModeFixedAtStartup
  <2> QED
    BY <2>5, <2>6 DEF ModeInv
<1>3. CASE LowPriorityISR \/ UserISR
  BY <1>3 DEF LowPriorityISR, UserISR, ModeInv, ModeType, ModeIsSwitch,
     VectorsFollowMode, ModeFixedAtStartup, switchVars
<1>4. CASE MoveSwitch
  <2>1. /\ UNCHANGED <<main, context>> /\ switchOn' = ~switchOn
        /\ moved' = (moved \/ main \notin StartUp)
    BY <1>4 DEF MoveSwitch, cpuVars
  <2>2. ModeType'
    BY <2>1 DEF ModeInv, ModeType
  <2>3. ModeIsSwitch'
    BY <2>1 DEF ModeIsSwitch, StartUp, BootMode, UnlockSteps, HandOver
  <2>4. VectorsFollowMode'
    BY <2>1 DEF IInv, QuietBeforeChoice, VectorsFollowMode, ModeFixedAtStartup
  <2> QED
    BY <2>2, <2>3, <2>4 DEF ModeInv
<1> QED
  BY <1>1, <1>2, <1>3, <1>4

LEMMA ModeInvNext == IInv /\ ModeInv /\ [Next]_vars => ModeInv'
<1> SUFFICES ASSUME IInv, ModeInv, [Next]_vars PROVE ModeInv'
  OBVIOUS
<1>1. CASE WaitForCard \/ StartWait \/ CardReplies
  BY <1>1 DEF WaitForCard, StartWait, CardReplies, InSession, cpuVars,
     switchVars, ModeInv, ModeType, ModeIsSwitch, VectorsFollowMode,
     ModeFixedAtStartup
<1>2. CASE Astray \/ UNCHANGED vars
  BY <1>2 DEF Astray, vars, cpuVars, switchVars, ModeInv, ModeType,
     ModeIsSwitch, VectorsFollowMode, ModeFixedAtStartup
<1> QED
  BY <1>1, <1>2, ModeInvMainSteps, ModeInvInterrupt DEF Next, MainStep

(* As long as nobody moves the switch, every interrupt goes to the program *)
(* that main has chosen.                                                   *)
THEOREM ModeKept == Spec => []VectorsFollowMode
<1>1. Spec => []ModeInv
  BY Invariance, ModeInvInit, ModeInvNext, PTL DEF Spec
<1>2. ModeInv => VectorsFollowMode
  BY DEF ModeInv
<1> QED
  BY <1>1, <1>2, PTL

-----------------------------------------------------------------------------
(* The timers.                                                             *)

(* Whatever the processor does is a step of the timers or leaves them      *)
(* alone.                                                                  *)
LEMMA StepOfTimers == [Next]_vars => [TimersNext]_timerVars
<1> SUFFICES ASSUME [Next]_vars PROVE TimersNext \/ UNCHANGED timerVars
  BY DEF timerVars
<1>1. CASE WaitForCard \/ StartWait \/ CardReplies
  BY <1>1 DEF WaitForCard, StartWait, CardReplies, TimersNext, WaitStep
<1>2. CASE \/ SetUpTimer \/ EnableTimerInterrupt \/ EnableHigh \/ EnableLow
           \/ TestSwitch \/ TurnTimerOn
           \/ DisableTimerInterrupt \/ DisableHigh \/ DisableLow \/ StopTimer
  BY <1>2 DEF SetUpTimer, EnableTimerInterrupt, EnableHigh, EnableLow,
     TestSwitch, TurnTimerOn, DisableTimerInterrupt, DisableHigh, DisableLow,
     StopTimer, Runs, TimersNext
<1>3. CASE \/ InterruptsOff \/ Unlock1 \/ Unlock2 \/ WriteCommand
           \/ InterruptsOn \/ EndSession \/ Halt \/ UserEnablesInterrupts
  BY <1>3 DEF InterruptsOff, Unlock1, Unlock2, WriteCommand, InterruptsOn,
     EndSession, Halt, UserEnablesInterrupts, Runs, TimersNext
<1>4. CASE LowPriorityISR
  BY <1>4 DEF LowPriorityISR, TimersNext
<1>5. CASE Timer0Overflow \/ LowVector \/ UserISR \/ MoveSwitch \/ Astray
           \/ UNCHANGED vars
  BY <1>5 DEF Timer0Overflow, LowVector, UserISR, MoveSwitch, Astray, vars
<1> QED
  BY <1>1, <1>2, <1>3, <1>4, <1>5 DEF Next, MainStep

(* The firmware uses the timers as DiskTimers says they are used.          *)
THEOREM ImplementsTimers == Spec => TimersSpec
<1>1. Init => TimersInit
  BY DEF Init
<1> QED
  BY <1>1, StepOfTimers, PTL DEF Spec, TimersSpec

(* So in the firmware too a wait for the card ends neither much too early  *)
(* nor too late.                                                           *)
THEOREM WaitsKeepTime == Spec => [](TimesOutNotBefore /\ TimesOutInTime)
  BY ImplementsTimers, NeverMuchTooEarly, NeverTooLate, PTL

(* Every register and variable keeps its type.                             *)
THEOREM TypeCorrect == Spec => []TypeOK
<1>1. Spec => []ModeInv
  BY Invariance, ModeInvInit, ModeInvNext, PTL DEF Spec
<1>2. (tmr0on \in BOOLEAN) /\ [Next]_vars => (tmr0on \in BOOLEAN)'
  BY DEF Next, MainStep, SetUpTimer, EnableTimerInterrupt, EnableHigh,
     EnableLow, TestSwitch, TurnTimerOn, DisableTimerInterrupt, DisableHigh,
     DisableLow, StopTimer, InterruptsOff, Unlock1, Unlock2, WriteCommand,
     InterruptsOn, EndSession, Halt, UserEnablesInterrupts, WaitForCard,
     StartWait, CardReplies, InSession, Timer0Overflow, LowVector,
     LowPriorityISR, UserISR, MoveSwitch, Astray, vars, cpuVars
<1>3. Spec => [](tmr0on \in BOOLEAN)
  <2>1. Init => tmr0on \in BOOLEAN
    BY DEF Init
  <2> QED
    BY <1>2, <2>1, PTL DEF Spec
<1>4. Spec => []TimersTypeOK
  BY ImplementsTimers, TimersTypeCorrect, PTL
<1>5. IInv /\ ModeInv /\ tmr0on \in BOOLEAN /\ TimersTypeOK => TypeOK
  BY DEF IInv, ControlType, ModeInv, ModeType, Places, TypeOK
<1> QED
  BY <1>1, <1>3, <1>4, <1>5, Invariance, PTL
=============================================================================
