---------------------------- MODULE BootVectors ----------------------------
(***************************************************************************)
(* Who gets the processor: main and InitializeApplication of main.c, the   *)
(* two remapped interrupt vectors, the bootloader's service routine, and   *)
(* the places of a session that depend on interrupts or must not meet one: *)
(* the waits of the disk driver and the unlock sequence of flash_commit.   *)
(*                                                                         *)
(* The switch is an input pin that may be moved at any time, not only at   *)
(* the reset.  The only interrupt the bootloader uses is Timer 0, at low   *)
(* priority.                                                               *)
(***************************************************************************)
EXTENDS DiskTimers

VARIABLES
  switchOn,         \* BOOTLDR_SWITCH == SWITCH_ON
  moved,            \* history: it has been moved since main looked at it
  main,             \* the place in main, or in what it calls
  context,          \* whose code runs: "main", "boot_isr", "user_isr"
  intcon,           \* GIEH, GIEL, TMR0IE and TMR0IF
  tmr0on            \* T0CON: the timer is on and counts instructions

cpuVars == <<context, intcon, tmr0on>>

switchVars == <<switchOn, moved>>

vars == <<timerVars, switchVars, main, cpuVars>>

StartUp == {"reset", "timer_set", "ie_set", "high_set", "started"}
UnlockSteps == {"gie_off", "unlock1", "unlock2"}
BootMode ==
  {"boot", "session", "committed", "halt"} \cup UnlockSteps
HandOver == {"handover", "ie_off", "high_off", "low_off"}

TypeOK ==
  /\ TimersTypeOK
  /\ switchOn \in BOOLEAN /\ moved \in BOOLEAN
  /\ main \in StartUp \cup BootMode \cup HandOver \cup {"user"}
  /\ context \in {"main", "boot_isr", "user_isr"}
  /\ intcon \in [gieh : BOOLEAN, giel : BOOLEAN,
                 tmr0ie : BOOLEAN, tmr0if : BOOLEAN]
  /\ tmr0on \in BOOLEAN

(* A reset sets all bits of T0CON: until main.c:185 the timer is on, but   *)
(* counts edges of T0CKI.  No pin is chosen for that input (RPINR4 is      *)
(* never written), so it is taken not to count.                            *)
Init ==
  /\ TimersInit
  /\ switchOn \in BOOLEAN
  /\ moved = FALSE
  /\ main = "reset"
  /\ context = "main"
  /\ intcon = [gieh |-> FALSE, giel |-> FALSE,
               tmr0ie |-> FALSE, tmr0if |-> FALSE]
  /\ tmr0on = FALSE

-----------------------------------------------------------------------------
(* Steps of main.  A step that is not one of a wait lets the interrupt     *)
(* come again.                                                             *)
Runs(from, to) ==
  /\ context = "main"
  /\ main = from
  /\ main' = to
  /\ MainGoesOn
  /\ UNCHANGED <<switchVars, context>>

(* InitializeApplication.                                                  *)
SetUpTimerRunning ==               \* mutant: T0CON = 0xC3
  Runs("reset", "timer_set") /\ tmr0on' = TRUE /\ UNCHANGED intcon

SetUpTimer ==
  Runs("reset", "timer_set") /\ tmr0on' = FALSE /\ UNCHANGED intcon

EnableTimerInterrupt ==
  /\ Runs("timer_set", "ie_set")
  /\ intcon' = [intcon EXCEPT !.tmr0ie = TRUE]
  /\ UNCHANGED tmr0on

EnableHigh ==
  /\ Runs("ie_set", "high_set")
  /\ intcon' = [intcon EXCEPT !.gieh = TRUE]
  /\ UNCHANGED tmr0on

EnableLow ==
  /\ Runs("high_set", "started")
  /\ intcon' = [intcon EXCEPT !.giel = TRUE]
  /\ UNCHANGED tmr0on

(* The switch decides.                                                     *)
TestSwitch ==
  /\ Runs("started", IF switchOn THEN "boot" ELSE "handover")
  /\ UNCHANGED <<intcon, tmr0on>>

(* Bootldr_Initialize turns the timer on.                                  *)
TurnTimerOn ==
  Runs("boot", "session") /\ tmr0on' = TRUE /\ UNCHANGED intcon

(* The jump to the user program.                                           *)
DisableTimerInterrupt ==
  /\ Runs("handover", "ie_off")
  /\ intcon' = [intcon EXCEPT !.tmr0ie = FALSE]
  /\ UNCHANGED tmr0on

DisableHigh ==
  /\ Runs("ie_off", "high_off")
  /\ intcon' = [intcon EXCEPT !.gieh = FALSE]
  /\ UNCHANGED tmr0on

DisableLow ==
  /\ Runs("high_off", "low_off")
  /\ intcon' = [intcon EXCEPT !.giel = FALSE]
  /\ UNCHANGED tmr0on

StopTimer ==
  Runs("low_off", "user") /\ tmr0on' = FALSE /\ UNCHANGED intcon

-----------------------------------------------------------------------------
(* A session: waits for the card, flash_commit in between.                 *)
InSession ==
  /\ context = "main"
  /\ main = "session"
  /\ UNCHANGED <<switchVars, main, cpuVars>>

StartWait == InSession /\ BeginWait

WaitForCard == InSession /\ WaitGoesOn

CardReplies == InSession /\ CardAnswers

(* flash_commit: GIE off, 0x55, 0xAA, WR, GIE on.                          *)
InterruptsOffForgotten ==          \* mutant: GIE is not cleared
  /\ Runs("session", "gie_off")
  /\ UNCHANGED <<intcon, tmr0on>>

InterruptsOff ==
  /\ Runs("session", "gie_off")
  /\ intcon' = [intcon EXCEPT !.gieh = FALSE]
  /\ UNCHANGED tmr0on

Unlock1 == Runs("gie_off", "unlock1") /\ UNCHANGED <<intcon, tmr0on>>

Unlock2 == Runs("unlock1", "unlock2") /\ UNCHANGED <<intcon, tmr0on>>

WriteCommand == Runs("unlock2", "committed") /\ UNCHANGED <<intcon, tmr0on>>

InterruptsStayOff ==               \* mutant: GIE is not set again
  Runs("committed", "session") /\ UNCHANGED <<intcon, tmr0on>>

InterruptsOn ==
  /\ Runs("committed", "session")
  /\ intcon' = [intcon EXCEPT !.gieh = TRUE]
  /\ UNCHANGED tmr0on

EndSession ==
  /\ Runs("session", "halt")
  /\ UNCHANGED <<intcon, tmr0on>>

-----------------------------------------------------------------------------
(* The timer counts by itself, and long enough for main to get on between  *)
(* two overflows.  With priorities enabled, GIEH masks all interrupts and  *)
(* the core clears GIEL when it takes one of low priority.                 *)
Timer0Overflow ==
  /\ tmr0on /\ ~intcon.tmr0if /\ ran
  /\ intcon' = [intcon EXCEPT !.tmr0if = TRUE]
  /\ UNCHANGED <<timerVars, switchVars, main, context, tmr0on>>

InterruptPending ==
  /\ context = "main"
  /\ intcon.gieh /\ intcon.giel /\ intcon.tmr0ie /\ intcon.tmr0if

(* Remapped_Low_ISR.                                                       *)
VectorTargetInverted ==            \* mutant: == for !=
  IF switchOn THEN "user_isr" ELSE "boot_isr"

VectorTarget == IF switchOn THEN "boot_isr" ELSE "user_isr"

LowVector ==
  /\ InterruptPending
  /\ intcon' = [intcon EXCEPT !.giel = FALSE]
  /\ context' = VectorTarget
  /\ UNCHANGED <<timerVars, switchVars, main, tmr0on>>

(* LowPriorityISRCode and the return from it, which sets GIEL.             *)
LowPriorityISR ==
  /\ context = "boot_isr"
  /\ context' = "main"
  /\ intcon' = [intcon EXCEPT !.giel = TRUE, !.tmr0if = FALSE]
  /\ TimerProc
  /\ UNCHANGED <<switchVars, main, tmr0on>>

(* The user program sets up Timer 0 for itself, and serves its interrupt.  *)
UserEnablesInterrupts ==
  /\ Runs("user", "user")
  /\ intcon' = [intcon EXCEPT !.gieh = TRUE, !.giel = TRUE, !.tmr0ie = TRUE]
  /\ tmr0on' = TRUE

UserISR ==
  /\ context = "user_isr" /\ main = "user"
  /\ context' = "main"
  /\ intcon' = [intcon EXCEPT !.giel = TRUE, !.tmr0if = FALSE]
  /\ UNCHANGED <<timerVars, switchVars, main, tmr0on>>

(* The erased or half-programmed user area runs as an interrupt routine.   *)
Astray ==
  /\ context = "user_isr" /\ main # "user"
  /\ UNCHANGED vars

MoveSwitch ==
  /\ switchOn' = ~switchOn
  /\ moved' = (moved \/ main \notin StartUp)
  /\ UNCHANGED <<timerVars, main, cpuVars>>

(* while(1).                                                               *)
Halt == Runs("halt", "halt") /\ UNCHANGED <<intcon, tmr0on>>

MainStep ==
  \/ SetUpTimer \/ EnableTimerInterrupt \/ EnableHigh \/ EnableLow
  \/ TestSwitch \/ TurnTimerOn
  \/ DisableTimerInterrupt \/ DisableHigh \/ DisableLow \/ StopTimer
  \/ WaitForCard \/ Unlock1 \/ Unlock2 \/ WriteCommand \/ InterruptsOn

Next ==
  \/ MainStep \/ StartWait \/ CardReplies \/ InterruptsOff \/ EndSession
  \/ Timer0Overflow \/ LowVector \/ LowPriorityISR
  \/ UserEnablesInterrupts \/ UserISR \/ Astray \/ MoveSwitch \/ Halt

Spec == Init /\ [][Next]_vars

(* The processor and the timer run; the card and the session's own         *)
(* decisions are free.                                                     *)
Fairness ==
  /\ WF_vars(MainStep)
  /\ WF_vars(Timer0Overflow)
  /\ WF_vars(LowVector)
  /\ WF_vars(LowPriorityISR)

FairSpec == Spec /\ Fairness

-----------------------------------------------------------------------------
(* Why: before the choice, and until the jump, the timer has not run and   *)
(* nothing is pending; in the unlock sequence GIEH is off.                 *)
QuietBeforeChoice ==
  main \in StartUp \cup HandOver \cup {"boot"} =>
    context = "main" /\ ~tmr0on /\ ~intcon.tmr0if

MaskedWhileUnlocking ==
  main \in UnlockSteps => context = "main" /\ ~intcon.gieh

(* The unlock sequence of flash_commit is never interrupted: an interrupt  *)
(* between its instructions would make the write command void.             *)
UnlockUninterrupted == main \in UnlockSteps => context = "main"

(* No interrupt is taken before the program that will serve it is chosen:  *)
(* not while the bootloader starts, nor on the way to the user program,    *)
(* although interrupts are enabled there.                                  *)
NoEarlyInterrupt == main \in StartUp \cup HandOver => context = "main"

(* README.markdown:14: the state of the switch at startup decides between  *)
(* the bootloader and the application, so an interrupt goes to the program *)
(* that was chosen then.                                                   *)
ModeFixedAtStartup ==
  /\ context = "boot_isr" => main \in BootMode
  /\ context = "user_isr" => main = "user"

(* The vectors of main.c do send it there as long as nobody moves the      *)
(* switch.                                                                 *)
VectorsFollowMode == ~moved => ModeFixedAtStartup

(* A wait for the card ends even if the card never answers: the timer      *)
(* interrupt gets through, after any number of flash_commits.  Moving the  *)
(* switch may take the interrupt away.                                     *)
CardWaitEnds == step # "idle" ~> (step = "idle" \/ moved)
=============================================================================
