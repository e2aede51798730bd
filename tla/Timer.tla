------------------------------- MODULE Timer -------------------------------
(***************************************************************************)
(* The divider (dmgdraft/core/divider.c) and the programmable timer        *)
(* (dmgdraft/core/timer.c).  Neither counts clocks one by one: the run     *)
(* loop of gameboy.c adds what an opcode took to a clock of the device and *)
(* calls the device, which catches up in a loop that takes one period off  *)
(* at a time.                                                              *)
(*                                                                         *)
(* The loop is modelled by its result: the number of rounds it makes and   *)
(* what is left.  A register has ByteRange values.  The periods need not   *)
(* be multiples of a machine cycle (15.998 clocks for TAC = 1, 256.0 for   *)
(* the divider).  The divider's timestamp is 0 from calloc on and only     *)
(* ever set to 0.                                                          *)
(***************************************************************************)
EXTENDS Integers

CONSTANTS
  ByteRange,           \* values of a register: 256
  DividerFreq,         \* clocks per step of DIV
  TimerFreq,           \* clocks per step of TIMA, for each choice of TAC
  IdleClocks           \* bound: the clock of a timer that is off stops here

ASSUME TimerAssumption ==
  /\ ByteRange \in Nat \ {0}
  /\ DividerFreq \in Nat \ {0}
  /\ TimerFreq \in [DOMAIN TimerFreq -> Nat \ {0}]
  /\ 0 \in DOMAIN TimerFreq
  /\ IdleClocks \in Nat

VARIABLES
  cpu_clks_divider, DIV,
  cpu_clks_timer, timestamp, TIMA, TMA,
  tac_on, tac_sel      \* TAC: bit 2, bits 0 and 1

dividerVars == <<cpu_clks_divider, DIV>>
timerVars == <<cpu_clks_timer, timestamp, TIMA, TMA, tac_on, tac_sel>>

Bytes == 0 .. ByteRange - 1

TimerInit ==
  /\ cpu_clks_divider = 0 /\ DIV = 0
  /\ cpu_clks_timer = 0 /\ timestamp = 0
  /\ TIMA = 0 /\ TMA = 0
  /\ tac_on = FALSE /\ tac_sel = 0

\* Mutant of Rounds: at most one period is caught up per call.
OneRound(elap, freq) == IF elap > freq THEN 1 ELSE 0

\* Rounds of "while (elap > freq) elap -= freq", and what it leaves.
Rounds(elap, freq) == IF elap > freq THEN (elap - 1) \div freq ELSE 0
Left(elap, freq) == elap - Rounds(elap, freq) * freq

\* DIV and TIMA after n steps; TIMA restarts at TMA.
DivAfter(div, n) == (div + n) % ByteRange
TimaAfter(tima, tma, n) ==
  IF tima + n < ByteRange
  THEN tima + n
  ELSE tma + ((tima + n - ByteRange) % (ByteRange - tma))

\* divider_update, after cpu_clks_divider += clks
DividerUpdate(clks) ==
  LET elap == cpu_clks_divider + clks
  IN  /\ cpu_clks_divider' = Left(elap, DividerFreq)
      /\ DIV' = DivAfter(DIV, Rounds(elap, DividerFreq))

TimerElapsed == cpu_clks_timer - timestamp
TimerRounds(clks) == Rounds(TimerElapsed + clks, TimerFreq[tac_sel])

\* The catch-up runs over 0xFF: IRQ_3 is requested.
TimerOverflows(clks) == tac_on /\ TIMA + TimerRounds(clks) >= ByteRange

\* The clock of a timer that is off runs on; it is counted up to IdleClocks.
OffClock(clks) ==
  IF cpu_clks_timer >= IdleClocks THEN cpu_clks_timer
  ELSE IF cpu_clks_timer + clks > IdleClocks THEN IdleClocks ELSE cpu_clks_timer + clks

\* timer_update, after cpu_clks_timer += clks: nothing while TAC is off, and
\* the clock is folded back only when there was a step.
TimerUpdate(clks) ==
  LET n == TimerRounds(clks)
  IN  /\ IF tac_on /\ n > 0
         THEN /\ cpu_clks_timer' = Left(TimerElapsed + clks, TimerFreq[tac_sel])
              /\ timestamp' = 0
              /\ TIMA' = TimaAfter(TIMA, TMA, n)
         ELSE /\ cpu_clks_timer' = IF tac_on THEN cpu_clks_timer + clks ELSE OffClock(clks)
              /\ UNCHANGED <<timestamp, TIMA>>
      /\ UNCHANGED <<TMA, tac_on, tac_sel>>

\* divider_write stores the value and leaves the clock.
WriteDIV(v) == DIV' = v /\ UNCHANGED cpu_clks_divider

\* Every write to the timer restarts the period: the clock is noted
\* (TIMER_RESET_IN_RESET_FREQ_MOD_, conf.h:128).
RestartPeriod == timestamp' = cpu_clks_timer /\ UNCHANGED cpu_clks_timer

WriteTIMA(v) == TIMA' = v /\ RestartPeriod /\ UNCHANGED <<TMA, tac_on, tac_sel>>
WriteTMA(v) == TMA' = v /\ RestartPeriod /\ UNCHANGED <<TIMA, tac_on, tac_sel>>

\* Off to on opens the pulse: TIMA is loaded too.
WriteTAC(on, sel) ==
  /\ TIMA' = IF on /\ ~tac_on THEN TMA ELSE TIMA
  /\ tac_on' = on
  /\ tac_sel' = sel
  /\ RestartPeriod
  /\ UNCHANGED TMA
=============================================================================
