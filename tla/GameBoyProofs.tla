---------------------------- MODULE GameBoyProofs ----------------------------
(***************************************************************************)
(* Theorems of GameBoy, for every program, every clock an opcode can take  *)
(* and every period of the devices: the divider and the timer catch up     *)
(* with the CPU at every call, an enabled interrupt waits for one opcode   *)
(* at most, and, until the speed is changed, the picture unit draws each   *)
(* line once and completely, with its own sprites, hands each frame over   *)
(* once and copies one block of the H-blank DMA a line.                    *)
(***************************************************************************)
EXTENDS GameBoy, TLAPS

\* What the loop "while (elap > freq) elap -= freq" leaves of elap: what its
\* number of rounds says, never less than nothing nor more than a period.
LEMMA LeftBounds ==
  ASSUME NEW elap \in Nat, NEW freq \in Nat \ {0}
  PROVE  /\ Rounds(elap, freq) \in Nat
         /\ Left(elap, freq) \in 0 .. freq
         /\ elap = Rounds(elap, freq) * freq + Left(elap, freq)
<1>1. CASE elap > freq
  <2> DEFINE k == (elap - 1) \div freq
             r == (elap - 1) % freq
  <2>1. k \in Nat /\ r \in 0 .. freq - 1 /\ elap - 1 = k * freq + r
    BY <1>1, SMT
  <2> QED
    BY <1>1, <2>1 DEF Rounds, Left
<1>2. CASE elap <= freq
  BY <1>2 DEF Rounds, Left
<1> QED
  BY <1>1, <1>2

\* What is always true of the clocks: the pulse was opened in the past.
ClocksOk ==
  /\ cpu_clks_divider \in Nat
  /\ cpu_clks_timer \in Nat /\ timestamp \in Nat /\ timestamp <= cpu_clks_timer
  /\ tac_on \in BOOLEAN /\ tac_sel \in DOMAIN TimerFreq
  /\ opclks \in Nat

ClockInv == ClocksOk /\ TimersOnTime

\* internaldev_clks brings both up to date, whatever they were behind.
LEMMA DevicesCatchUp ==
  ASSUME ClocksOk, NEW clks \in Nat, NEW f, NEW d, Devices(clks, f, d)
  PROVE  /\ cpu_clks_divider' \in 0 .. DividerFreq
         /\ cpu_clks_timer' \in Nat /\ timestamp' \in Nat
         /\ timestamp' <= cpu_clks_timer'
         /\ tac_on' => TimerElapsed' \in 0 .. TimerFreq'[tac_sel']
         /\ tac_on' = tac_on /\ tac_sel' = tac_sel
<1>1. DividerUpdate(clks) /\ TimerUpdate(clks)
  BY DEF Devices
<1>2. DividerFreq \in Nat \ {0} /\ TimerFreq[tac_sel] \in Nat \ {0} /\ IdleClocks \in Nat
  BY TimerAssumption DEF ClocksOk
<1>3. cpu_clks_divider' \in 0 .. DividerFreq
  <2>1. cpu_clks_divider + clks \in Nat
    BY DEF ClocksOk
  <2> QED
    BY <1>1, <1>2, <2>1, LeftBounds DEF DividerUpdate
<1>4. tac_on' = tac_on /\ tac_sel' = tac_sel
  BY <1>1 DEF TimerUpdate
<1> DEFINE elap == TimerElapsed + clks
           freq == TimerFreq[tac_sel]
<1>5. elap \in Nat
  BY DEF ClocksOk, TimerElapsed
<1>6. /\ Rounds(elap, freq) \in Nat
      /\ Left(elap, freq) \in 0 .. freq
      /\ elap = Rounds(elap, freq) * freq + Left(elap, freq)
  BY <1>2, <1>5, LeftBounds
<1>7. CASE tac_on /\ Rounds(elap, freq) > 0
  <2>1. cpu_clks_timer' = Left(elap, freq) /\ timestamp' = 0
    BY <1>1, <1>7 DEF TimerUpdate, TimerRounds
  <2> QED
    BY <1>3, <1>4, <1>6, <2>1, <1>2 DEF TimerElapsed
<1>8. CASE tac_on /\ ~(Rounds(elap, freq) > 0)
  <2>1. cpu_clks_timer' = cpu_clks_timer + clks /\ timestamp' = timestamp
    BY <1>1, <1>8 DEF TimerUpdate, TimerRounds
  <2>2. elap \in 0 .. freq
    BY <1>2, <1>6, <1>8
  <2>3. TimerElapsed' = elap
    BY <2>1 DEF TimerElapsed, ClocksOk
  <2> QED
    BY <1>3, <1>4, <2>1, <2>2, <2>3 DEF ClocksOk
<1>9. CASE ~tac_on
  BY <1>1, <1>2, <1>3, <1>4, <1>9 DEF TimerUpdate, OffClock, ClocksOk
<1> QED
  BY <1>7, <1>8, <1>9 DEF ClocksOk

\* An opcode leaves the clocks alone, whatever register it writes; a write to the
\* timer notes the clock, so the timer is behind by nothing.
LEMMA OpcodeStep ==
  ASSUME ClockInv, NEW clks \in Nat, Opcode(clks),
         \/ UNCHANGED <<dividerVars, timerVars>>
         \/ UNCHANGED timerVars /\ \E v \in ByteWrites : WriteDIV(v)
         \/ UNCHANGED dividerVars /\ \E v \in ByteWrites : WriteTIMA(v) \/ WriteTMA(v)
         \/ UNCHANGED dividerVars
            /\ \E on \in BOOLEAN, sel \in TacSelects : WriteTAC(on, sel)
  PROVE  ClockInv'
<1>1. stage' = "tick" /\ opclks' = clks
  BY DEF Opcode
<1>2. TacSelects \subseteq DOMAIN TimerFreq
  BY GameBoyAssumption
<1>3. ClocksOk'
  BY <1>1, <1>2 DEF ClockInv, ClocksOk, dividerVars, timerVars, WriteDIV, WriteTIMA,
                    WriteTMA, WriteTAC, RestartPeriod
<1> QED
  BY <1>1, <1>3 DEF ClockInv, TimersOnTime

LEMMA ClockInvInit == Init => ClockInv
<1> SUFFICES ASSUME Init
             PROVE  ClockInv
  OBVIOUS
<1>1. TimerInit /\ opclks = 0
  BY DEF Init
<1>2. tac_on \in BOOLEAN /\ ~tac_on
  BY <1>1 DEF TimerInit
<1>3. ClocksOk
  BY <1>1, <1>2, TimerAssumption DEF TimerInit, ClocksOk
<1> QED
  BY <1>1, <1>2, <1>3, TimerAssumption DEF ClockInv, TimersOnTime, TimerInit

LEMMA ClockInvStep == ClockInv /\ [Next]_vars => ClockInv'
<1> SUFFICES ASSUME ClockInv, [Next]_vars
             PROVE  ClockInv'
  OBVIOUS
<1>1. OpClks \subseteq Nat
  BY GameBoyAssumption
\* The steps that call internaldev_clks.
<1>2. ASSUME NEW clks \in Nat, NEW f, NEW d, Devices(clks, f, d), opclks' \in Nat
      PROVE  ClockInv'
  BY <1>2, DevicesCatchUp, TimerAssumption DEF ClockInv, ClocksOk, TimersOnTime
<1>3. CASE DmaCycle \/ HaltCycle \/ Tick \/ WaitStates \/ PushPC \/ Vector
  <2>1. opclks' \in Nat
    BY <1>3 DEF DmaCycle, HaltCycle, Tick, WaitStates, PushPC, Vector, ClockInv, ClocksOk
  <2>2. 1 \in Nat /\ 2 \in Nat /\ opclks \in Nat
    BY DEF ClockInv, ClocksOk
  <2> QED
    BY <1>2, <1>3, <2>1, <2>2 DEF DmaCycle, HaltCycle, Tick, WaitStates, PushPC, Vector
\* The opcodes.
<1>4. ASSUME NEW k \in OpClks, Plain(k) \/ RETI(k)
      PROVE  ClockInv'
  BY <1>1, <1>4, OpcodeStep DEF Plain, RETI, SetIME, NoWrite
<1>5. CASE EI \/ DI \/ HALT \/ STOP
  BY <1>5, OpcodeStep DEF EI, DI, HALT, STOP, SetIME, NoWrite
<1>6. CASE StoreDivider
  BY <1>1, <1>6, OpcodeStep DEF StoreDivider, Store
<1>7. CASE StoreTimer
  BY <1>1, <1>7, OpcodeStep DEF StoreTimer, Store
<1>8. CASE StoreIF \/ StoreIE \/ StoreP1 \/ StoreKey1 \/ StorePpu
  BY <1>1, <1>8, OpcodeStep DEF StoreIF, StoreIE, StoreP1, StoreKey1, StorePpu, Store
\* The steps without a clock of either.
<1>9. CASE StoreGdma \/ CheckInterrupt \/ StopCycle \/ Adjust
  <2>1. UNCHANGED <<dividerVars, timerVars, opclks>>
    BY <1>9 DEF StoreGdma, CheckInterrupt, StopCycle, Adjust
  <2>2. stage \notin {"tick", "gdma"}
    BY <1>9 DEF StoreGdma, CheckInterrupt, StopCycle, Free, Adjust
  <2> QED
    BY <2>1, <2>2 DEF ClockInv, ClocksOk, TimersOnTime, TimerElapsed, dividerVars, timerVars
<1>10. CASE GdmaForever \/ MidLine \/ UNCHANGED vars
  <2>1. UNCHANGED <<dividerVars, timerVars, opclks, stage>>
    BY <1>10 DEF GdmaForever, MidLine, vars, cpuVars
  <2> QED
    BY <2>1 DEF ClockInv, ClocksOk, TimersOnTime, TimerElapsed, dividerVars, timerVars
<1> QED
  BY <1>3, <1>4, <1>5, <1>6, <1>7, <1>8, <1>9, <1>10 DEF Next

\* After every call of internaldev_clks the divider and the timer are behind by
\* no more than a period (divider_update, timer_update), however long the opcode
\* was, whatever was written to the timer before it, and at either speed.
THEOREM TimersCorrect == Spec => []TimersOnTime
<1>1. ClockInv => TimersOnTime
  BY DEF ClockInv
<1> QED
  BY <1>1, ClockInvInit, ClockInvStep, PTL DEF Spec

\* late is counted by the opcodes only and given up at the check or the vector.
LateInv ==
  /\ late \in 0 .. 1
  /\ stage \in {"loop", "gdma", "adjust", "midline"} => late = 0

\* An enabled interrupt waits for one opcode at most (gameboy_run_ms calls the
\* check after each, before it changes the speed), for any program and any keys.
THEOREM InterruptCorrect == Spec => []InterruptPrompt
<1>1. Init => LateInv
  BY DEF Init, LateInv
<1>2. LateInv /\ [Next]_vars => LateInv'
  <2> SUFFICES ASSUME LateInv, [Next]_vars
               PROVE  LateInv'
    OBVIOUS
  <2> USE DEF LateInv
  <2>1. ASSUME NEW clks, Opcode(clks)
        PROVE  LateInv'
    BY <2>1 DEF Opcode, Free
  <2>2. CASE \/ EI \/ DI \/ HALT \/ STOP \/ StoreDivider \/ StoreTimer \/ StoreIF
             \/ StoreIE \/ StoreP1 \/ StoreKey1 \/ StorePpu
             \/ \E k \in OpClks : Plain(k) \/ RETI(k)
    BY <2>1, <2>2 DEF EI, DI, HALT, STOP, Plain, RETI, StoreDivider, StoreTimer,
                      StoreIF, StoreIE, StoreP1, StoreKey1, StorePpu, Store
  <2>3. CASE CheckInterrupt
    BY <2>3 DEF CheckInterrupt, Resumed
  <2>4. CASE Vector
    BY <2>4 DEF Vector
  <2>5. CASE DmaCycle \/ StopCycle \/ StoreGdma \/ HaltCycle \/ Tick \/ WaitStates \/ PushPC
    BY <2>5 DEF DmaCycle, StopCycle, StoreGdma, HaltCycle, Tick, WaitStates, PushPC, Free
  <2>6. CASE Adjust
    BY <2>6 DEF Adjust
  <2>7. CASE GdmaForever \/ MidLine \/ UNCHANGED vars
    BY <2>7 DEF GdmaForever, MidLine, vars, cpuVars
  <2> QED
    BY <2>2, <2>3, <2>4, <2>5, <2>6, <2>7 DEF Next
<1>3. LateInv => InterruptPrompt
  BY DEF LateInv, InterruptPrompt
<1> QED
  BY <1>1, <1>2, <1>3, PTL DEF Spec

(***************************************************************************)
(* The picture unit                                                        *)
(***************************************************************************)

\* The sprites of the line found so far: as many as places have been searched,
\* or all of them when the search came to the end of the OAM.
Search(p) ==
  /\ p.vscan \in -1 .. Scans - 1
  /\ \/ p.scanned = FALSE /\ p.vscanR = p.vscan + 1 /\ p.vscanR <= SpritesOn[p.LY]
     \/ p.scanned = TRUE /\ p.vscanR = SpritesOn[p.LY] /\ p.vscanR <= Scans

\* Mode 2: nothing has been drawn; the cache was cleared on the way from H-blank.
InOam(p) ==
  /\ ClkLine(p) < OamCycles
  /\ p.hbl_clks_st = Late
  /\ Search(p)
  /\ p.uscanR = 0 /\ p.painted = 0 /\ p.uscan \in {-1, 0}
  /\ p.LY # 0 => p.spi \subseteq {p.LY}
  /\ p.copied < p.LY

\* Mode 3: the search is over, and what it found says how long the mode lasts;
\* the columns drawn are those up to the position, one more than it says but on
\* the very first line.
InOamVram(p) ==
  /\ OamCycles <= ClkLine(p)
  /\ p.hbl_clks_st = p.bg_len + OamCycles
  /\ p.bg_len = BgCycles + p.vscanR * SpriteCycles
  /\ ClkLine(p) < p.hbl_clks_st
  /\ p.vscanR = Min({SpritesOn[p.LY], Scans})
  /\ p.painted = p.uscanR
  /\ p.uscan \in 0 .. Columns - 1 /\ p.uscanR \in Nat /\ p.uscanR - p.uscan \in {0, 1}
  /\ p.LY # 0 => p.spi \subseteq {p.LY}
  /\ p.copied < p.LY

\* Mode 0: the line is drawn and the counters are ready for the next, or the
\* machine was just switched on.
InHblank(p) ==
  /\ Fresh(p)
  /\ \/ /\ p.clk = 0 /\ p.LY = 0 /\ p.hbl_clks_st = Late
        /\ p.painted = 0 /\ p.copied = -1
     \/ ClkLine(p) >= p.hbl_clks_st /\ p.painted = Columns
  /\ p.copied <= p.LY

\* What was done for the line agrees with where in the line the clock is.
PictureOk(p) ==
  /\ p.hbl_clks_st \in Nat /\ p.hbl_clks_st >= OamCycles
  /\ p.copied \in Int
  /\ p.mode \in Modes
  /\ p.mode = "vblank" <=> p.LY >= VisibleLines
  /\ p.shown = IF p.mode = "vblank" THEN 1 ELSE 0
  /\ p.mode = "oam" => InOam(p)
  /\ p.mode = "oamvram" => InOamVram(p)
  /\ p.mode = "hblank" => InHblank(p)

\* The picture unit between two calls of ppu_run.
PpuOk(p) ==
  /\ DOMAIN p = DOMAIN PowerOn
  /\ p.clk \in Nat /\ p.LY \in 0 .. Lines - 1 /\ ClkLine(p) \in 0 .. LineCycles - 1
  /\ p.line_cac = p.LY /\ p.lcdm_cac = p.mode /\ p.dma = 0
  /\ PictureOk(p)

\* The loop and the picture unit at the speed of power-on.
InStep ==
  /\ fast = FALSE
  /\ PpuOk(ppu)
  /\ stage = "tick" => opclks \in OpClks \cup {1}
  /\ cpu_clks_dma \in Nat

\* The inductive invariant of the picture unit.
PpuInv == ~switched => InStep

\* What PpuAssumption says of each constant.
LEMMA PpuConstants ==
  /\ LineCycles \in Nat \ {0} /\ Lines \in Nat \ {0} /\ VisibleLines \in Nat \ {0}
  /\ OamCycles \in Nat \ {0} /\ BgCycles \in Nat \ {0}
  /\ Columns \in Nat \ {0} /\ Scans \in Nat \ {0}
  /\ SpriteCycles \in Nat /\ HdmaCycles \in Nat
  /\ VisibleLines < Lines
  /\ Scans * SpriteCycles \in Nat
  /\ OamCycles + BgCycles + Scans * SpriteCycles < LineCycles
  BY PpuAssumption

\* The quotient is the y whose multiple leaves less than L.
LEMMA DivUnique ==
  ASSUME NEW L \in Nat \ {0}, NEW y \in Nat, NEW o \in 0 .. L - 1
  PROVE  (y * L + o) \div L = y
<1> DEFINE x == y * L + o
           d == x \div L
           r == x % L
<1>1. x \in Nat
  OBVIOUS
<1>2. d \in Nat /\ r \in 0 .. L - 1 /\ x = d * L + r
  BY <1>1, SMT
<1>3. (d - y) * L = o - r
  BY <1>1, <1>2
<1>4. CASE d > y
  <2>1. d - y >= 1
    BY <1>2, <1>4
  <2>2. (d - y) * L >= L
    BY <2>1, <1>2
  <2> QED
    BY <1>2, <1>3, <2>2
<1>5. CASE d < y
  <2>1. y - d >= 1
    BY <1>2, <1>5
  <2>2. (y - d) * L >= L
    BY <2>1, <1>2
  <2>3. (y - d) * L = r - o
    BY <1>3, <1>2
  <2> QED
    BY <1>2, <2>2, <2>3
<1> QED
  BY <1>2, <1>4, <1>5

\* q is p but for the fields fs.
Only(p, q, fs) == DOMAIN q = DOMAIN p /\ \A f \in DOMAIN p \ fs : q[f] = p[f]

\* The fields of struct ppu.
LEMMA DomainIs ==
  DOMAIN PowerOn =
    {"clk", "LY", "mode", "coincidence", "enables", "LYC", "line_cac", "lcdm_cac",
     "oam_flop", "hbl_flop", "interrupt45_flop", "vscan", "vscanR", "scanned",
     "uscan", "uscanR", "hbl_clks_st", "bg_len", "spi", "hdma_gen", "hdma_r16",
     "irq", "dma", "painted", "shown", "copied"}
  BY DEF PowerOn

\* Min of two numbers.
LEMMA LeastOfTwo ==
  ASSUME NEW a \in Int, NEW b \in Int
  PROVE  Min({a, b}) = IF a <= b THEN a ELSE b
  BY DEF Min

\* The end of a frame moves the clock back and forgets what was drawn.
LEMMA FrameWrapEffect ==
  ASSUME NEW p, DOMAIN p = DOMAIN PowerOn
  PROVE  LET q == FrameWrap(p, FrameCycles)
         IN  /\ DOMAIN q = DOMAIN PowerOn
             /\ p.clk < FrameCycles => q = p
             /\ ~(p.clk < FrameCycles) =>
                  /\ q.clk = p.clk - FrameCycles
                  /\ Fresh(q) /\ q.uscan = -1 /\ q.shown = 0 /\ q.copied = -1
                  /\ Only(p, q, {"clk", "irq", "oam_flop", "hbl_flop", "interrupt45_flop",
                                 "vscan", "vscanR", "scanned", "uscan", "uscanR",
                                 "shown", "copied"})
  BY DomainIs DEF FrameWrap, Fresh, Only

\* LY is the line of the clock; on a new line nothing has been drawn.
LEMMA LineStepEffect ==
  ASSUME NEW p, DOMAIN p = DOMAIN PowerOn
  PROVE  LET q == LineStep(p, LineCycles)
         IN  /\ Only(p, q, {"LY", "coincidence", "interrupt45_flop", "painted", "irq"})
             /\ q.LY = p.clk \div LineCycles
             /\ q.painted = IF p.line_cac # q.LY THEN 0 ELSE p.painted
<1> DEFINE scanline == p.clk \div LineCycles
           next == p.line_cac # scanline
           hit == next /\ p.LYC = scanline /\ "lyc" \in p.enables
           q == [p EXCEPT !.LY = scanline,
                     !.coincidence = (scanline = p.LYC),
                     !.interrupt45_flop = hit \/ (@ /\ ~next),
                     !.painted = IF next THEN 0 ELSE @]
<1>1. /\ Only(p, q, {"LY", "coincidence", "interrupt45_flop", "painted"})
      /\ q.LY = scanline
      /\ q.painted = IF next THEN 0 ELSE p.painted
  <2> HIDE DEF scanline, next, hit
  <2> QED
    BY DomainIs DEF Only
<1>2. LineStep(p, LineCycles) = IF hit THEN Request(q, LCDC) ELSE q
  BY DEF LineStep
<1> HIDE DEF scanline, next, hit, q
<1>3. Only(q, LineStep(p, LineCycles), {"irq"})
  BY <1>1, <1>2, DomainIs DEF Only, Request
<1>4. /\ Only(p, LineStep(p, LineCycles),
               {"LY", "coincidence", "interrupt45_flop", "painted", "irq"})
      /\ LineStep(p, LineCycles).LY = q.LY
      /\ LineStep(p, LineCycles).painted = q.painted
  BY <1>1, <1>3, DomainIs DEF Only
<1> QED
  BY <1>1, <1>4 DEF scanline, next

\* A search, however many places it catches up with, finds what Search says, and
\* at the last place all that it will find.
LEMMA SearchToEffect ==
  ASSUME NEW p, DOMAIN p = DOMAIN PowerOn, Search(p), SpritesOn[p.LY] \in Nat,
         NEW interv \in 0 .. Scans - 1
  PROVE  LET q == SearchTo(p, interv)
         IN  /\ Only(p, q, {"vscan", "vscanR", "scanned", "spi"})
             /\ Search(q)
             /\ interv = Scans - 1 => q.vscanR = Min({SpritesOn[p.LY], Scans})
             /\ q.spi \subseteq p.spi \cup {p.LY}
<1> DEFINE q == SearchTo(p, interv)
           n == interv - p.vscan
           m == SpritesOn[p.LY]
           found == Min({p.vscanR + n, m})
<1> USE PpuConstants
<1>1. p.vscan \in Int /\ p.vscanR \in Int /\ p.vscan \in -1 .. Scans - 1
  BY DEF Search
<1>2. found = (IF p.vscanR + n <= m THEN p.vscanR + n ELSE m)
  BY <1>1, LeastOfTwo
<1>3. Min({m, Scans}) = IF m <= Scans THEN m ELSE Scans
  BY LeastOfTwo
<1>4. CASE p.vscan # interv /\ p.vscanR < Scans /\ ~p.scanned
  <2>1. p.scanned = FALSE /\ p.vscanR = p.vscan + 1
    BY <1>4 DEF Search
  <2>2. q = [[p EXCEPT !.vscanR = found,
                       !.scanned = (p.vscanR + n > m),
                       !.spi = IF found > p.vscanR THEN @ \cup {p.LY} ELSE @]
               EXCEPT !.vscan = interv]
    BY <1>4 DEF SearchTo, SpriteRender
  <2> HIDE DEF q, found, m, n
  <2>3. /\ Only(p, q, {"vscan", "vscanR", "scanned", "spi"})
        /\ q.vscanR = found /\ (q.scanned = (p.vscanR + n > m)) /\ q.vscan = interv
        /\ q.spi = IF found > p.vscanR THEN p.spi \cup {p.LY} ELSE p.spi
    BY <2>2, DomainIs DEF Only
  <2>4. q.LY = p.LY
    BY <2>3, DomainIs DEF Only
  <2>5. p.vscanR + n = interv + 1
    BY <1>1, <2>1 DEF n
  <2>6. m \in Nat
    BY DEF m
  <2>7. Search(q)
    <3>1. q.vscan = interv /\ SpritesOn[q.LY] = m
      BY <2>3, <2>4 DEF m
    <3>2. CASE p.vscanR + n > m
      <4>1. q.scanned = TRUE
        BY <2>3, <3>2, Zenon
      <4>2. q.vscanR = m /\ m < interv + 1
        BY <1>2, <2>3, <2>5, <2>6, <3>2
      <4> QED
        BY <2>6, <3>1, <4>1, <4>2 DEF Search
    <3>3. CASE ~(p.vscanR + n > m)
      <4>1. q.scanned = FALSE
        <5>1. (p.vscanR + n > m) = FALSE
          BY <3>3
        <5> QED
          BY <2>3, <5>1, Zenon
      <4>2. q.vscanR = interv + 1 /\ interv + 1 <= m
        BY <1>2, <2>3, <2>5, <2>6, <3>3
      <4> QED
        BY <2>6, <3>1, <4>1, <4>2 DEF Search
    <3> QED
      BY <3>2, <3>3
  <2>8. found = IF interv + 1 <= m THEN interv + 1 ELSE m
    BY <1>2, <2>5
  <2>9. interv = Scans - 1 => found = Min({m, Scans})
    <3>1. ASSUME interv = Scans - 1
          PROVE  interv + 1 = Scans
      BY <3>1
    <3> QED
      BY <1>3, <2>6, <2>8, <3>1
  <2> QED
    BY <2>3, <2>7, <2>9 DEF q, m
<1>5. CASE ~(p.vscan # interv /\ p.vscanR < Scans /\ ~p.scanned)
  <2>1. q = p
    BY <1>5 DEF SearchTo
  <2>2. interv = Scans - 1 => p.vscanR = Min({m, Scans})
    BY <1>1, <1>3, <1>5 DEF Search
  <2> QED
    BY <2>1, <2>2 DEF Only
<1> QED
  BY <1>4, <1>5

\* Where a call of ppu_run finds the beam.
SameLine(p, q, k) ==
  /\ ClkLine(p) + k < LineCycles
  /\ Only(p, q, {"clk", "LY", "coincidence", "interrupt45_flop", "irq", "painted"})
  /\ q.clk = p.clk + k /\ q.LY = p.LY
  /\ ClkLine(q) = ClkLine(p) + k
  /\ q.painted = p.painted

\* On the next line nothing has been drawn.
NextLine(p, q, k) ==
  /\ Only(p, q, {"clk", "LY", "coincidence", "interrupt45_flop", "irq", "painted"})
  /\ q.clk = p.clk + k /\ q.LY = p.LY + 1 /\ q.LY < Lines
  /\ ClkLine(q) = ClkLine(p) + k - LineCycles
  /\ q.painted = 0

\* In the next frame nothing has been searched or shown either.
NextFrame(p, q, k) ==
  /\ Only(p, q, {"clk", "LY", "coincidence", "interrupt45_flop", "irq", "painted",
                 "oam_flop", "hbl_flop", "vscan", "vscanR", "scanned", "uscan",
                 "uscanR", "shown", "copied"})
  /\ p.LY = Lines - 1 /\ q.LY = 0
  /\ ClkLine(q) = ClkLine(p) + k - LineCycles /\ q.clk = ClkLine(q)
  /\ q.painted = 0
  /\ Fresh(q) /\ q.shown = 0 /\ q.copied = -1

\* The line of a clock, and whether it is in V-blank.
LEMMA LineOf ==
  ASSUME NEW y \in Nat, NEW o \in 0 .. LineCycles - 1, NEW c, c = y * LineCycles + o
  PROVE  /\ c \div LineCycles = y
         /\ c >= VisibleLines * LineCycles <=> y >= VisibleLines
<1> USE PpuConstants
<1>1. c \div LineCycles = y
  BY DivUnique
<1>2. CASE y >= VisibleLines
  <2>1. (y - VisibleLines) * LineCycles >= 0
    BY <1>2
  <2>2. (y - VisibleLines) * LineCycles = y * LineCycles - VisibleLines * LineCycles
    OBVIOUS
  <2> QED
    BY <1>1, <1>2, <2>1, <2>2
<1>3. CASE y < VisibleLines
  <2>1. (VisibleLines - y - 1) * LineCycles >= 0
    BY <1>3
  <2>2. (VisibleLines - y - 1) * LineCycles
          = VisibleLines * LineCycles - y * LineCycles - LineCycles
    OBVIOUS
  <2> QED
    BY <1>1, <1>3, <2>1, <2>2
<1> QED
  BY <1>2, <1>3

\* A call shorter than a line reaches this line, the next, or the first again.
LEMMA Moved ==
  ASSUME NEW p, PpuOk(p), NEW k \in Nat, k <= OamCycles
  PROVE  LET q == LineStep(FrameWrap([p EXCEPT !.clk = @ + k], FrameCycles), LineCycles)
         IN  /\ SameLine(p, q, k) \/ NextLine(p, q, k) \/ NextFrame(p, q, k)
             /\ ClkLine(q) \in 0 .. LineCycles - 1
             /\ q.clk >= VisibleLines * LineCycles <=> q.LY >= VisibleLines
<1> USE PpuConstants
<1> DEFINE r == [p EXCEPT !.clk = @ + k]
           w == FrameWrap(r, FrameCycles)
           q == LineStep(w, LineCycles)
           o == ClkLine(p)
           y == p.LY
<1>1. /\ DOMAIN p = DOMAIN PowerOn /\ p.clk \in Nat /\ y \in 0 .. Lines - 1
      /\ o \in 0 .. LineCycles - 1 /\ p.line_cac = y /\ p.clk = y * LineCycles + o
  BY DEF PpuOk, ClkLine
<1>2. Only(p, r, {"clk"}) /\ r.clk = p.clk + k /\ DOMAIN r = DOMAIN PowerOn
  BY <1>1, DomainIs DEF Only
<1>3. /\ r.clk < FrameCycles => w = r
      /\ ~(r.clk < FrameCycles) =>
           /\ w.clk = r.clk - FrameCycles
           /\ Fresh(w) /\ w.shown = 0 /\ w.copied = -1
           /\ Only(r, w, {"clk", "irq", "oam_flop", "hbl_flop", "interrupt45_flop",
                          "vscan", "vscanR", "scanned", "uscan", "uscanR",
                          "shown", "copied"})
      /\ DOMAIN w = DOMAIN PowerOn
  BY <1>2, FrameWrapEffect
<1>4. /\ Only(w, q, {"LY", "coincidence", "interrupt45_flop", "painted", "irq"})
      /\ q.LY = w.clk \div LineCycles
      /\ q.painted = IF w.line_cac # q.LY THEN 0 ELSE w.painted
  BY <1>3, LineStepEffect
<1> HIDE DEF r, w, q
<1>5. /\ Only(w, q, {"LY", "coincidence", "interrupt45_flop", "painted", "irq"})
      /\ q.clk = w.clk
  BY <1>3, <1>4, DomainIs DEF Only
<1>6. w.line_cac = y
  BY <1>1, <1>2, <1>3, DomainIs DEF Only
<1>7. FrameCycles = (Lines - 1) * LineCycles + LineCycles
  BY DEF FrameCycles
<1> HIDE DEF o, y
<1>8. CASE o + k < LineCycles
  <2>1. r.clk = y * LineCycles + (o + k)
    BY <1>1, <1>2
  <2>2. r.clk < FrameCycles
    <3>1. (Lines - 1 - y) * LineCycles >= 0
      BY <1>1
    <3>2. (Lines - 1 - y) * LineCycles = (Lines - 1) * LineCycles - y * LineCycles
      BY <1>1
    <3> QED
      BY <1>1, <1>7, <1>8, <2>1, <3>1, <3>2
  <2>3. w = r
    BY <1>3, <2>2
  <2>4. q.LY = y /\ (q.clk >= VisibleLines * LineCycles <=> q.LY >= VisibleLines)
    BY <1>1, <1>4, <1>5, <1>8, <2>1, <2>3, LineOf
  <2>5. ClkLine(q) = o + k
    BY <1>1, <1>5, <2>1, <2>3, <2>4 DEF ClkLine
  <2>6. q.painted = w.painted
    BY <1>4, <1>6, <2>4
  <2>7. /\ Only(p, q, {"clk", "LY", "coincidence", "interrupt45_flop", "irq", "painted"})
        /\ q.painted = p.painted
    BY <1>1, <1>2, <1>5, <2>3, <2>6, DomainIs DEF Only
  <2>8. SameLine(p, q, k)
    BY <1>2, <1>5, <1>8, <2>3, <2>4, <2>5, <2>7 DEF SameLine, o, y
  <2> QED
    BY <1>1, <1>8, <2>4, <2>5, <2>8 DEF q, w, r
<1>9. CASE o + k >= LineCycles /\ y + 1 < Lines
  <2>1. r.clk = (y + 1) * LineCycles + (o + k - LineCycles)
    BY <1>1, <1>2
  <2>2. r.clk < FrameCycles
    <3>1. (Lines - 2 - y) * LineCycles >= 0
      BY <1>1, <1>9
    <3>2. (Lines - 2 - y) * LineCycles = (Lines - 1) * LineCycles - (y + 1) * LineCycles
      BY <1>1
    <3> QED
      BY <1>1, <1>7, <1>9, <2>1, <3>1, <3>2
  <2>3. w = r
    BY <1>3, <2>2
  <2>4. o + k - LineCycles \in 0 .. LineCycles - 1
    BY <1>1, <1>9
  <2>5. q.LY = y + 1 /\ (q.clk >= VisibleLines * LineCycles <=> q.LY >= VisibleLines)
    BY <1>1, <1>4, <1>5, <2>1, <2>3, <2>4, LineOf
  <2>6. ClkLine(q) = o + k - LineCycles
    BY <1>1, <1>5, <2>1, <2>3, <2>5 DEF ClkLine
  <2>7. q.painted = 0
    BY <1>1, <1>4, <1>6, <2>5
  <2>8. Only(p, q, {"clk", "LY", "coincidence", "interrupt45_flop", "irq", "painted"})
    BY <1>1, <1>2, <1>5, <2>3, DomainIs DEF Only
  <2>9. NextLine(p, q, k)
    BY <1>2, <1>5, <1>9, <2>3, <2>5, <2>6, <2>7, <2>8 DEF NextLine, o, y
  <2> QED
    BY <2>4, <2>5, <2>6, <2>9 DEF q, w, r
<1>10. CASE o + k >= LineCycles /\ y + 1 >= Lines
  <2>1. y = Lines - 1
    BY <1>1, <1>10
  <2>2. r.clk = FrameCycles + (o + k - LineCycles)
    BY <1>1, <1>2, <1>7, <2>1
  <2>3. o + k - LineCycles \in 0 .. LineCycles - 1 /\ FrameCycles \in Nat
    BY <1>1, <1>10 DEF FrameCycles
  <2>4. /\ ~(r.clk < FrameCycles)
        /\ w.clk = 0 * LineCycles + (o + k - LineCycles)
        /\ w.clk = o + k - LineCycles
    BY <1>3, <2>2, <2>3
  <2>5. q.LY = 0 /\ (q.clk >= VisibleLines * LineCycles <=> q.LY >= VisibleLines)
    BY <1>4, <1>5, <2>3, <2>4, LineOf
  <2>6. ClkLine(q) = o + k - LineCycles /\ q.clk = ClkLine(q)
    BY <1>5, <2>3, <2>4, <2>5 DEF ClkLine
  <2>7. q.painted = 0
    BY <1>1, <1>4, <1>6, <2>1, <2>5
  <2>8. Only(p, q, {"clk", "LY", "coincidence", "interrupt45_flop", "irq", "painted",
                 "oam_flop", "hbl_flop", "vscan", "vscanR", "scanned", "uscan",
                 "uscanR", "shown", "copied"})
    BY <1>1, <1>2, <1>3, <1>5, <2>4, DomainIs DEF Only
  <2>9. Fresh(q) /\ q.shown = 0 /\ q.copied = -1
    BY <1>3, <1>5, <2>4, DomainIs DEF Only, Fresh
  <2>10. NextFrame(p, q, k)
    BY <2>1, <2>5, <2>6, <2>7, <2>8, <2>9 DEF NextFrame, o, y
  <2> QED
    BY <2>3, <2>5, <2>6, <2>10 DEF q, w, r
<1> QED
  <2>1. o + k \in Int /\ y + 1 \in Int
    BY <1>1
  <2> QED
    BY <1>8, <1>9, <1>10, <2>1

\* The position in a walk of n steps over m clocks.
LEMMA Position ==
  ASSUME NEW m \in Nat \ {0}, NEW n \in Nat \ {0}, NEW a \in 0 .. m - 1
  PROVE  (a * n) \div m \in 0 .. n - 1
<1> DEFINE d == (a * n) \div m
           r == (a * n) % m
<1>1. a * n \in Nat
  OBVIOUS
<1>2. d \in Nat /\ r \in 0 .. m - 1 /\ a * n = d * m + r
  BY <1>1, SMT
<1>3. CASE d >= n
  <2>1. (d - n) * m >= 0 /\ (d - n) * m = d * m - n * m
    BY <1>2, <1>3
  <2>2. (m - a) * n >= n /\ (m - a) * n = m * n - a * n
    <3>1. (m - a - 1) * n >= 0 /\ (m - a - 1) * n = m * n - a * n - n
      OBVIOUS
    <3> QED
      BY <3>1
  <2> QED
    BY <1>2, <2>1, <2>2
<1> QED
  BY <1>2, <1>3

\* The interrupt of mode 2 touches its flop and the request.
LEMMA OamInterruptEffect ==
  ASSUME NEW p, DOMAIN p = DOMAIN PowerOn
  PROVE  Only(p, OamInterrupt(p), {"oam_flop", "irq"})
  BY DomainIs DEF OamInterrupt, Request, Only

\* A call in mode 2.
LEMMA OamEffect ==
  ASSUME NEW q, DOMAIN q = DOMAIN PowerOn, Search(q), SpritesOn[q.LY] \in Nat,
         ClkLine(q) \in 0 .. OamCycles - 1
  PROVE  LET s == Oam(q)
         IN  /\ Only(q, s, {"mode", "hbl_clks_st", "hbl_flop", "spi", "irq", "vscan",
                            "vscanR", "scanned", "oam_flop"})
             /\ s.mode = "oam" /\ s.hbl_clks_st = Late /\ Search(s)
             /\ s.spi \subseteq (IF q.lcdm_cac = "hblank" THEN {} ELSE q.spi) \cup {q.LY}
<1> DEFINE fromHblank == q.lcdm_cac = "hblank"
           lost == fromHblank /\ ~q.hbl_flop /\ "hbl" \in q.enables
           a == [q EXCEPT !.mode = "oam", !.hbl_clks_st = Late,
                     !.hbl_flop = IF fromHblank THEN FALSE ELSE @,
                     !.spi = IF fromHblank THEN {} ELSE @,
                     !.irq = IF lost THEN @ \cup {LCDC} ELSE @]
           interv == (ClkLine(q) * Scans) \div OamCycles
           b == SearchTo(a, interv)
           s == OamInterrupt(b)
<1>1. interv \in 0 .. Scans - 1
  BY Position, PpuConstants
<1>2. s = Oam(q)
  BY DEF Oam
<1>3. /\ Only(q, a, {"mode", "hbl_clks_st", "hbl_flop", "spi", "irq"})
      /\ a.mode = "oam" /\ a.hbl_clks_st = Late
      /\ a.spi = IF fromHblank THEN {} ELSE q.spi
  <2> HIDE DEF fromHblank, lost
  <2> QED
    BY DomainIs DEF Only
<1> HIDE DEF a, b, s, interv, fromHblank
<1>4. /\ DOMAIN a = DOMAIN PowerOn /\ a.LY = q.LY
      /\ Search(a) /\ SpritesOn[a.LY] \in Nat
  BY <1>3, DomainIs DEF Only, Search
<1>5. /\ Only(a, b, {"vscan", "vscanR", "scanned", "spi"})
      /\ Search(b) /\ b.spi \subseteq a.spi \cup {a.LY}
  BY <1>1, <1>4, SearchToEffect DEF b
<1>6. DOMAIN b = DOMAIN PowerOn
  BY <1>4, <1>5 DEF Only
<1>7. Only(b, s, {"oam_flop", "irq"})
  BY <1>6, OamInterruptEffect DEF s
<1>8. /\ Only(q, s, {"mode", "hbl_clks_st", "hbl_flop", "spi", "irq", "vscan",
                            "vscanR", "scanned", "oam_flop"})
      /\ s.mode = a.mode /\ s.hbl_clks_st = a.hbl_clks_st /\ s.spi = b.spi
  BY <1>3, <1>4, <1>5, <1>6, <1>7, DomainIs DEF Only
<1>9. Search(s)
  BY <1>5, <1>6, <1>7, DomainIs DEF Only, Search
<1> QED
  BY <1>2, <1>3, <1>4, <1>5, <1>8, <1>9 DEF fromHblank

\* The edge of mode 3 ends the search and sets the length of the mode.
LEMMA OamVramEdgeEffect ==
  ASSUME NEW q, DOMAIN q = DOMAIN PowerOn, Search(q), SpritesOn[q.LY] \in Nat
  PROVE  LET e == OamVramEdge(q)
         IN  /\ Only(q, e, {"hbl_clks_st", "bg_len", "spi", "irq", "vscan",
                            "vscanR", "scanned", "oam_flop"})
             /\ e.bg_len = BgCycles + e.vscanR * SpriteCycles
             /\ e.hbl_clks_st = e.bg_len + OamCycles
             /\ e.vscanR = Min({SpritesOn[q.LY], Scans})
             /\ e.spi \subseteq q.spi \cup {q.LY}
<1> DEFINE a == SearchTo(q, Scans - 1)
           b == OamInterrupt(a)
           len == BgCycles + b.vscanR * SpriteCycles
           e == [b EXCEPT !.oam_flop = FALSE, !.bg_len = len,
                          !.hbl_clks_st = len + OamCycles]
<1>1. e = OamVramEdge(q)
  BY DEF OamVramEdge
<1>2. Scans - 1 \in 0 .. Scans - 1
  BY PpuConstants
<1> HIDE DEF a, b, len
<1>3. /\ Only(q, a, {"vscan", "vscanR", "scanned", "spi"})
      /\ a.vscanR = Min({SpritesOn[q.LY], Scans})
      /\ a.spi \subseteq q.spi \cup {q.LY}
  BY <1>2, SearchToEffect DEF a
<1>4. DOMAIN a = DOMAIN PowerOn
  BY <1>3 DEF Only
<1>5. Only(a, b, {"oam_flop", "irq"})
  BY <1>4, OamInterruptEffect DEF b
<1>6. /\ Only(b, e, {"oam_flop", "bg_len", "hbl_clks_st"})
      /\ e.bg_len = len /\ e.hbl_clks_st = len + OamCycles
  BY <1>4, <1>5, DomainIs DEF Only
<1> HIDE DEF e
<1>7. /\ Only(q, e, {"hbl_clks_st", "bg_len", "spi", "irq", "vscan",
                            "vscanR", "scanned", "oam_flop"})
      /\ e.vscanR = b.vscanR /\ e.vscanR = a.vscanR /\ e.spi = a.spi
  BY <1>3, <1>4, <1>5, <1>6, DomainIs DEF Only
<1> QED
  BY <1>1, <1>3, <1>6, <1>7 DEF len

\* The columns due since the last call are drawn.
Draw(e, interv) ==
  IF interv = e.uscan THEN e
  ELSE [BgwinRender(e, interv - e.uscan) EXCEPT !.uscan = interv]

\* n columns are drawn.
LEMMA BgwinRenderEffect ==
  ASSUME NEW p, DOMAIN p = DOMAIN PowerOn, NEW n
  PROVE  LET s == BgwinRender(p, n)
         IN  /\ Only(p, s, {"uscanR", "painted"})
             /\ s.uscanR = p.uscanR + n /\ s.painted = p.painted + n
  BY DomainIs DEF BgwinRender, Only

\* Afterwards the columns drawn are as far ahead of the position as before.
LEMMA DrawEffect ==
  ASSUME NEW e, DOMAIN e = DOMAIN PowerOn, NEW interv \in Int,
         e.uscan \in Int, e.uscanR \in Int, e.painted = e.uscanR
  PROVE  LET s == Draw(e, interv)
         IN  /\ Only(e, s, {"uscan", "uscanR", "painted"})
             /\ s.uscan = interv /\ s.uscanR = interv + (e.uscanR - e.uscan)
             /\ s.painted = s.uscanR
<1> DEFINE n == interv - e.uscan
           s == Draw(e, interv)
<1>1. CASE interv = e.uscan
  BY <1>1 DEF Draw, Only
<1>2. CASE interv # e.uscan
  <2>1. s = [BgwinRender(e, n) EXCEPT !.uscan = interv]
    BY <1>2 DEF Draw
  <2> HIDE DEF n, s
  <2>2. /\ Only(e, s, {"uscan", "uscanR", "painted"})
        /\ s.uscan = interv /\ s.uscanR = e.uscanR + n /\ s.painted = e.painted + n
    BY <2>1, BgwinRenderEffect, DomainIs DEF Only
  <2> QED
    BY <2>2 DEF n, s
<1> QED
  BY <1>1, <1>2

\* A call in mode 3: the edge if it is one, then the columns.
LEMMA OamVramIs ==
  ASSUME NEW p
  PROVE  LET q == [p EXCEPT !.mode = "oamvram"]
             e == IF p.lcdm_cac # "oamvram" THEN OamVramEdge(q) ELSE q
             interv == ((ClkLine(p) - OamCycles) * Columns) \div e.bg_len
         IN  OamVram(p) = Draw(e, interv)
  BY DEF OamVram, Draw

\* A block stops the CPU and is noted for the line, or nothing happens.
LEMMA HdmaBlockEffect ==
  ASSUME NEW p, DOMAIN p = DOMAIN PowerOn
  PROVE  LET s == HdmaBlock(p)
         IN  /\ Only(p, s, {"hdma_r16", "dma", "copied"})
             /\ \/ s.dma = p.dma /\ s.copied = p.copied
                \/ s.dma = p.dma + HdmaCycles /\ s.copied = p.LY
  BY DomainIs DEF HdmaBlock, Only

\* The edge of mode 0 draws what is missing of the line.
LEMMA HblankEdgeEffect ==
  ASSUME NEW p, DOMAIN p = DOMAIN PowerOn, p.uscanR \in 0 .. Columns,
         p.painted = p.uscanR
  PROVE  LET s == HblankEdge(p)
         IN  /\ Only(p, s, {"oam_flop", "vscan", "vscanR", "scanned", "uscan", "uscanR",
                            "hbl_flop", "painted", "hdma_r16", "dma", "copied"})
             /\ Fresh(s) /\ s.painted = Columns
             /\ \/ s.dma = p.dma /\ s.copied = p.copied
                \/ s.dma = p.dma + HdmaCycles /\ s.copied = p.LY
<1> DEFINE q == IF p.uscanR < Columns THEN BgwinRender(p, Columns - p.uscanR) ELSE p
           r == [q EXCEPT !.oam_flop = FALSE, !.vscan = -1, !.scanned = FALSE,
                          !.uscan = -1, !.vscanR = 0, !.uscanR = 0,
                          !.hbl_flop = TRUE]
<1>1. HblankEdge(p) = HdmaBlock(r)
  BY DEF HblankEdge
<1>2. Only(p, q, {"uscanR", "painted"}) /\ q.painted = Columns
  <2> DEFINE n == Columns - p.uscanR
  <2>1. CASE p.uscanR < Columns
    <3>1. q = BgwinRender(p, n)
      BY <2>1
    <3> HIDE DEF n
    <3>2. Only(p, q, {"uscanR", "painted"}) /\ q.painted = p.painted + n
      BY <3>1, BgwinRenderEffect
    <3> QED
      BY <3>2, PpuConstants DEF n
  <2>2. CASE ~(p.uscanR < Columns)
    BY <2>2, PpuConstants DEF Only
  <2> QED
    BY <2>1, <2>2
<1> HIDE DEF q
<1>3. /\ Only(q, r, {"oam_flop", "vscan", "vscanR", "scanned", "uscan", "uscanR", "hbl_flop"})
      /\ Fresh(r)
  BY <1>2, DomainIs DEF Only, Fresh
<1> HIDE DEF r
<1>4. DOMAIN r = DOMAIN PowerOn /\ r.dma = p.dma /\ r.copied = p.copied /\ r.LY = p.LY
      /\ r.painted = Columns
  BY <1>2, <1>3, DomainIs DEF Only
<1> DEFINE s == HdmaBlock(r)
<1>5. /\ Only(r, s, {"hdma_r16", "dma", "copied"})
      /\ \/ s.dma = r.dma /\ s.copied = r.copied
         \/ s.dma = r.dma + HdmaCycles /\ s.copied = r.LY
  BY <1>4, HdmaBlockEffect
<1> HIDE DEF s
<1>6. /\ Only(p, s, {"oam_flop", "vscan", "vscanR", "scanned", "uscan", "uscanR",
                            "hbl_flop", "painted", "hdma_r16", "dma", "copied"})
      /\ Fresh(s) /\ s.painted = Columns
  BY <1>2, <1>3, <1>4, <1>5, DomainIs DEF Only, Fresh
<1> QED
  BY <1>1, <1>4, <1>5, <1>6 DEF s

\* A call in mode 0: the edge if it is one; the interrupt changes no picture.
LEMMA HblankIs ==
  ASSUME NEW p, DOMAIN p = DOMAIN PowerOn
  PROVE  LET q == [p EXCEPT !.mode = "hblank"]
             e == IF p.lcdm_cac # "hblank" THEN HblankEdge(q) ELSE q
         IN  DOMAIN e = DOMAIN PowerOn => Only(e, Hblank(p), {"hbl_flop", "irq"})
<1> DEFINE q == [p EXCEPT !.mode = "hblank"]
           e == IF p.lcdm_cac # "hblank" THEN HblankEdge(q) ELSE q
<1>1. Hblank(p) = IF "hbl" \in e.enables /\ ~e.hbl_flop
                  THEN Request([e EXCEPT !.hbl_flop = TRUE], LCDC) ELSE e
  BY DEF Hblank
<1> HIDE DEF e
<1>2. DOMAIN e = DOMAIN PowerOn => Only(e, Hblank(p), {"hbl_flop", "irq"})
  BY <1>1, DomainIs DEF Request, Only
<1> QED
  BY <1>2 DEF e

\* A call in mode 1 hands the frame over on the edge only.
LEMMA VblankEffect ==
  ASSUME NEW p, DOMAIN p = DOMAIN PowerOn
  PROVE  LET s == Vblank(p)
         IN  /\ Only(p, s, {"mode", "shown", "irq"})
             /\ s.mode = "vblank"
             /\ s.shown = IF p.lcdm_cac # "vblank" THEN p.shown + 1 ELSE p.shown
  BY DomainIs DEF Vblank, Request, Only

\* What a call of the devices can take.
Short(k) ==
  /\ k \in Nat \ {0}
  /\ k <= OamCycles /\ k <= BgCycles
  /\ OamCycles + BgCycles + Scans * SpriteCycles + k <= LineCycles

\* A call of k clocks on p comes to the modes with q.
Reached(p, q, k) ==
  /\ SameLine(p, q, k) \/ NextLine(p, q, k) \/ NextFrame(p, q, k)
  /\ DOMAIN q = DOMAIN PowerOn
  /\ q.LY \in 0 .. Lines - 1
  /\ ClkLine(q) \in 0 .. LineCycles - 1
  /\ q.clk >= VisibleLines * LineCycles <=> q.LY >= VisibleLines
  /\ q.lcdm_cac = p.mode /\ q.dma = 0 /\ q.hbl_clks_st = p.hbl_clks_st
  /\ q.spi = p.spi

\* Mode 3 lasts as long as without sprites at least, and as with Scans at most.
LEMMA LengthBounds ==
  ASSUME NEW p, InOamVram(p), SpritesOn[p.LY] \in Nat
  PROVE  /\ p.vscanR \in Nat /\ p.bg_len \in Nat /\ p.bg_len >= BgCycles
         /\ p.bg_len <= BgCycles + Scans * SpriteCycles
<1> USE PpuConstants
<1> DEFINE v == p.vscanR
<1>1. v \in 0 .. Scans
  BY LeastOfTwo DEF InOamVram
<1>2. v * SpriteCycles >= 0 /\ v * SpriteCycles \in Nat
  BY <1>1
<1>3. (Scans - v) * SpriteCycles >= 0 /\ (Scans - v) * SpriteCycles = Scans * SpriteCycles - v * SpriteCycles
  BY <1>1
<1>4. p.bg_len = BgCycles + v * SpriteCycles
  BY DEF InOamVram
<1> QED
  BY <1>1, <1>2, <1>3, <1>4

\* A visible line has a number of sprites.
LEMMA Visible ==
  ASSUME NEW y \in Nat, y < VisibleLines
  PROVE  SpritesOn[y] \in Nat
  BY PpuAssumption, PpuConstants

\* A line is only left from H-blank or V-blank, and a frame from V-blank: the
\* other modes end well before the line does.
LEMMA WhereFrom ==
  ASSUME NEW p, PpuOk(p), NEW k, Short(k), NEW q, Reached(p, q, k)
  PROVE  /\ p.mode \in {"oam", "oamvram"} => SameLine(p, q, k)
         /\ NextFrame(p, q, k) => p.mode = "vblank" /\ q.LY = 0
         /\ SameLine(p, q, k) \/ ClkLine(q) < OamCycles
         /\ p.mode = "hblank" /\ SameLine(p, q, k) =>
              (p.clk = 0 /\ p.LY = 0) \/ ClkLine(q) >= OamCycles
<1> USE PpuConstants DEF PpuOk, PictureOk, Short, Reached
<1>1. ASSUME p.mode = "oam"
      PROVE  SameLine(p, q, k)
  BY <1>1 DEF InOam, NextLine, NextFrame
<1>2. ASSUME p.mode = "oamvram"
      PROVE  SameLine(p, q, k)
  <2>1. SpritesOn[p.LY] \in Nat
    BY <1>2, Visible
  <2>2. ClkLine(p) < OamCycles + BgCycles + Scans * SpriteCycles
    BY <1>2, <2>1, LengthBounds DEF InOamVram
  <2> QED
    BY <2>2 DEF NextLine, NextFrame
<1>3. NextFrame(p, q, k) => p.mode = "vblank" /\ q.LY = 0
  BY DEF NextFrame
<1>4. SameLine(p, q, k) \/ ClkLine(q) < OamCycles
  BY DEF NextFrame, NextLine
<1>5. ASSUME p.mode = "hblank", SameLine(p, q, k)
      PROVE  (p.clk = 0 /\ p.LY = 0) \/ ClkLine(q) >= OamCycles
  BY <1>5 DEF InHblank, SameLine
<1> QED
  BY <1>1, <1>2, <1>3, <1>4, <1>5

\* Each mode, from where it is reached, leaves a picture that is in step.
LEMMA ToVblank ==
  ASSUME NEW p, PpuOk(p), NEW k, Short(k), NEW q, Reached(p, q, k),
         q.LY >= VisibleLines
  PROVE  LET s == Vblank(q)
         IN  PictureOk(s) /\ Only(q, s, {"mode", "shown", "irq"}) /\ s.dma = 0
<1> DEFINE s == Vblank(q)
<1>1. /\ Only(q, s, {"mode", "shown", "irq"})
      /\ s.mode = "vblank"
      /\ s.shown = IF q.lcdm_cac # "vblank" THEN q.shown + 1 ELSE q.shown
  BY VblankEffect DEF Reached
<1> HIDE DEF s
<1>2. ~NextFrame(p, q, k)
  BY WhereFrom, PpuConstants
<1>3. q.shown = p.shown /\ q.copied = p.copied
  BY <1>2, DomainIs DEF SameLine, NextLine, Only, Reached, PpuOk
<1>4. s.hbl_clks_st = p.hbl_clks_st /\ s.copied = p.copied /\ s.LY = q.LY /\ s.dma = 0
  BY <1>1, <1>3, DomainIs DEF Only, Reached
<1>5. s.shown = 1
  BY <1>1, <1>3 DEF PpuOk, PictureOk, Reached
<1>6. PictureOk(s)
  BY <1>1, <1>4, <1>5 DEF PictureOk, PpuOk, Modes
<1> QED
  BY <1>1, <1>4, <1>6 DEF s

\* Mode 2 is reached from itself, or from a line or a frame before.
LEMMA ToOam ==
  ASSUME NEW p, PpuOk(p), NEW k, Short(k), NEW q, Reached(p, q, k),
         q.LY < VisibleLines, ClkLine(q) < OamCycles
  PROVE  LET s == Oam(q)
         IN  /\ PictureOk(s) /\ s.dma = 0
             /\ Only(q, s, {"mode", "hbl_clks_st", "hbl_flop", "spi", "irq", "vscan",
                            "vscanR", "scanned", "oam_flop"})
<1> USE PpuConstants
<1> DEFINE s == Oam(q)
<1>1. SpritesOn[q.LY] \in Nat
  BY Visible DEF Reached
\* The line before is over, or this one has been searched in part.
<1>2. /\ Search(q) /\ q.uscanR = 0 /\ q.painted = 0 /\ q.uscan \in {-1, 0}
      /\ q.copied \in Int /\ q.copied < q.LY /\ q.shown = 0
      /\ q.LY # 0 => q.lcdm_cac = "hblank" \/ q.spi \subseteq {q.LY}
  <2>1. CASE SameLine(p, q, k)
    <3>1. /\ q.LY = p.LY /\ q.painted = p.painted
          /\ Only(p, q, {"clk", "LY", "coincidence", "interrupt45_flop", "irq", "painted"})
      BY <2>1 DEF SameLine
    <3>2. CASE p.mode = "oam"
      <4>1. InOam(p) /\ p.shown = 0 /\ p.copied \in Int
        BY <3>2 DEF PpuOk, PictureOk
      <4>2. /\ q.vscan = p.vscan /\ q.vscanR = p.vscanR /\ q.scanned = p.scanned
            /\ q.uscanR = p.uscanR /\ q.uscan = p.uscan /\ q.copied = p.copied
            /\ q.shown = p.shown /\ q.spi = p.spi
        BY <3>1, DomainIs DEF Only, PpuOk
      <4> QED
        BY <3>1, <4>1, <4>2 DEF InOam, Search
    <3>3. CASE p.mode = "hblank" /\ p.clk = 0 /\ p.LY = 0
      <4>1. InHblank(p) /\ p.shown = 0
        BY <3>3 DEF PpuOk, PictureOk
      <4> QED
        <5>1. /\ Fresh(p) /\ p.painted = 0 /\ p.copied = -1
          BY <3>3, <4>1, <1>1 DEF InHblank, PpuOk, PictureOk, ClkLine
        <5>2. /\ q.vscan = p.vscan /\ q.vscanR = p.vscanR /\ q.scanned = p.scanned
              /\ q.uscanR = p.uscanR /\ q.uscan = p.uscan /\ q.copied = p.copied
              /\ q.shown = p.shown
          BY <3>1, DomainIs DEF Only, PpuOk
        <5> QED
          BY <1>1, <3>1, <3>3, <4>1, <5>1, <5>2 DEF Fresh, Search
    <3>4. p.mode # "oamvram"
      BY <2>1 DEF PpuOk, PictureOk, InOamVram, SameLine, Short
    <3>5. p.mode # "vblank"
      BY <3>1 DEF PpuOk, PictureOk
    <3>6. p.mode = "hblank" => p.clk = 0 /\ p.LY = 0
      BY <2>1, WhereFrom DEF PpuOk, Reached
    <3> QED
      BY <3>2, <3>3, <3>4, <3>5, <3>6 DEF PpuOk, PictureOk, Modes
  <2>2. CASE NextLine(p, q, k)
    <3>1. p.mode = "hblank"
      BY <2>2, WhereFrom DEF PpuOk, PictureOk, Modes, NextLine, SameLine
    <3>2. InHblank(p) /\ p.shown = 0 /\ p.copied \in Int
      BY <3>1 DEF PpuOk, PictureOk
    <3> QED
      BY <2>2, <3>1, <3>2, <1>1, DomainIs DEF Only, PpuOk, NextLine, InHblank, Fresh,
                                              Search, Reached
  <2>3. CASE NextFrame(p, q, k)
    BY <2>3, <1>1 DEF NextFrame, Fresh, Search
  <2> QED
    BY <2>1, <2>2, <2>3 DEF Reached
<1>3. /\ Only(q, s, {"mode", "hbl_clks_st", "hbl_flop", "spi", "irq", "vscan",
                     "vscanR", "scanned", "oam_flop"})
      /\ s.mode = "oam" /\ s.hbl_clks_st = Late /\ Search(s)
      /\ s.spi \subseteq (IF q.lcdm_cac = "hblank" THEN {} ELSE q.spi) \cup {q.LY}
  BY <1>1, <1>2, OamEffect DEF Reached
<1> HIDE DEF s
<1>4. /\ s.uscanR = 0 /\ s.painted = 0 /\ s.uscan = q.uscan /\ s.copied = q.copied
      /\ s.LY = q.LY /\ s.shown = 0 /\ ClkLine(s) = ClkLine(q) /\ s.dma = 0
  BY <1>2, <1>3, DomainIs DEF Only, Reached, ClkLine
<1>5. InOam(s)
  BY <1>2, <1>3, <1>4 DEF InOam
<1>6. PictureOk(s)
  BY <1>2, <1>3, <1>4, <1>5 DEF PictureOk, Modes, Late, Reached
<1> QED
  BY <1>3, <1>4, <1>6 DEF s

\* Mode 3 is reached from itself or from mode 2 (or from power-on), on a line.
LEMMA ToOamVram ==
  ASSUME NEW p, PpuOk(p), NEW k, Short(k), NEW q, Reached(p, q, k),
         q.LY < VisibleLines, ClkLine(q) >= OamCycles, ~(ClkLine(q) >= q.hbl_clks_st)
  PROVE  LET s == OamVram(q)
         IN  /\ PictureOk(s) /\ s.dma = 0
             /\ Only(q, s, {"mode", "hbl_clks_st", "bg_len", "spi", "irq", "vscan",
                            "vscanR", "scanned", "oam_flop", "uscan", "uscanR", "painted"})
<1> USE PpuConstants
<1>1. SpritesOn[q.LY] \in Nat
  BY Visible DEF Reached
<1>2. /\ SameLine(p, q, k) /\ q.LY = p.LY /\ q.painted = p.painted
      /\ Only(p, q, {"clk", "LY", "coincidence", "interrupt45_flop", "irq", "painted"})
  BY WhereFrom DEF SameLine, Reached
<1>3. /\ q.vscan = p.vscan /\ q.vscanR = p.vscanR /\ q.scanned = p.scanned
      /\ q.uscanR = p.uscanR /\ q.uscan = p.uscan /\ q.copied = p.copied
      /\ q.shown = p.shown /\ q.spi = p.spi /\ q.bg_len = p.bg_len
  BY <1>2, DomainIs DEF Only, PpuOk
<1> DEFINE a == [q EXCEPT !.mode = "oamvram"]
           e == IF q.lcdm_cac # "oamvram" THEN OamVramEdge(a) ELSE a
           interv == ((ClkLine(q) - OamCycles) * Columns) \div e.bg_len
           s == OamVram(q)
<1>4. s = Draw(e, interv)
  BY OamVramIs
<1>5. Only(q, a, {"mode"}) /\ a.mode = "oamvram" /\ DOMAIN a = DOMAIN PowerOn
  BY DomainIs DEF Only, Reached
<1> HIDE DEF a
\* On the edge or behind it, the length of the mode is known.
<1>6. /\ Only(q, e, {"mode", "hbl_clks_st", "bg_len", "spi", "irq", "vscan",
                     "vscanR", "scanned", "oam_flop"})
      /\ e.mode = "oamvram"
      /\ e.bg_len = BgCycles + e.vscanR * SpriteCycles
      /\ e.hbl_clks_st = e.bg_len + OamCycles
      /\ e.vscanR = Min({SpritesOn[q.LY], Scans})
      /\ q.LY # 0 => e.spi \subseteq {q.LY}
      /\ q.painted = q.uscanR /\ q.uscan \in Int /\ q.uscanR - q.uscan \in {0, 1}
      /\ q.uscanR \in Nat
      /\ q.copied \in Int /\ q.copied < q.LY /\ q.shown = 0
      /\ ClkLine(q) - OamCycles < BgCycles \/ ClkLine(q) < e.hbl_clks_st
  <2>1. CASE p.mode = "oamvram"
    <3>1. InOamVram(p) /\ p.copied \in Int /\ p.shown = 0
      BY <2>1 DEF PpuOk, PictureOk
    <3>2. e = a /\ q.hbl_clks_st = p.hbl_clks_st
      BY <2>1 DEF Reached
    <3>3. /\ Only(q, e, {"mode"}) /\ e.mode = "oamvram" /\ e.bg_len = q.bg_len
          /\ e.vscanR = q.vscanR /\ e.hbl_clks_st = q.hbl_clks_st /\ e.spi = q.spi
      BY <1>5, <3>2, DomainIs DEF Only
    <3> HIDE DEF e
    <3>4. Only(q, e, {"mode", "hbl_clks_st", "bg_len", "spi", "irq", "vscan",
                     "vscanR", "scanned", "oam_flop"})
      BY <3>3 DEF Only
    <3>5. e.bg_len = BgCycles + e.vscanR * SpriteCycles
      BY <1>3, <3>1, <3>3 DEF InOamVram
    <3>6. q.uscanR \in Nat /\ q.uscan \in Int /\ q.uscanR - q.uscan \in {0, 1}
      BY <1>3, <3>1 DEF InOamVram
    <3>7. e.hbl_clks_st \in Nat
      BY <3>2, <3>3 DEF PpuOk, PictureOk
    <3> QED
      BY <1>2, <1>3, <3>1, <3>2, <3>3, <3>4, <3>5, <3>6, <3>7 DEF InOamVram, Reached
  <2>2. CASE p.mode # "oamvram"
    <3>1. /\ Search(q) /\ q.uscanR = 0 /\ q.painted = 0 /\ q.uscan \in {-1, 0}
          /\ q.copied \in Int /\ q.copied < q.LY /\ q.shown = 0
          /\ q.LY # 0 => q.spi \subseteq {q.LY}
          /\ ClkLine(q) - OamCycles < BgCycles
      <4>1. CASE p.mode = "oam"
        <5>1. InOam(p) /\ p.shown = 0 /\ p.copied \in Int
          BY <4>1 DEF PpuOk, PictureOk
        <5> QED
          BY <1>2, <1>3, <5>1 DEF InOam, Search, SameLine, Short, PpuOk
      <4>2. CASE p.mode = "hblank"
        <5>1. InHblank(p) /\ p.shown = 0 /\ q.hbl_clks_st = p.hbl_clks_st
              /\ p.hbl_clks_st \in Nat
          BY <4>2 DEF PpuOk, PictureOk, Reached
        <5>2. p.clk = 0 /\ p.LY = 0 /\ p.painted = 0 /\ p.copied = -1
          BY <1>2, <5>1 DEF InHblank, SameLine, Short, PpuOk, Reached
        <5>3. ClkLine(p) = 0
          BY <5>2 DEF ClkLine
        <5>4. ClkLine(q) - OamCycles < BgCycles
          BY <1>2, <5>3 DEF SameLine, Short
        <5>5. Fresh(p)
          BY <5>1 DEF InHblank
        <5>6. Search(q)
          BY <1>1, <1>3, <5>5 DEF Fresh, Search
        <5>7. q.uscanR = 0 /\ q.uscan \in {-1, 0}
          BY <1>3, <5>5 DEF Fresh
        <5> QED
          BY <1>2, <1>3, <5>1, <5>2, <5>4, <5>6, <5>7
      <4>3. CASE p.mode = "vblank"
        BY <1>2, <4>3 DEF PpuOk, PictureOk
      <4> QED
        BY <2>2, <4>1, <4>2, <4>3 DEF PpuOk, PictureOk, Modes
    <3>2. e = OamVramEdge(a)
      BY <2>2 DEF Reached
    <3>3. Search(a) /\ a.LY = q.LY /\ a.spi = q.spi
      BY <1>5, <3>1, DomainIs DEF Only, Search
    <3> HIDE DEF e
    <3>4. /\ Only(a, e, {"hbl_clks_st", "bg_len", "spi", "irq", "vscan",
                            "vscanR", "scanned", "oam_flop"})
          /\ e.bg_len = BgCycles + e.vscanR * SpriteCycles
          /\ e.hbl_clks_st = e.bg_len + OamCycles
          /\ e.vscanR = Min({SpritesOn[q.LY], Scans})
          /\ e.spi \subseteq q.spi \cup {q.LY}
      BY <1>1, <1>5, <3>2, <3>3, OamVramEdgeEffect
    <3>5. /\ Only(q, e, {"mode", "hbl_clks_st", "bg_len", "spi", "irq", "vscan",
                         "vscanR", "scanned", "oam_flop"})
          /\ e.mode = "oamvram"
      BY <1>5, <3>4, DomainIs DEF Only
    <3> QED
      BY <3>1, <3>4, <3>5
  <2> QED
    BY <2>1, <2>2
<1> HIDE DEF e
<1>7. /\ e.vscanR \in 0 .. Scans /\ e.vscanR * SpriteCycles \in Nat
      /\ e.bg_len \in Nat /\ e.bg_len >= BgCycles
  <2> DEFINE v == e.vscanR
  <2>1. v \in 0 .. Scans
    BY <1>1, <1>6, LeastOfTwo
  <2>2. v * SpriteCycles \in Nat
    BY <2>1
  <2> QED
    BY <1>6, <2>1, <2>2
<1>8. ClkLine(q) < e.hbl_clks_st
  BY <1>6, <1>7 DEF Reached
<1>9. interv \in 0 .. Columns - 1
  <2>1. e.bg_len \in Nat \ {0} /\ ClkLine(q) - OamCycles \in 0 .. e.bg_len - 1
    BY <1>6, <1>7, <1>8 DEF Reached
  <2> QED
    BY <2>1, Position
<1> HIDE DEF interv
<1>10. /\ e.uscan = q.uscan /\ e.uscanR = q.uscanR /\ e.painted = q.painted
       /\ DOMAIN e = DOMAIN PowerOn /\ e.LY = q.LY /\ e.clk = q.clk
       /\ e.copied = q.copied /\ e.shown = q.shown /\ e.dma = q.dma
  BY <1>6, DomainIs DEF Only, Reached
<1> HIDE DEF s
<1>11. /\ Only(e, s, {"uscan", "uscanR", "painted"})
       /\ s.uscan = interv /\ s.uscanR = interv + (e.uscanR - e.uscan)
       /\ s.painted = s.uscanR
  BY <1>4, <1>6, <1>9, <1>10, DrawEffect
<1>12. /\ s.mode = "oamvram" /\ s.bg_len = e.bg_len /\ s.vscanR = e.vscanR
       /\ s.hbl_clks_st = e.hbl_clks_st /\ s.spi = e.spi /\ s.LY = q.LY /\ s.clk = q.clk
       /\ s.copied = q.copied /\ s.shown = q.shown /\ s.dma = 0
  BY <1>6, <1>10, <1>11, DomainIs DEF Only, Reached
<1>13. ClkLine(s) = ClkLine(q)
  BY <1>12 DEF ClkLine
<1>14. InOamVram(s)
  BY <1>6, <1>8, <1>9, <1>10, <1>11, <1>12, <1>13 DEF InOamVram
<1>15. PictureOk(s)
  BY <1>6, <1>7, <1>12, <1>14 DEF PictureOk, Modes, Reached
<1>16. Only(q, s, {"mode", "hbl_clks_st", "bg_len", "spi", "irq", "vscan",
                   "vscanR", "scanned", "oam_flop", "uscan", "uscanR", "painted"})
  BY <1>6, <1>10, <1>11, DomainIs DEF Only, Reached
<1> QED
  BY <1>12, <1>15, <1>16 DEF s

\* Mode 0 is reached from itself or from mode 3, on a line.
LEMMA ToHblank ==
  ASSUME NEW p, PpuOk(p), NEW k, Short(k), NEW q, Reached(p, q, k),
         q.LY < VisibleLines, ClkLine(q) >= q.hbl_clks_st
  PROVE  LET s == Hblank(q)
         IN  /\ PictureOk(s)
             /\ s.dma = 0 \/ (s.dma = HdmaCycles /\ s.copied = q.LY /\ p.copied < q.LY)
             /\ Only(q, s, {"mode", "irq", "oam_flop", "vscan", "vscanR", "scanned",
                            "uscan", "uscanR", "hbl_flop", "painted", "hdma_r16", "dma",
                            "copied"})
<1> USE PpuConstants
<1>1. SpritesOn[q.LY] \in Nat
  BY Visible DEF Reached
<1>2. /\ SameLine(p, q, k) /\ q.LY = p.LY /\ q.painted = p.painted
      /\ Only(p, q, {"clk", "LY", "coincidence", "interrupt45_flop", "irq", "painted"})
      /\ q.hbl_clks_st = p.hbl_clks_st /\ p.hbl_clks_st \in Nat
  <2>1. q.hbl_clks_st = p.hbl_clks_st /\ p.hbl_clks_st \in Nat
        /\ p.hbl_clks_st >= OamCycles
    BY DEF Reached, PpuOk, PictureOk
  <2>2. SameLine(p, q, k)
    BY <2>1, WhereFrom DEF Reached
  <2> QED
    BY <2>1, <2>2 DEF SameLine
<1>3. /\ q.vscan = p.vscan /\ q.vscanR = p.vscanR /\ q.scanned = p.scanned
      /\ q.uscanR = p.uscanR /\ q.uscan = p.uscan /\ q.copied = p.copied
      /\ q.shown = p.shown
  BY <1>2, DomainIs DEF Only, PpuOk
<1> DEFINE a == [q EXCEPT !.mode = "hblank"]
           e == IF q.lcdm_cac # "hblank" THEN HblankEdge(a) ELSE a
           s == Hblank(q)
<1>4. DOMAIN e = DOMAIN PowerOn => Only(e, s, {"hbl_flop", "irq"})
  BY HblankIs DEF Reached
<1>5. Only(q, a, {"mode"}) /\ a.mode = "hblank" /\ DOMAIN a = DOMAIN PowerOn
  BY DomainIs DEF Only, Reached
<1> HIDE DEF a, s
<1>6. /\ Only(q, e, {"mode", "oam_flop", "vscan", "vscanR", "scanned", "uscan", "uscanR",
                     "hbl_flop", "painted", "hdma_r16", "dma", "copied"})
      /\ e.mode = "hblank" /\ Fresh(e) /\ e.painted = Columns /\ q.shown = 0
      /\ e.copied \in Int /\ e.copied <= q.LY
      /\ e.dma = 0 \/ (e.dma = HdmaCycles /\ e.copied = q.LY /\ p.copied < q.LY)
  <2>1. CASE p.mode = "hblank"
    <3>1. InHblank(p) /\ p.shown = 0 /\ p.copied \in Int
      BY <2>1 DEF PpuOk, PictureOk
    <3>2. p.painted = Columns
      <4>1. ASSUME p.clk = 0, p.LY = 0, p.hbl_clks_st = Late
            PROVE  FALSE
        BY <1>2, <4>1 DEF Late, Reached
      <4> QED
        BY <3>1, <4>1 DEF InHblank
    <3>3. e = a
      BY <2>1 DEF Reached
    <3>4. /\ e.vscan = p.vscan /\ e.vscanR = p.vscanR /\ e.scanned = p.scanned
          /\ e.uscanR = p.uscanR /\ e.uscan = p.uscan /\ e.copied = p.copied
          /\ e.painted = p.painted /\ e.dma = 0
      BY <1>2, <1>3, <1>5, <3>3, DomainIs DEF Only, Reached
    <3>5. Only(q, e, {"mode", "oam_flop", "vscan", "vscanR", "scanned", "uscan",
               "uscanR", "hbl_flop", "painted", "hdma_r16", "dma", "copied"})
      BY <1>5, <3>3 DEF Only
    <3>6. e.mode = "hblank"
      BY <1>5, <3>3
    <3> HIDE DEF e
    <3>7. Fresh(e)
      BY <3>1, <3>4 DEF InHblank, Fresh
    <3> QED
      BY <1>2, <1>3, <3>1, <3>2, <3>4, <3>5, <3>6, <3>7 DEF InHblank
  <2>2. CASE p.mode = "oamvram"
    <3>1. InOamVram(p) /\ p.shown = 0 /\ p.copied \in Int
      BY <2>2 DEF PpuOk, PictureOk
    <3>2. e = HblankEdge(a)
      BY <2>2 DEF Reached
    <3>3. /\ a.uscanR = p.uscanR /\ a.painted = p.painted /\ a.dma = 0
          /\ a.copied = p.copied /\ a.LY = q.LY
      BY <1>2, <1>3, <1>5, DomainIs DEF Only, Reached
    <3>4. a.uscanR \in 0 .. Columns /\ a.painted = a.uscanR
      BY <3>1, <3>3 DEF InOamVram
    <3> HIDE DEF e
    <3>5. /\ Only(a, e, {"oam_flop", "vscan", "vscanR", "scanned", "uscan", "uscanR",
                            "hbl_flop", "painted", "hdma_r16", "dma", "copied"})
          /\ Fresh(e) /\ e.painted = Columns
          /\ \/ e.dma = a.dma /\ e.copied = a.copied
             \/ e.dma = a.dma + HdmaCycles /\ e.copied = a.LY
      BY <1>5, <3>2, <3>4, HblankEdgeEffect
    <3>6. /\ Only(q, e, {"mode", "oam_flop", "vscan", "vscanR", "scanned", "uscan",
                         "uscanR", "hbl_flop", "painted", "hdma_r16", "dma", "copied"})
          /\ e.mode = "hblank"
      BY <1>5, <3>5, DomainIs DEF Only
    <3>7. p.copied < q.LY
      BY <1>2, <3>1 DEF InOamVram
    <3> QED
      BY <1>3, <3>1, <3>3, <3>5, <3>6, <3>7 DEF Reached
  <2>3. p.mode # "oam"
    BY <1>2 DEF PpuOk, PictureOk, InOam, Late, Reached
  <2>4. p.mode # "vblank"
    BY <1>2 DEF PpuOk, PictureOk
  <2> QED
    BY <2>1, <2>2, <2>3, <2>4 DEF PpuOk, PictureOk, Modes
<1> HIDE DEF e
<1>7. DOMAIN e = DOMAIN PowerOn
  BY <1>6 DEF Only, Reached
<1>8. Only(e, s, {"hbl_flop", "irq"})
  BY <1>4, <1>7
<1>9. /\ s.mode = "hblank" /\ s.painted = Columns /\ s.copied = e.copied /\ s.dma = e.dma
      /\ s.hbl_clks_st = q.hbl_clks_st /\ s.LY = q.LY /\ s.clk = q.clk /\ s.shown = 0
  BY <1>3, <1>6, <1>7, <1>8, DomainIs DEF Only
<1>10. Fresh(s)
  BY <1>6, <1>7, <1>8, DomainIs DEF Only, Fresh
<1>11. ClkLine(s) = ClkLine(q)
  BY <1>9 DEF ClkLine
<1>12. InHblank(s)
  BY <1>6, <1>9, <1>10, <1>11 DEF InHblank
<1>13. PictureOk(s)
  BY <1>2, <1>6, <1>9, <1>12 DEF PictureOk, Modes, PpuOk, Reached
<1>14. Only(q, s, {"mode", "irq", "oam_flop", "vscan", "vscanR", "scanned",
                   "uscan", "uscanR", "hbl_flop", "painted", "hdma_r16", "dma", "copied"})
  BY <1>6, <1>7, <1>8, DomainIs DEF Only
<1> QED
  BY <1>6, <1>9, <1>13, <1>14 DEF s

\* ppu_run keeps the picture in step with the clock, and copies a block in an
\* H-blank only if none was copied on the line.
LEMMA PpuRunStep ==
  ASSUME NEW p, PpuOk(p), NEW k, Short(k)
  PROVE  LET s == PpuRun(p, k)
         IN  /\ PpuOk([s EXCEPT !.irq = {}, !.dma = 0])
             /\ s.dma \in Nat
             /\ s.dma > 0 => s.copied = s.LY /\ p.copied < s.LY
<1> USE PpuConstants
<1> DEFINE q == LineStep(FrameWrap([p EXCEPT !.clk = @ + k], FrameCycles), LineCycles)
           m == ModeStep(q)
           s == PpuRun(p, k)
           t == [s EXCEPT !.irq = {}, !.dma = 0]
<1>1. /\ SameLine(p, q, k) \/ NextLine(p, q, k) \/ NextFrame(p, q, k)
      /\ ClkLine(q) \in 0 .. LineCycles - 1
      /\ q.clk >= VisibleLines * LineCycles <=> q.LY >= VisibleLines
  BY Moved DEF Short
<1>2. s = [m EXCEPT !.line_cac = m.LY, !.lcdm_cac = m.mode]
  BY DEF PpuRun, Latch
<1> HIDE DEF q
<1>3. Reached(p, q, k)
  <2>1. /\ p.lcdm_cac = p.mode /\ p.dma = 0 /\ p.LY \in 0 .. Lines - 1
        /\ DOMAIN p = DOMAIN PowerOn
    BY DEF PpuOk
  <2>2. CASE SameLine(p, q, k) \/ NextLine(p, q, k)
    <3>1. /\ Only(p, q, {"clk", "LY", "coincidence", "interrupt45_flop", "irq", "painted"})
          /\ q.LY \in 0 .. Lines - 1
      BY <2>1, <2>2 DEF SameLine, NextLine
    <3>2. /\ q.lcdm_cac = p.lcdm_cac /\ q.dma = p.dma /\ q.hbl_clks_st = p.hbl_clks_st
          /\ q.spi = p.spi /\ DOMAIN q = DOMAIN PowerOn
      BY <2>1, <3>1, DomainIs DEF Only
    <3> QED
      BY <1>1, <2>1, <3>1, <3>2 DEF Reached
  <2>3. CASE NextFrame(p, q, k)
    <3>1. /\ Only(p, q, {"clk", "LY", "coincidence", "interrupt45_flop", "irq", "painted",
                         "oam_flop", "hbl_flop", "vscan", "vscanR", "scanned", "uscan",
                         "uscanR", "shown", "copied"})
          /\ q.LY = 0
      BY <2>3 DEF NextFrame
    <3>2. /\ q.lcdm_cac = p.lcdm_cac /\ q.dma = p.dma /\ q.hbl_clks_st = p.hbl_clks_st
          /\ q.spi = p.spi /\ DOMAIN q = DOMAIN PowerOn
      BY <2>1, <3>1, DomainIs DEF Only
    <3> QED
      BY <1>1, <2>1, <3>1, <3>2 DEF Reached
  <2> QED
    BY <1>1, <2>2, <2>3
<1>4. m = (IF q.LY >= VisibleLines THEN Vblank(q)
           ELSE IF ClkLine(q) >= q.hbl_clks_st THEN Hblank(q)
           ELSE IF ClkLine(q) >= OamCycles THEN OamVram(q)
           ELSE Oam(q))
  BY <1>1 DEF ModeStep
<1> HIDE DEF m, s
<1>5. /\ PictureOk(m)
      /\ m.dma = 0 \/ (m.dma = HdmaCycles /\ m.copied = q.LY /\ p.copied < q.LY)
      /\ DOMAIN m = DOMAIN PowerOn /\ m.clk = q.clk /\ m.LY = q.LY
  <2>1. CASE q.LY >= VisibleLines
    <3>1. PictureOk(m) /\ Only(q, m, {"mode", "shown", "irq"}) /\ m.dma = 0
      BY <1>3, <1>4, <2>1, ToVblank
    <3> QED
      BY <1>3, <3>1, DomainIs DEF Only, Reached
  <2> SUFFICES ASSUME q.LY < VisibleLines
               PROVE  /\ PictureOk(m)
                      /\ m.dma = 0 \/ (m.dma = HdmaCycles /\ m.copied = q.LY
                                        /\ p.copied < q.LY)
                      /\ DOMAIN m = DOMAIN PowerOn /\ m.clk = q.clk /\ m.LY = q.LY
    BY <1>3, <2>1 DEF Reached
  <2>2. ~(q.LY >= VisibleLines)
    BY <1>3 DEF Reached
  <2>3. CASE ClkLine(q) >= q.hbl_clks_st
    <3>1. /\ PictureOk(m)
          /\ m.dma = 0 \/ (m.dma = HdmaCycles /\ m.copied = q.LY /\ p.copied < q.LY)
          /\ Only(q, m, {"mode", "irq", "oam_flop", "vscan", "vscanR", "scanned",
                         "uscan", "uscanR", "hbl_flop", "painted", "hdma_r16", "dma",
                         "copied"})
      BY <1>3, <1>4, <2>2, <2>3, ToHblank
    <3> QED
      BY <1>3, <3>1, DomainIs DEF Only, Reached
  <2>4. CASE ~(ClkLine(q) >= q.hbl_clks_st) /\ ClkLine(q) >= OamCycles
    <3>1. /\ PictureOk(m) /\ m.dma = 0
          /\ Only(q, m, {"mode", "hbl_clks_st", "bg_len", "spi", "irq", "vscan",
                         "vscanR", "scanned", "oam_flop", "uscan", "uscanR", "painted"})
      BY <1>3, <1>4, <2>2, <2>4, ToOamVram
    <3> QED
      BY <1>3, <3>1, DomainIs DEF Only, Reached
  <2>5. CASE ~(ClkLine(q) >= q.hbl_clks_st) /\ ~(ClkLine(q) >= OamCycles)
    <3>1. ClkLine(q) < OamCycles
      BY <1>3, <2>5 DEF Reached
    <3>2. /\ PictureOk(m) /\ m.dma = 0
          /\ Only(q, m, {"mode", "hbl_clks_st", "hbl_flop", "spi", "irq", "vscan",
                         "vscanR", "scanned", "oam_flop"})
      BY <1>3, <1>4, <2>2, <2>5, <3>1, ToOam
    <3> QED
      BY <1>3, <3>2, DomainIs DEF Only, Reached
  <2> QED
    BY <2>3, <2>4, <2>5
<1>6. /\ Only(m, s, {"line_cac", "lcdm_cac"})
      /\ s.line_cac = m.LY /\ s.lcdm_cac = m.mode
  BY <1>2, <1>5, DomainIs DEF Only
<1>7. Only(s, t, {"irq", "dma"}) /\ t.dma = 0
  BY <1>5, <1>6, DomainIs DEF Only
<1> HIDE DEF t
<1>8. Only(m, t, {"line_cac", "lcdm_cac", "irq", "dma"})
  BY <1>5, <1>6, <1>7, DomainIs DEF Only
<1>9. /\ t.clk = m.clk /\ t.LY = m.LY /\ t.mode = m.mode
      /\ t.hbl_clks_st = m.hbl_clks_st /\ t.bg_len = m.bg_len /\ t.spi = m.spi
      /\ t.vscan = m.vscan /\ t.vscanR = m.vscanR /\ t.scanned = m.scanned
      /\ t.uscan = m.uscan /\ t.uscanR = m.uscanR
      /\ t.painted = m.painted /\ t.shown = m.shown /\ t.copied = m.copied
  BY <1>5, <1>8, DomainIs DEF Only
<1>10. t.line_cac = t.LY /\ t.lcdm_cac = t.mode /\ s.dma = m.dma
       /\ s.copied = m.copied /\ s.LY = m.LY
  BY <1>5, <1>6, <1>7, <1>9, DomainIs DEF Only
<1>11. ClkLine(t) = ClkLine(m) /\ ClkLine(m) = ClkLine(q)
  BY <1>5, <1>9 DEF ClkLine
<1>12. PictureOk(t)
  <2>1. InOam(m) => InOam(t)
    BY <1>9, <1>11 DEF InOam, Search
  <2>2. InOamVram(m) => InOamVram(t)
    BY <1>9, <1>11 DEF InOamVram
  <2>3. InHblank(m) => InHblank(t)
    BY <1>9, <1>11 DEF InHblank, Fresh
  <2> QED
    BY <1>5, <1>9, <2>1, <2>2, <2>3 DEF PictureOk
<1>13. q.clk \in Nat
  BY <1>1, <1>3, PpuConstants DEF SameLine, NextLine, NextFrame, PpuOk, Short
<1>14. PpuOk(t)
  BY <1>3, <1>5, <1>7, <1>8, <1>9, <1>10, <1>11, <1>12, <1>13 DEF PpuOk, Only, Reached
<1> QED
  BY <1>5, <1>10, <1>14 DEF s, t

\* calloc and ppu_reset leave a picture in step.
LEMMA PowerOnOk == PpuOk(PowerOn)
<1> USE PpuConstants
<1>1. ClkLine(PowerOn) = 0
  BY DEF ClkLine, PowerOn
<1>2. InHblank(PowerOn)
  BY <1>1 DEF InHblank, PowerOn, Fresh
<1>3. /\ PowerOn.clk = 0 /\ PowerOn.LY = 0 /\ PowerOn.line_cac = 0
      /\ PowerOn.mode = "hblank" /\ PowerOn.lcdm_cac = "hblank" /\ PowerOn.dma = 0
      /\ PowerOn.hbl_clks_st = Late /\ PowerOn.copied = -1 /\ PowerOn.shown = 0
  BY DEF PowerOn
<1>4. PictureOk(PowerOn)
  BY <1>2, <1>3 DEF PictureOk, Modes, Late
<1> QED
  BY <1>1, <1>3, <1>4 DEF PpuOk

\* What the program writes to the registers of the unit, and the end of a DMA,
\* leave the picture alone.
LEMMA RegistersKeepPicture ==
  ASSUME NEW p, NEW q, PpuOk(p),
         Only(p, q, {"LYC", "enables", "hdma_r16", "hdma_gen"})
  PROVE  PpuOk(q)
<1>1. DOMAIN p = DOMAIN PowerOn
  BY DEF PpuOk
<1>2. /\ q.clk = p.clk /\ q.LY = p.LY /\ q.mode = p.mode
      /\ q.hbl_clks_st = p.hbl_clks_st /\ q.bg_len = p.bg_len /\ q.spi = p.spi
      /\ q.vscan = p.vscan /\ q.vscanR = p.vscanR /\ q.scanned = p.scanned
      /\ q.uscan = p.uscan /\ q.uscanR = p.uscanR
      /\ q.painted = p.painted /\ q.shown = p.shown /\ q.copied = p.copied
      /\ q.line_cac = p.line_cac /\ q.lcdm_cac = p.lcdm_cac /\ q.dma = p.dma
      /\ DOMAIN q = DOMAIN PowerOn
  BY <1>1, DomainIs DEF Only
<1>3. ClkLine(q) = ClkLine(p)
  BY <1>2 DEF ClkLine
<1>4. InOam(p) => InOam(q)
  BY <1>2, <1>3 DEF InOam, Search
<1>5. InOamVram(p) => InOamVram(q)
  BY <1>2, <1>3 DEF InOamVram
<1>6. InHblank(p) => InHblank(q)
  BY <1>2, <1>3 DEF InHblank, Fresh
<1>7. PictureOk(q)
  BY <1>2, <1>4, <1>5, <1>6 DEF PictureOk, PpuOk
<1> QED
  BY <1>2, <1>3, <1>7 DEF PpuOk

\* Every call the loop makes is short.
LEMMA ShortCalls ==
  ASSUME NEW k \in OpClks \cup {1, 2}
  PROVE  Short(k)
  BY GameBoyAssumption, ShortAssumption DEF Short

\* The action of HdmaOncePerLine.
OncePerLine ==
  ~switched' /\ cpu_clks_dma' > cpu_clks_dma =>
    ppu'.copied = ppu'.LY /\ ppu.copied # ppu'.LY

\* internaldev_clks keeps the picture in step.
LEMMA DevicesPicture ==
  ASSUME InStep, NEW k, Short(k), NEW f, NEW d \in Nat, d <= cpu_clks_dma,
         Devices(k, f, d)
  PROVE  PpuOk(ppu') /\ cpu_clks_dma' \in Nat /\ OncePerLine
<1> DEFINE s == PpuRun(ppu, k)
<1>1. /\ ppu' = [s EXCEPT !.irq = {}, !.dma = 0]
      /\ cpu_clks_dma' = d + s.dma
  BY DEF Devices, InStep
<1>2. /\ PpuOk(ppu') /\ s.dma \in Nat
      /\ s.dma > 0 => s.copied = s.LY /\ ppu.copied < s.LY
  BY <1>1, PpuRunStep DEF InStep
<1> HIDE DEF s
<1>3. s.dma > 0 => ppu'.copied = s.copied /\ ppu'.LY = s.LY
  BY <1>1, <1>2, DomainIs DEF PpuOk
<1>4. ppu.copied \in Int /\ ppu'.LY \in Int
  BY <1>2 DEF InStep, PpuOk, PictureOk
<1> QED
  BY <1>1, <1>2, <1>3, <1>4 DEF OncePerLine, InStep

\* The invariant holds at power-on,
LEMMA PpuInvInit == Init => PpuInv
  BY PowerOnOk DEF Init, PpuInv, InStep

\* The speed is not changed in a step but by Adjust.
LEMMA SameSpeed ==
  ASSUME [Next]_vars, ~switched'
  PROVE  ~switched /\ fast' = fast /\ ~Adjust
<1>1. CASE UNCHANGED vars
  BY <1>1 DEF vars, speedVars, Adjust
<1>2. CASE DmaCycle \/ HaltCycle \/ Tick \/ WaitStates \/ PushPC \/ Vector
  BY <1>2 DEF DmaCycle, HaltCycle, Tick, WaitStates, PushPC, Vector, speedVars, Adjust
<1>3. CASE StopCycle \/ CheckInterrupt \/ StoreGdma
  BY <1>3 DEF StopCycle, CheckInterrupt, StoreGdma, speedVars, Adjust
<1>4. CASE GdmaForever \/ MidLine
  BY <1>4 DEF GdmaForever, MidLine, vars, speedVars, Adjust
<1>5. CASE Adjust
  BY <1>5 DEF Adjust
<1>6. ASSUME NEW k, Opcode(k)
      PROVE  ~switched /\ fast' = fast /\ ~Adjust
  BY <1>6 DEF Opcode, Free, Adjust
<1>7. CASE EI \/ DI \/ HALT \/ STOP \/ \E k \in OpClks : Plain(k) \/ RETI(k)
  BY <1>6, <1>7 DEF EI, DI, HALT, STOP, Plain, RETI
<1>8. CASE \/ StoreDivider \/ StoreTimer \/ StoreIF \/ StoreIE \/ StoreP1 \/ StoreKey1
           \/ StorePpu
  BY <1>6, <1>8 DEF StoreDivider, StoreTimer, StoreIF, StoreIE, StoreP1, StoreKey1,
                    StorePpu, Store
<1> QED
  BY <1>1, <1>2, <1>3, <1>4, <1>5, <1>7, <1>8 DEF Next

\* and every step of the loop keeps it.
LEMMA PpuInvStep == PpuInv /\ [Next]_vars => PpuInv' /\ OncePerLine
<1> SUFFICES ASSUME PpuInv, [Next]_vars, ~switched'
             PROVE  InStep' /\ OncePerLine
  BY DEF PpuInv, OncePerLine
<1>0. InStep /\ fast' = FALSE /\ ~Adjust
  BY SameSpeed DEF PpuInv, InStep
<1>1. PpuOk(ppu) /\ cpu_clks_dma \in Nat /\ DOMAIN ppu = DOMAIN PowerOn
  BY <1>0 DEF InStep, PpuOk
<1>2. /\ Only(ppu, HdmaDone, {"hdma_gen"})
      /\ DOMAIN HdmaDone = DOMAIN PowerOn
  BY <1>1, DomainIs DEF Only, HdmaDone
<1>3. PpuOk(HdmaDone)
  BY <1>1, <1>2, RegistersKeepPicture DEF Only
\* The steps that call internaldev_clks.
<1>4. ASSUME NEW k \in OpClks \cup {1, 2}, NEW f, NEW d \in Nat, d <= cpu_clks_dma,
             Devices(k, f, d), stage' # "tick"
      PROVE  InStep' /\ OncePerLine
  BY <1>0, <1>4, ShortCalls, DevicesPicture DEF InStep
<1>5. CASE DmaCycle
  BY <1>1, <1>4, <1>5 DEF DmaCycle
<1>6. CASE HaltCycle \/ WaitStates \/ PushPC \/ Vector
  BY <1>1, <1>4, <1>6 DEF HaltCycle, WaitStates, PushPC, Vector, Resumed
<1>7. CASE Tick
  <2>1. opclks \in OpClks \cup {1, 2}
    BY <1>0, <1>7 DEF Tick, InStep
  <2> QED
    BY <1>1, <1>4, <1>7, <2>1 DEF Tick
\* The opcodes.
<1>8. ASSUME NEW k \in OpClks \cup {1}, Opcode(k), PpuOk(ppu')
      PROVE  InStep' /\ OncePerLine
  BY <1>0, <1>1, <1>8 DEF Opcode, InStep, OncePerLine
<1>9. ASSUME NEW k \in OpClks, Plain(k) \/ RETI(k)
      PROVE  InStep' /\ OncePerLine
  BY <1>3, <1>8, <1>9 DEF Plain, RETI, SetIME, NoWrite
<1>10. CASE EI \/ DI \/ HALT \/ STOP
  <2>1. PpuOk(ppu') /\ Opcode(1)
    BY <1>3, <1>10 DEF EI, DI, HALT, STOP, SetIME, NoWrite
  <2> QED
    BY <1>8, <2>1
<1>11. CASE StoreDivider \/ StoreTimer \/ StoreIF \/ StoreIE \/ StoreP1 \/ StoreKey1
  BY <1>3, <1>8, <1>11 DEF StoreDivider, StoreTimer, StoreIF, StoreIE, StoreP1, StoreKey1,
                        Store
<1>12. CASE StorePpu
  <2>1. Only(HdmaDone, ppu', {"LYC", "enables", "hdma_r16", "hdma_gen"})
    BY <1>2, <1>12, DomainIs DEF StorePpu, Only
  <2>2. PpuOk(ppu')
    BY <1>3, <2>1, RegistersKeepPicture
  <2> QED
    BY <1>8, <1>12, <2>2 DEF StorePpu, Store
<1>13. CASE StoreGdma \/ CheckInterrupt \/ StopCycle
  <2>1. PpuOk(ppu') /\ cpu_clks_dma' = cpu_clks_dma /\ stage' # "tick"
    BY <1>1, <1>3, <1>13 DEF StoreGdma, CheckInterrupt, Resumed, StopCycle, Free
  <2> QED
    BY <1>0, <1>1, <2>1 DEF InStep, OncePerLine
<1>14. CASE GdmaForever \/ MidLine \/ UNCHANGED vars
  <2>1. UNCHANGED <<ppu, cpu_clks_dma, opclks, stage>>
    BY <1>14 DEF GdmaForever, MidLine, vars, cpuVars
  <2> QED
    BY <1>0, <1>1, <2>1 DEF InStep, OncePerLine
<1> QED
  BY <1>0, <1>5, <1>6, <1>7, <1>9, <1>10, <1>11, <1>12, <1>13, <1>14 DEF Next

\* The picture is in step with the clock between two calls of ppu_run, up to the
\* first change of the speed, for every program and every length of the modes no
\* call is long enough to skip.
THEOREM PictureCorrect == Spec => []PpuInv
  BY PpuInvInit, PpuInvStep, PTL DEF Spec

\* Every line is drawn completely when its H-blank is entered (ppu_run: columns
\* drawn as they fall due, and the rest on the edge).
THEOREM LineCorrect == Spec => []LineComplete
<1>1. PpuInv => LineComplete
  BY PpuConstants DEF PpuInv, InStep, PpuOk, PictureOk, InHblank, LineComplete
<1> QED
  BY <1>1, PictureCorrect, PTL

\* A line is drawn with its own sprites, all of them up to the limit (ppu_run:
\* the search is finished on the edge of mode 3, the cache cleared after H-blank).
THEOREM SpriteCacheCorrect == Spec => []SpriteCacheFresh
<1>1. PpuInv => SpriteCacheFresh
  BY DEF PpuInv, InStep, PpuOk, PictureOk, InOamVram, SpriteCacheFresh
<1> QED
  BY <1>1, PictureCorrect, PTL

\* The host gets each frame once (ppu_run calls device_blit on the edge).
THEOREM FrameCorrect == Spec => []FrameOnce
<1>1. PpuInv => FrameOnce
  BY DEF PpuInv, InStep, PpuOk, PictureOk, FrameOnce
<1> QED
  BY <1>1, PictureCorrect, PTL

\* A block of the H-blank DMA is copied at most once on a line (ppu_run), though
\* the clocks it costs call ppu_run again.
THEOREM HdmaCorrect == Spec => HdmaOncePerLine
<1>1. PpuInv /\ [Next]_vars =>
        [~switched' /\ cpu_clks_dma' > cpu_clks_dma =>
           ppu'.copied = ppu'.LY /\ ppu.copied # ppu'.LY]_vars
  BY PpuInvStep DEF OncePerLine
<1> QED
  BY <1>1, PictureCorrect, PTL DEF Spec, HdmaOncePerLine
=============================================================================
