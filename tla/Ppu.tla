-------------------------------- MODULE Ppu --------------------------------
(***************************************************************************)
(* The picture unit of the Game Boy core (dmgdraft/core/ppu.c) as the run  *)
(* loop sees it: ppu_run, called after every opcode with a clock that was  *)
(* moved on, finds out where in the frame it is, catches up with what      *)
(* should have been drawn since, and requests interrupts.                  *)
(*                                                                         *)
(* Time is scaled.  The constants of struct machine_setup are not          *)
(* multiples of a machine cycle (a line has 455.98 clocks), so the code's  *)
(* comparisons never meet an equality; a value here stands for one just    *)
(* below it, and clk >= T is the code's "cpu_clks_ppu > T".                *)
(*                                                                         *)
(* A pixel is not modelled: what is drawn is which columns of which line,  *)
(* and the sprite cache is the set of lines whose sprites it holds.        *)
(* vbl_flop and interrupt45_strike are never set and are left out.         *)
(*                                                                         *)
(* PpuRun is ppu_run with the table std_machine, PpuRunFast with the table *)
(* adv_machine, to which STOP may switch.                                  *)
(***************************************************************************)
EXTENDS Integers, FiniteSetsExt

CONSTANTS
  LineCycles,          \* line_cycles
  Lines,               \* line_total: 154
  VisibleLines,        \* line_vbl_st: 144
  OamCycles,           \* oam_cycles, oambg_clk_st
  BgCycles,            \* oambg_b_cycles
  SpriteCycles,        \* oam_clk_add_hbl_per
  Columns,             \* 21 tiles in a line
  Scans,               \* 10 searches for a sprite in a line
  SpritesOn,           \* sprites of the OAM that lie on each line
  HdmaCycles,          \* clocks the CPU stands still per block of 16 bytes
  SpeedRatio           \* cgb_gbp_p: 2.003

ASSUME PpuAssumption ==
  /\ {LineCycles, Lines, VisibleLines, OamCycles, BgCycles, Columns, Scans}
        \subseteq Nat \ {0}
  /\ VisibleLines < Lines
  /\ SpriteCycles \in Nat /\ HdmaCycles \in Nat
  /\ SpeedRatio \in Nat \ {0}
  /\ SpritesOn \in [0 .. VisibleLines - 1 -> Nat]
  /\ OamCycles + BgCycles + Scans * SpriteCycles < LineCycles

VARIABLE ppu           \* struct ppu

\* IRQ_1, IRQ_2; bits 6, 5, 4 and 3 of STAT; the modes of STAT.
VBLANK == 1
LCDC == 2
StatBits == {"lyc", "oam", "vbl", "hbl"}
Modes == {"hblank", "vblank", "oam", "oamvram"}

FrameCycles == LineCycles * Lines
Late == 2 * LineCycles \* hbl_clks_st = 9999.8, 571583.0: not in this line

\* calloc, ppu_init and ppu_reset.  irq: what this call requests; dma: the
\* clocks it adds to cpu_clks_dma.  painted, shown and copied are history: the
\* columns drawn on the current line, the frames handed to the host since the
\* last wrap, the line of the last H-blank copy (-1: none in this frame).
PowerOn ==
  [clk |-> 0, LY |-> 0, mode |-> "hblank", coincidence |-> FALSE,
   enables |-> {}, LYC |-> 0, line_cac |-> 0, lcdm_cac |-> "hblank",
   oam_flop |-> FALSE, hbl_flop |-> FALSE, interrupt45_flop |-> FALSE,
   vscan |-> -1, vscanR |-> 0, scanned |-> FALSE, uscan |-> 0, uscanR |-> 0,
   hbl_clks_st |-> Late, bg_len |-> BgCycles, spi |-> {},
   hdma_gen |-> FALSE, hdma_r16 |-> 0,
   irq |-> {}, dma |-> 0, painted |-> 0, shown |-> 0, copied |-> -1]

Request(p, n) == [p EXCEPT !.irq = @ \cup {n}]

\* The clock passed the end of the frame, which lasts frame clocks.
FrameWrap(p, frame) ==
  IF p.clk < frame THEN p
  ELSE [p EXCEPT !.clk = @ - frame,
                 !.irq = IF "vbl" \in p.enables THEN @ \cup {VBLANK} ELSE @,
                 !.oam_flop = FALSE, !.hbl_flop = FALSE,
                 !.interrupt45_flop = FALSE,
                 !.vscan = -1, !.vscanR = 0, !.scanned = FALSE,
                 !.uscan = -1, !.uscanR = 0,
                 !.shown = 0, !.copied = -1]

\* LY, the coincidence flag, and its interrupt on the first call of a line,
\* which lasts line clocks.
LineStep(p, line) ==
  LET scanline == p.clk \div line
      next == p.line_cac # scanline
      hit == next /\ p.LYC = scanline /\ "lyc" \in p.enables
      q == [p EXCEPT !.LY = scanline,
                     !.coincidence = (scanline = p.LYC),
                     !.interrupt45_flop = hit \/ (@ /\ ~next),
                     !.painted = IF next THEN 0 ELSE @]
  IN  IF hit THEN Request(q, LCDC) ELSE q

ClkLine(p) == p.clk - p.LY * LineCycles

\* sprite_render, n times: each call finds the next sprite of the line, or
\* that there is none; the pixels go to the cache.
SpriteRender(p, n) ==
  LET found == Min({p.vscanR + n, SpritesOn[p.LY]})
  IN  [p EXCEPT !.vscanR = found,
                !.scanned = (p.vscanR + n > SpritesOn[p.LY]),
                !.spi = IF found > p.vscanR THEN @ \cup {p.LY} ELSE @]

\* "check render oam": the searches due at position interv of the search.
SearchTo(p, interv) ==
  IF p.vscan # interv /\ p.vscanR < Scans /\ ~p.scanned
  THEN [SpriteRender(p, interv - p.vscan) EXCEPT !.vscan = interv]
  ELSE p

\* bgwin_render, n times: columns uscanR, uscanR + 1, ...
BgwinRender(p, n) == [p EXCEPT !.uscanR = @ + n, !.painted = @ + n]

\* Mode 2 interrupt of STAT, once until oam_flop is reset.
OamInterrupt(p) ==
  IF "oam" \in p.enables /\ ~p.oam_flop
  THEN Request([p EXCEPT !.oam_flop = TRUE], LCDC)
  ELSE p

\* Mutant of Oam: the sprite cache is not cleared.
OamKeepsCache(p) ==
  LET q == [p EXCEPT !.mode = "oam", !.hbl_clks_st = Late, !.hbl_flop = FALSE]
  IN  OamInterrupt(SearchTo(q, (ClkLine(p) * Scans) \div OamCycles))

\* LCD mode 2.
Oam(p) ==
  LET fromHblank == p.lcdm_cac = "hblank"
      lost == fromHblank /\ ~p.hbl_flop /\ "hbl" \in p.enables
      q == [p EXCEPT !.mode = "oam", !.hbl_clks_st = Late,
                     !.hbl_flop = IF fromHblank THEN FALSE ELSE @,
                     !.spi = IF fromHblank THEN {} ELSE @,
                     !.irq = IF lost THEN @ \cup {LCDC} ELSE @]
  IN  OamInterrupt(SearchTo(q, (ClkLine(p) * Scans) \div OamCycles))

\* LCD mode 3.  On its edge the search is finished and the length of the mode
\* is known; then the columns due are drawn.
OamVramEdge(p) ==
  LET q == OamInterrupt(SearchTo(p, Scans - 1))
      len == BgCycles + q.vscanR * SpriteCycles
  IN  [q EXCEPT !.oam_flop = FALSE, !.bg_len = len,
                !.hbl_clks_st = len + OamCycles]

OamVram(p) ==
  LET q == [p EXCEPT !.mode = "oamvram"]
      e == IF p.lcdm_cac # "oamvram" THEN OamVramEdge(q) ELSE q
      interv == ((ClkLine(p) - OamCycles) * Columns) \div e.bg_len
  IN  IF interv = e.uscan THEN e
      ELSE [BgwinRender(e, interv - e.uscan) EXCEPT !.uscan = interv]

\* One block of the H-blank DMA.
HdmaBlock(p) ==
  IF p.hdma_gen /\ p.hdma_r16 > 0
  THEN [p EXCEPT !.hdma_r16 = @ - 1, !.dma = @ + HdmaCycles, !.copied = p.LY]
  ELSE p

\* Mutant of HblankEdge: the columns that are missing are not caught up.
HblankEdgeNoCatchUp(p) ==
  HdmaBlock([p EXCEPT !.oam_flop = FALSE, !.vscan = -1, !.scanned = FALSE,
                      !.uscan = -1, !.vscanR = 0, !.uscanR = 0,
                      !.hbl_flop = TRUE])

\* LCD mode 0.  On its edge the rest of the line is drawn.  The edge sets
\* hbl_flop whether or not a block was copied, so the interrupt below the edge
\* is never requested.
HblankEdge(p) ==
  LET q == IF p.uscanR < Columns THEN BgwinRender(p, Columns - p.uscanR) ELSE p
  IN  HdmaBlock([q EXCEPT !.oam_flop = FALSE, !.vscan = -1, !.scanned = FALSE,
                          !.uscan = -1, !.vscanR = 0, !.uscanR = 0,
                          !.hbl_flop = TRUE])

\* Mutant of Hblank: every call in mode 0 is taken for the edge.
HblankNoEdge(p) ==
  LET e == HblankEdge([p EXCEPT !.mode = "hblank"])
  IN  IF "hbl" \in e.enables /\ ~e.hbl_flop
      THEN Request([e EXCEPT !.hbl_flop = TRUE], LCDC) ELSE e

Hblank(p) ==
  LET q == [p EXCEPT !.mode = "hblank"]
      e == IF p.lcdm_cac # "hblank" THEN HblankEdge(q) ELSE q
  IN  IF "hbl" \in e.enables /\ ~e.hbl_flop
      THEN Request([e EXCEPT !.hbl_flop = TRUE], LCDC) ELSE e

\* Mutant of Vblank: the edge is not tested.
VblankEveryCall(p) ==
  Request([p EXCEPT !.mode = "vblank", !.shown = @ + 1], VBLANK)

\* Mutant of Vblank: IRQ_1 is left to the STAT enable.
VblankStatOnly(p) ==
  LET q == [p EXCEPT !.mode = "vblank"]
  IN  IF p.lcdm_cac # "vblank" THEN [q EXCEPT !.shown = @ + 1] ELSE q

\* LCD mode 1: the frame goes to the host on the edge.
Vblank(p) ==
  LET q == [p EXCEPT !.mode = "vblank"]
  IN  IF p.lcdm_cac # "vblank"
      THEN Request([q EXCEPT !.shown = @ + 1], VBLANK) ELSE q

ModeStep(p) ==
  IF p.clk >= VisibleLines * LineCycles THEN Vblank(p)
  ELSE IF ClkLine(p) >= p.hbl_clks_st THEN Hblank(p)
  ELSE IF ClkLine(p) >= OamCycles THEN OamVram(p)
  ELSE Oam(p)

\* line_cac and lcdm_cac: what the next call takes for the state before.
Latch(p) == [p EXCEPT !.line_cac = p.LY, !.lcdm_cac = p.mode]

\* ppu_run after cpu_clks_ppu += clks.
PpuRun(p, clks) ==
  Latch(ModeStep(LineStep(FrameWrap([p EXCEPT !.clk = @ + clks], FrameCycles),
                          LineCycles)))

\* In double speed vbl_clk_st is negative (internal.h:115 subtracts the length
\* of V-blank from that of a line instead of a frame): every clock is in V-blank.
PpuRunFast(p, clks) ==
  Latch(Vblank(LineStep(FrameWrap([p EXCEPT !.clk = @ + clks], SpeedRatio * FrameCycles),
                        SpeedRatio * LineCycles)))

\* The clocks of the picture unit, rescaled to or from double speed.  The
\* history of the frame ends there.
Rescale(x, up) == IF up THEN x * SpeedRatio ELSE x \div SpeedRatio
Rescaled(p, up) ==
  [p EXCEPT !.clk = Rescale(@, up), !.bg_len = Rescale(@, up),
            !.hbl_clks_st = IF @ = Late THEN Late ELSE Rescale(@, up),
            !.painted = 0, !.shown = 0, !.copied = -1]

\* The search before the first place and the drawing before the first column;
\* the very first line of all starts at column 0, not -1.
Fresh(p) ==
  /\ p.vscan = -1 /\ p.vscanR = 0 /\ p.scanned = FALSE
  /\ p.uscanR = 0 /\ p.uscan \in {-1, 0}
=============================================================================
