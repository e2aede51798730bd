------------------------------ MODULE GameBoy ------------------------------
(***************************************************************************)
(* gameboy_run_ms (dmgdraft/core/gameboy.c): the run loop of the Game Boy  *)
(* core, with the interrupt controller, the divider, the timer, the        *)
(* picture unit, the H-blank DMA and the joypad.                           *)
(*                                                                         *)
(* One round of the loop is split where it calls internaldev_clks: an      *)
(* opcode writes a register and is followed by the clocks it took, these   *)
(* by the check for an interrupt, and an interrupt by three more calls.    *)
(* Time is counted in machine cycles of 4 clocks.                          *)
(*                                                                         *)
(* The program in the cartridge is arbitrary: any opcode may come next.    *)
(* The budget of milliseconds only interrupts the loop between two rounds  *)
(* and is left out.  cartridge_load always selects the DMG mode of the     *)
(* devices, but KEY1 can be written in it, and STOP switches the speed.    *)
(*                                                                         *)
(* late and switched are history: the opcodes run since an enabled         *)
(* interrupt could have been taken, and whether the speed was changed.     *)
(***************************************************************************)
EXTENDS Timer, Ppu

CONSTANTS
  OpClks,              \* what an opcode can take, in machine cycles
  JoypadFreq,          \* joypad_gen_freq
  TacSelects, ByteWrites, LycWrites, StatWrites, EnableWrites, P1Writes,
  HdmaBlocks, Key1Writes,
                       \* the values the program writes
  MaxWrites            \* bound: the register writes of the program

ASSUME GameBoyAssumption ==
  /\ OpClks \subseteq Nat \ {0}
  /\ JoypadFreq \in Nat \ {0}
  /\ TacSelects \subseteq DOMAIN TimerFreq
  /\ ByteWrites \subseteq Bytes
  /\ LycWrites \subseteq Nat
  /\ StatWrites \subseteq SUBSET StatBits
  /\ EnableWrites \subseteq SUBSET (1 .. 5)
  /\ P1Writes \subseteq SUBSET {"direction", "action"}
  /\ HdmaBlocks \subseteq Nat \ {0}
  /\ Key1Writes \subseteq SUBSET {"prepare", "double"}
  /\ MaxWrites \in Nat

\* No call of the devices is long enough to skip a mode of the picture unit: an
\* opcode takes 24 clocks at most, two wait states 8; a search of the OAM has
\* 81, the drawing of a line without sprites 173, and what is left of the 456
\* of a line, with ten sprites on it, 76 (internal.h:76-88).
ASSUME ShortAssumption ==
  \A k \in OpClks \cup {1, 2} :
    /\ k <= OamCycles /\ k <= BgCycles
    /\ OamCycles + BgCycles + Scans * SpriteCycles + k <= LineCycles

VARIABLES
  stage,               \* where in a round of the loop
  opclks,              \* what the opcode took
  irq,                 \* imask: the interrupt that is being taken
  IF_, IE, IME,        \* reg0F_IF, regFF_IE as sets of interrupts
  halt, stop, backup,  \* backup: _backup is -1, the next opcode is read twice
  cpu_clks_dma,
  cpu_clks_joypad, P1, \* P1: the key groups that are selected
  key1,                \* reg4D_key1: bit 0 (prepare), bit 7 (double)
  fadjust,             \* the opcode was a STOP that changes the speed
  fast,                \* mach_tools is adv_machine
  writes,              \* bound
  late, switched       \* history

cpuVars == <<stage, opclks, irq, IF_, IE, IME, halt, stop, backup>>
joyVars == <<cpu_clks_joypad, P1>>
speedVars == <<key1, fadjust, fast, switched>>
vars == <<dividerVars, timerVars, ppu, cpuVars, cpu_clks_dma, joyVars, speedVars,
          writes, late>>

\* IRQ_1 .. IRQ_5; IRQ_4 (serial) is never requested.
Irqs == 1 .. 5
TIMER == 3
JOYPAD == 5
KeyGroups == {"direction", "action"}
Stages == {"loop", "tick", "check", "wait", "push", "vector", "adjust",
           "gdma", "midline"}

\* gameboy_init and cpu_reset.
Init ==
  /\ TimerInit
  /\ ppu = PowerOn
  /\ stage = "loop" /\ opclks = 0 /\ irq = 0
  /\ IF_ = {} /\ IE = {} /\ IME = FALSE
  /\ halt = FALSE /\ stop = FALSE /\ backup = FALSE
  /\ cpu_clks_dma = 0
  /\ cpu_clks_joypad = 0 /\ P1 = KeyGroups
  /\ key1 = {} /\ fadjust = FALSE /\ fast = FALSE /\ switched = FALSE
  /\ writes = 0
  /\ late = 0

Pending == IF_ \cap IE

(***************************************************************************)
(* internaldev_clks                                                        *)
(***************************************************************************)

\* controller_update_hostdrv polls the host once a period (joypad_gen_freq).
JoypadPeriod == IF fast THEN SpeedRatio * JoypadFreq ELSE JoypadFreq
JoypadPolls(clks) == cpu_clks_joypad + clks > JoypadPeriod

JoypadClks(clks) ==
  /\ cpu_clks_joypad' = IF JoypadPolls(clks)
                        THEN cpu_clks_joypad + clks - JoypadPeriod
                        ELSE cpu_clks_joypad + clks
  /\ UNCHANGED P1

\* Whether the poll ends STOP and requests IRQ_5: the user may be pressing a key
\* of a selected group.  A key does nothing to a CPU that is not in STOP.
MayResume(clks) == {FALSE, stop /\ JoypadPolls(clks) /\ P1 # {}}
Joypad(resumes) == IF resumes THEN {JOYPAD} ELSE {}

\* The devices in their order.  The requests they make are added to iflags,
\* the clocks of an H-blank copy to dma.
Devices(clks, iflags, dma) ==
  \E resumes \in MayResume(clks) :
    LET p == IF fast THEN PpuRunFast(ppu, clks) ELSE PpuRun(ppu, clks)
        overflow == IF TimerOverflows(clks) THEN {TIMER} ELSE {}
    IN  /\ DividerUpdate(clks)
        /\ ppu' = [p EXCEPT !.irq = {}, !.dma = 0]
        /\ TimerUpdate(clks)
        /\ JoypadClks(clks)
        /\ stop' = (stop /\ ~resumes)
        /\ cpu_clks_dma' = dma + p.dma
        /\ IF_' = iflags \cup p.irq \cup overflow \cup Joypad(resumes)

(***************************************************************************)
(* A round of the loop                                                     *)
(***************************************************************************)

\* A DMA is active: the CPU stands still for a machine cycle.
DmaCycle ==
  /\ stage = "loop"
  /\ cpu_clks_dma > 0
  /\ Devices(1, IF_, cpu_clks_dma - 1)
  /\ UNCHANGED <<stage, opclks, irq, IE, IME, halt, backup, speedVars, writes, late>>

Free ==
  /\ stage = "loop"
  /\ cpu_clks_dma <= 0

\* The last block is through: hdma_gen is cleared on the way to what follows.
HdmaOver == ppu.hdma_gen /\ ppu.hdma_r16 = 0
HdmaDone == [ppu EXCEPT !.hdma_gen = @ /\ ~HdmaOver]

\* STOP: only the joypad has a clock.
StopCycle ==
  /\ Free
  /\ stop
  /\ JoypadClks(1)
  /\ \E resumes \in MayResume(1) : /\ stop' = ~resumes
                                   /\ IF_' = IF_ \cup Joypad(resumes)
  /\ ppu' = HdmaDone
  /\ UNCHANGED <<dividerVars, timerVars, stage, opclks, irq, IE, IME, halt,
                 backup, cpu_clks_dma, speedVars, writes, late>>

\* HALT: the devices run on until one makes an enabled request.
HaltCycle ==
  /\ Free
  /\ ~stop /\ halt
  /\ Devices(1, IF_, cpu_clks_dma)
  /\ halt' = (IF_' \cap IE = {})
  /\ backup' = (backup \/ (~halt' /\ ~IME))
  /\ stage' = "check"
  /\ UNCHANGED <<opclks, irq, IE, IME, speedVars, writes, late>>

(***************************************************************************)
(* cpu_optick: what an opcode leaves behind for the loop.                  *)
(***************************************************************************)

\* Every opcode returns its clocks and clears _backup.
Opcode(clks) ==
  /\ Free
  /\ ~stop /\ ~halt
  /\ stage' = "tick"
  /\ opclks' = clks
  /\ backup' = FALSE
  /\ late' = IF IME /\ Pending # {} THEN late + 1 ELSE 0
  /\ UNCHANGED <<irq, cpu_clks_dma, cpu_clks_joypad, fast, switched>>

NoWrite ==
  UNCHANGED <<dividerVars, timerVars, IF_, IE, P1, writes>> /\ ppu' = HdmaDone
OneSpeed == fadjust' = FALSE /\ UNCHANGED key1

Plain(clks) == Opcode(clks) /\ NoWrite /\ OneSpeed /\ UNCHANGED <<IME, halt, stop>>

\* EI and RETI set IME at once.  RETI is long; its clocks are scaled too.
SetIME(on) == NoWrite /\ OneSpeed /\ IME' = on /\ UNCHANGED <<halt, stop>>
EI == Opcode(1) /\ SetIME(TRUE)
RETI(clks) == Opcode(clks) /\ SetIME(TRUE)
DI == Opcode(1) /\ SetIME(FALSE)
HALT == Opcode(1) /\ NoWrite /\ OneSpeed /\ halt' = TRUE /\ UNCHANGED <<IME, stop>>

\* STOP stops the CPU, or changes the speed when KEY1 is prepared: bit 7 is
\* toggled, bit 0 cleared, and bit 31 of the clocks tells the loop.
STOP ==
  /\ Opcode(1)
  /\ NoWrite
  /\ IF "prepare" \in key1
     THEN /\ key1' = IF "double" \in key1 THEN {} ELSE {"double"}
          /\ fadjust' = TRUE
          /\ UNCHANGED stop
     ELSE /\ stop' = TRUE
          /\ OneSpeed
  /\ UNCHANGED <<IME, halt>>

(***************************************************************************)
(* Opcodes that write a register: gameboy_mmu_write.  The low bits of STAT *)
(* are overwritten too, and are recomputed before anything reads them.     *)
(***************************************************************************)

Store ==
  /\ writes < MaxWrites
  /\ writes' = writes + 1
  /\ \E k \in OpClks : Opcode(k)
  /\ fadjust' = FALSE
  /\ UNCHANGED <<IME, halt, stop>>

StoreDivider ==
  /\ Store
  /\ \E v \in ByteWrites : WriteDIV(v)
  /\ ppu' = HdmaDone
  /\ UNCHANGED <<timerVars, IF_, IE, P1, key1>>

StoreTimer ==
  /\ Store
  /\ \/ \E v \in ByteWrites : WriteTIMA(v) \/ WriteTMA(v)
     \/ \E on \in BOOLEAN, sel \in TacSelects : WriteTAC(on, sel)
  /\ ppu' = HdmaDone
  /\ UNCHANGED <<dividerVars, IF_, IE, P1, key1>>

StoreIF ==
  /\ Store
  /\ \E s \in EnableWrites : IF_' = s
  /\ ppu' = HdmaDone
  /\ UNCHANGED <<dividerVars, timerVars, IE, P1, key1>>

StoreIE ==
  /\ Store
  /\ \E s \in EnableWrites : IE' = s
  /\ ppu' = HdmaDone
  /\ UNCHANGED <<dividerVars, timerVars, IF_, P1, key1>>

StoreP1 ==
  /\ Store
  /\ \E s \in P1Writes : P1' = s
  /\ ppu' = HdmaDone
  /\ UNCHANGED <<dividerVars, timerVars, IF_, IE, key1>>

\* KEY1: gameboy_mmu_write stores the whole byte, bit 7 too, in either mode.
StoreKey1 ==
  /\ Store
  /\ \E s \in Key1Writes : key1' = s
  /\ ppu' = HdmaDone
  /\ UNCHANGED <<dividerVars, timerVars, IF_, IE, P1>>

\* ppu_write: LYC, STAT, and HDMA5 with bit 7 set.
StorePpu ==
  /\ Store
  /\ \/ \E v \in LycWrites : ppu' = [HdmaDone EXCEPT !.LYC = v]
     \/ \E s \in StatWrites : ppu' = [HdmaDone EXCEPT !.enables = s]
     \/ \E n \in HdmaBlocks : ppu' = [HdmaDone EXCEPT !.hdma_r16 = n, !.hdma_gen = TRUE]
  /\ UNCHANGED <<dividerVars, timerVars, IF_, IE, P1, key1>>

\* HDMA5 with bit 7 clear: "for (; id = K; id++)" assigns, so the copy of a
\* general DMA never ends.
StoreGdma ==
  /\ Free
  /\ ~stop /\ ~halt
  /\ writes < MaxWrites
  /\ writes' = writes + 1
  /\ stage' = "gdma"
  /\ ppu' = HdmaDone
  /\ UNCHANGED <<dividerVars, timerVars, opclks, irq, IF_, IE, IME, halt, stop,
                 backup, cpu_clks_dma, joyVars, speedVars, late>>

GdmaForever == stage = "gdma" /\ UNCHANGED vars

(***************************************************************************)
(* The clocks of the opcode, the check for an interrupt, its three steps.  *)
(***************************************************************************)

Tick ==
  /\ stage = "tick"
  /\ Devices(opclks, IF_, cpu_clks_dma)
  /\ stage' = "check"
  /\ opclks' = 0
  /\ UNCHANGED <<irq, IE, IME, halt, backup, speedVars, writes, late>>

\* Where the round goes on after the interrupt.
Resumed == IF fadjust THEN "adjust" ELSE "loop"

\* Mutant of CheckInterrupt: only the first enabled interrupt is looked at.
CheckFirstEnabled ==
  /\ stage = "check"
  /\ IF IME /\ IE # {} /\ Min(IE) \in IF_
     THEN /\ irq' = Min(IE)
          /\ halt' = FALSE
          /\ stage' = "wait"
     ELSE /\ stage' = Resumed
          /\ UNCHANGED <<irq, halt>>
  /\ late' = IF IME /\ Pending # {} THEN late ELSE 0
  /\ UNCHANGED <<dividerVars, timerVars, ppu, opclks, IF_, IE, IME, stop, backup,
                 cpu_clks_dma, joyVars, speedVars, writes>>

CheckInterrupt ==
  /\ stage = "check"
  /\ IF IME /\ Pending # {}
     THEN /\ irq' = Min(Pending)
          /\ halt' = FALSE
          /\ stage' = "wait"
     ELSE /\ stage' = Resumed
          /\ UNCHANGED <<irq, halt>>
  /\ late' = IF IME /\ Pending # {} THEN late ELSE 0
  /\ UNCHANGED <<dividerVars, timerVars, ppu, opclks, IF_, IE, IME, stop, backup,
                 cpu_clks_dma, joyVars, speedVars, writes>>

WaitStates ==
  /\ stage = "wait"
  /\ Devices(2, IF_, cpu_clks_dma)
  /\ stage' = "push"
  /\ UNCHANGED <<opclks, irq, IE, IME, halt, backup, speedVars, writes, late>>

\* The stack is in RAM.
PushPC ==
  /\ stage = "push"
  /\ IME' = FALSE
  /\ Devices(2, IF_ \ {irq}, cpu_clks_dma)
  /\ stage' = "vector"
  /\ UNCHANGED <<opclks, irq, IE, halt, backup, speedVars, writes, late>>

Vector ==
  /\ stage = "vector"
  /\ Devices(1, IF_, cpu_clks_dma)
  /\ stage' = Resumed
  /\ irq' = 0
  /\ late' = 0
  /\ UNCHANGED <<opclks, IE, IME, halt, backup, speedVars, writes>>

\* The change of speed: to the one bit 7 names, whichever is running.  A line
\* that the picture unit had begun cannot be followed: it goes on at another
\* place with the counters of this one, and "while (--_nums)" starts from a
\* negative number when it finds itself before the columns already drawn.
Adjust ==
  LET up == "double" \in key1
  IN  /\ stage = "adjust"
      /\ ppu' = Rescaled(ppu, up)
      /\ fast' = up
      /\ stage' = IF up \/ Fresh(ppu) THEN "loop" ELSE "midline"
      /\ fadjust' = FALSE
      /\ switched' = TRUE
      /\ UNCHANGED <<dividerVars, timerVars, opclks, irq, IF_, IE, IME, halt, stop,
                     backup, cpu_clks_dma, joyVars, key1, writes, late>>

\* Bound: what follows is not modelled.
MidLine == stage = "midline" /\ UNCHANGED vars

Next ==
  \/ DmaCycle \/ StopCycle \/ HaltCycle
  \/ \E k \in OpClks : Plain(k) \/ RETI(k)
  \/ EI \/ DI \/ HALT \/ STOP
  \/ StoreDivider \/ StoreTimer \/ StoreIF \/ StoreIE \/ StoreP1 \/ StoreKey1
  \/ StorePpu \/ StoreGdma \/ GdmaForever
  \/ Tick \/ CheckInterrupt \/ WaitStates \/ PushPC \/ Vector
  \/ Adjust \/ MidLine

Spec == Init /\ [][Next]_vars

\* gameboy_run_ms is called again and again by the host: the loop goes on for
\* ever unless it hangs in a general DMA or leaves what is modelled.  This is
\* WF_vars(Next), as some step is enabled in every state.
FairSpec == Spec /\ ([]<>(stage \in {"gdma", "midline"}) \/ []<><<TRUE>>_vars)

(***************************************************************************)
(* Properties.  Those of the picture unit hold until the program changes   *)
(* the speed for the first time: in double speed there is no line and no   *)
(* V-blank any more (PpuRunFast), and a change back moves the clock to     *)
(* another line.                                                           *)
(***************************************************************************)

\* However the clocks of the opcodes, the waits of an interrupt and the pauses
\* of a DMA cut a line up, all its columns have been drawn, each once, when
\* its H-blank is entered: the incremental drawing of ppu_run and the catch-up
\* on the edge add up.
LineComplete ==
  ~switched /\ ppu.mode = "hblank" /\ ppu.clk > 0 => ppu.painted = Columns

\* While the columns of a line are drawn, the search has found every sprite of
\* the line (no more than Scans), and the cache holds no other line's pixels.
\* Line 0 is the exception the code makes: the cache is cleared on the way
\* from H-blank only.
SpriteCacheFresh ==
  ~switched /\ ppu.mode = "oamvram" =>
    /\ ppu.vscanR = Min({SpritesOn[ppu.LY], Scans})
    /\ ppu.LY # 0 => ppu.spi \subseteq {ppu.LY}

\* A frame is handed to the host once, on entering V-blank, whatever happens
\* to the CPU in it.
FrameOnce == switched \/ ppu.shown = (IF ppu.mode = "vblank" THEN 1 ELSE 0)

\* Neither the divider nor the timer is ever behind by a period once the
\* devices have been called, though their clocks are folded back and the
\* program may switch the timer on and off, change its frequency, restart its
\* period by any write, and change the speed.
TimersOnTime ==
  stage \notin {"tick", "gdma"} =>
    /\ cpu_clks_divider <= DividerFreq
    /\ tac_on => TimerElapsed \in 0 .. TimerFreq[tac_sel]

\* With IME set, at most one opcode runs after an enabled request before the
\* interrupt is taken: the opcode after a DMA pause or a STOP, which end
\* without a check.  It is taken also where the joypad ends the STOP before
\* the CPU stood still, and between a STOP and the change of speed.
InterruptPrompt == late <= 1

\* The H-blank DMA stops the CPU for one block per line, though the pause it
\* causes calls ppu_run again and again in the same H-blank.
HdmaOncePerLine ==
  [][~switched' /\ cpu_clks_dma' > cpu_clks_dma =>
       ppu'.copied = ppu'.LY /\ ppu.copied # ppu'.LY]_vars

\* A CPU in HALT that enabled the V-blank interrupt wakes up, with IME set or
\* not: frames go on without it.
HaltWakes == (halt /\ VBLANK \in IE /\ ~switched) ~> ~halt

=============================================================================
