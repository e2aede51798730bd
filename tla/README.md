# misc_opt: models, checks and proofs

`misc_opt` is a collection of C, C++ and assembler programs for Win32. This
directory holds TLA+ models of the parts in which threads meet, or in which a long
sequence of legal calls decides whether the code is right, the TLC runs that
check them, and theorems that TLAPS checks for every value of the constants.

## 1. Inventory

Paths are under `src/`; `midi_piano/` is the second generation of the program,
`dmgdraft/core/` the Game Boy emulator, `Mighty Final Fight/` a game.

| Part | Source | State | Operations | What is hard | Modelled |
|---|---|---|---|---|---|
| Key message queue | `midi_piano/CLockLessDIKMsgQueue.hxx`, `cas32.asm` | header `{level, aba_count}`, nodes, two free lists behind a spinlock | `push_msg`, `pop_msg`, `ClearQueue` | every shared access interleaves: ABA, lost nodes, reuse of a node while it is read | `DikQueue` implements `MsgQueue` |
| Player thread handshake | `midi_piano/CPlayerThread.hxx` | `m_recv_event`, `m_cur_event`, three auto-reset events, `m_HadSuspend` | `SetPlay` … `terminate`, `suspend`, `resume_`, `PlayerProc` | a request read after the next one was written, an answer taken for another's, everyone waiting | `PlayerThread` |
| midi_piano program | `CMainFrame.hxx`, `CViewPlayRecordSettings.inl`, `CMessageIdleFastLoop.hxx` | panel flags and enabled controls, `m_AttachEps`, menu check | button, menu and slider handlers, two idle handlers | two threads share the queue, a pointer and the .eps buffers with nothing but the handshake between them | `MidiPiano`, on `PlayerThread` |
| Keyboard input | `CDirectInput.hxx`, `ProcessKey` of `CPlayerThread.hxx` | device buffer, octave, offset, what sounds | polling, reset of the device, `ProcessKey`, the offset box | a release names the note of its own moment, not that of its press; the device drops what does not fit | `Keyboard` |
| .eps recordings | `CFile_eps.hxx` | chunk buffer, capacity, cursor, times | `AppendChunk`, `ReadChunk`, `WriteEPS`, `ReadEPS`, `ResetRecord`, `ResetPlay`, `SetPos` | capacity, 16-bit gaps, a wrapping clock, a seek at the ends and beside the player | `EpsFile` |
| Effect panels | `CViewDS_Effects*.inl` | nine DSFX structures, check boxes | sliders, combos, enabling | which field a control writes, and with which extent | `EffectPanels`, `Effects` |
| Music and instruments | `CDirectMusic2.hxx`, `CViewIoInstructments.inl` | effect chain, interfaces into it, port, DLS collection and instrument | `SetEffectEnable`, `SetEffectDesc`, `AdjustCollectionIndex`, `AdjustInstructmentsIndex`, `ClearNoise` | one port stopped and started by two threads; interfaces into a replaced chain; a list used under a message box | `Effects`, `Instruments`, composed in `Music` |
| Futex | `futex.c`, `futex.h` | `sig`, `own`, `recur`, an auto-reset event | `futex_lock`, `futex_unlock`, `futex_destroy` | lost or doubled wake-ups, a counter that only grows | `Futex` (not `futex_destroy`) |
| Game Boy core | `gameboy.c`, `timer.c`, `divider.c`, `ppu.c`, `controller.c` | CPU clock, timer, divider, picture unit, interrupt registers, speed | the run loop, device calls, interrupts, H-blank DMA, STOP and the change of speed | devices catch up lazily with the clocks of opcodes, waits and DMA pauses; a device raises an interrupt while another is entered | `Timer`, `Ppu`, composed in `GameBoy` |
| Game Boy CPU | `cpu_optick2.asm`, `cpu.c` | registers, flags, HALT | one routine per opcode of two tables | flags worked out from bits of sums; decimal adjust after each of four operations | `Lr35902` |
| Game Boy disassembler | `disassembler.c` | marks, lines, cursor | `getaddrmark`, `bankdis`, `bankout` | a table of lengths written by hand beside the CPU; relative branches computed in two places | `Disassembler`, run against `Lr35902` |
| Game Boy cartridge, sound | `mbc0.c`, `mbc1.c`, `cartridge.c` | bank numbers | memory handlers | address arithmetic; the sound unit is a stub | no (section 7) |
| Mighty Final Fight | `fsm.cody.c`, `frame.queue.c` | buttons and locks, frame queue, state machine, height, sound | per-frame decode and show | a queue of descriptors replaced under way; a jump that must end where it began | `Cody` |
| 8Bit_Host and remind726 | `8Bit_Host/` | DirectX objects, emulated NES video | wrappers; `joypad_poll` | failure paths of an API | only `joypad_poll`, in `Cody` |
| Timing, splash window, drawing | `CThreadTiming.hxx`, `CLoadingWindow.hxx`, `CPiano*.hxx`, … | clock base; a thread and its events; pixels | delay; start and stop; paint | little that outlives a call | no (section 7) |
| Tools and headers | `z80/`, `th08_keyedit*`, `tile_editors`, `eztry`, `nes_dc.win32.c` | dialogs, DirectX objects | single-threaded tools, wrappers, macros without a run loop | I/O | no |
| Pixel routines | `graphics.cxx`, `simd/`, `alpha.asm`, … | pixels | blend, zoom, copy | arithmetic on data | no |

How the parts interact in midi_piano: the **window thread** runs one message or
idle handler at a time (`CMessageIdleFastLoop::Run`). A handler that wants the
**player thread** to change its mode writes `m_recv_event`, sets one auto-reset
event and waits for another. The player polls the first with a zero timeout
between two rounds of work, and answers. Its work polls the **keyboard**, sends
notes to the **output port**, pushes key messages to the **queue**, which the idle
handlers pop, and reads or fills the **.eps object** that `m_AttachEps` points to,
which the handlers switch. The queue is lock-free for push and pop, but
`ClearQueue` is a plain walk with `free()`: the program is right only if the
handshake keeps it away from `pop_msg`. The port is stopped and started by the
window thread (effects, instruments, offset) and by the player (`ClearNoise`),
with nothing between them.

In the Game Boy core the **run loop** calls the CPU for one opcode, adds its
clocks to those of **divider, timer and picture unit**, calls each, and then looks
for an interrupt; entering one takes clocks and calls the devices again, and an
H-blank DMA does so from inside the picture unit. The **disassembler** is a
separate tool that must agree with the CPU about lengths and targets. In Mighty
Final Fight one loop runs per frame: buttons in, descriptors into the **frame
queue**, the one in front acts.

The properties that make each part correct:

- queue: each node is in one place, a detached list is intact, the free list
  agrees with its counters, what is pushed is popped once and in order;
- handshake: a returned call has been served, requests are not overwritten, both
  sides never wait for each other;
- program: `ClearQueue` and `pop_msg` exclude each other, messages are decoded as
  the kind they are, the panel tells what the player does;
- keyboard: when the keys are up, nothing sounds;
- recordings: what is played is what was recorded, when it was recorded; a seek
  puts clock and music together;
- music: boxes, flags, interfaces and chain agree; an effect sounds as its panel
  says; the port plays in the end; the lists show what is loaded;
- futex: mutual exclusion, one token, recursion counted, progress;
- Game Boy core: every line drawn whole and every frame shown once, the timers
  never behind, an enabled interrupt taken at once, HALT left;
- CPU and disassembler: the CPU goes where the listing says, decimal results;
- fighter: a jump comes back to the ground, a sound stops, a punch strikes once,
  and what was pressed runs out.

`PROJECT.json` lists the hazards at their lines, each with its properties, or
with the reason why none covers it.

## 2. Modules

| Module | Models | Built on |
|---|---|---|
| `MsgQueue` | what the queue promises: put, take everything, hand over the newest `Cap` in order, clear | abstract specification |
| `DikQueue` | the queue, one action per shared access | refines `MsgQueue` |
| `PlayerThread` | the calls of `CPlayerThread` and `PlayerProc`, each `SetEvent` and each wait a step | |
| `MidiPiano` | the handlers of the window thread, the work of the player, queue and buffers | EXTENDS `PlayerThread` |
| `Keyboard` | from the keys to the notes that sound | |
| `EpsFile` | `CFile_eps` with the player's round and clock, and the drags of the slider | |
| `EffectPanels`, `Effects` | the nine panels; the chain and the port with its two users | |
| `Instruments` | the two lists of `CViewIoInstructments` and what is loaded | |
| `Music` | all of `CDirectMusic2` | EXTENDS `Effects`, `Instruments` |
| `Futex` | `futex_init`, `futex_lock`, `futex_unlock`, one action per shared access | |
| `Timer`, `Ppu` | the devices, as operators on their registers | |
| `GameBoy` | the run loop with the devices, interrupts, DMA and joypad | EXTENDS `Timer`, `Ppu` |
| `Lr35902` | `cpu_optick`, every opcode | |
| `Disassembler` | the listing, then a run of the same cartridge | EXTENDS `Lr35902` |
| `Cody` | `mr10_loop`: joypad, decoder, frame queue, fighter | |
| `MC…` | instances for TLC (`MCDikQueue`, `MCMidiPiano`, `MCKeyboard`, `MCMusic`, `MCGameBoy`, `MCDisassembler`) | |
| `…Proofs` | theorems (section 6) | |

How state and actions correspond to the code:

**DikQueue.** Node addresses are the set `Nodes`; `next` and `dikMsg` are the
fields of every node, `heap` the addresses `malloc` may still return. A thread's
position is `pc[t]`, its locals `kt`, `pv`, `msg`, `T` (the loaded header), `out`
(`pdr`). Thread-local code runs with the shared access before it. `PushLoadAba`,
`PushLoadLevel` and `PushCas` are separate, as are the steps of the free list
under the spinlock; a CAS (`casdp3` of `cas32.asm`) compares both words. A
message is the sequence of the arrival numbers of its events, so order, loss and
duplication are visible. `linked` and `rest` are history: the list that the
pointers should spell. `Serialised` says whether callers keep `ClearQueue` apart.
Every definition of a spinning thread is its successful exchange: a failed one
writes 1 over 1. The constructor's 64 nodes are `Prealloc`.

**PlayerThread.** An auto-reset event is a Boolean. `m_recv_event` starts
arbitrary, as the class does not set it. `wanted` and `resumed` are history. The
one caller of `suspend`, `OnSlider`, calls `resume_` next, so no other call starts
in between.

**MidiPiano.** A handler is split where it waits: `OnPlayEps` is the part up to
the call, `HandlerReturn` with `PanelAfter` the part after it. `pop_msg` is two
steps (detach, drain), because that is where a clear would hurt; `pop` says where
the window thread is in it, which for the handshake is outside every call. The
queue is
the set of the kinds of its messages: order and number are in `DikQueue`. A
buffer is its cursor and its chunk count: contents are in `EpsFile`. `m_readmax`
starts arbitrary, as only `ReadEPS` sets it, and `OnLoadEps` has the branch in
which `ReadEPS` fails. Drawing, list views, `OnSaveEps` (reads a buffer the player
does not use) and the note callback (never set) are left out.

**Keyboard.** The device is external: while acquired it buffers what happens to
the keys and drops what does not fit; it loses the buffer with the focus in the
foreground level and with `resetPlayType`. The player takes the device's
buffer `didod` over into `buf` and handles one event per step, working out the note and sending it in
two steps, since the window thread may set the offset or clear the port between
them. The requests of the handshake, served between two rounds, are one action.
`adrift` is history: a release was not delivered, the octave changed under a
sounding note, or an offset was entered while a note was on its way. Playback
modes send no key events and are not in it.

**EpsFile.** A chunk is its gap: note and velocity ride along. `block` is what
`malloc` and `realloc` were asked for in bytes, `m_cap_size` what the object
believes in chunks, and `spoilt` is history: a chunk was stored outside its block.
The file is what `WriteEPS` wrote; it writes `sizeof (sizeof (eps_chunk))` bytes
per chunk, which is 4, the size of a chunk, on the 32-bit target of the project
files (on a 64-bit one it would be 8).
A round of `do_play_eps` is `ReadChunk`, the delay and `m_CurTiming +=`; the next
chunk of a round without a delay follows at once (`turn`). A drag of the slider is
two steps of the window thread, its store to the cursor (`SetPos`) and its store to
the clock (`SetTiming`). In the first drag the player is parked between two rounds
(`Parked`). The completion its `resume_` leaves behind lets `suspend` of every later
drag return with the player at work: the two stores then fall anywhere between its
steps, or are overwritten by a `ReadChunk` or a `+=` that had already read the old
value. The model keeps to the optimised build, in which `ReadChunk` holds the cursor
in a register; a debug build reads `m_cur_ptr` again after its increment and, with
the store of a drag to the first chunk in between, would use chunk -1.

**Effects, Instruments, Music.** Each handler of the window thread is an action,
except that `SetEffectEnable` and `ClearNoise` are split at the calls on the port:
`Activate (FALSE)`, `SetFX`, `Activate (TRUE)`. The player thread runs its
`ClearNoise` after it has answered `resume_`, beside the next handler. A field of a
DSFX structure has the extent and the default of DirectSound; only two extents that
meet in one field are kept as numbers, and what a new panel and a new effect have in
them (the flanger's panel says 50 for the feedback, a new flanger has -50). `boxes`
is the stack of message boxes that `OnSelDLSCollect` shows without an owner window,
under which the other handlers run.

**Futex.** A thread's identity is the address of its thread-local variable. `sig`
is unsigned modulo `2 * Msb`. `depth` and `wrapped` are history.

**Timer, Ppu, GameBoy.** One round of `gameboy_run_ms` is split where it calls
`internaldev_clks`: opcode, clocks, check for an interrupt, three more device calls
on the way in, clocks of HALT, pause of a DMA. A catch-up loop of a device is its
result (rounds made, clocks left). Time is scaled to machine cycles and the periods
to a few of them; the constants of `struct machine_setup` are never multiples of a
cycle, so a value stands for one just below it. The program in the cartridge is
arbitrary: any opcode may come next, of any length in `OpClks`. `late` is history:
opcodes run since an enabled interrupt could have been taken. Every write of a timer
register restarts its period (`RestartPeriod`, as `conf.h` defines
`TIMER_RESET_IN_RESET_FREQ_MOD_`). The clock of a timer that is off is never folded
back; it is counted up to `IdleClocks` only, since what is read of it is its
distance to the timestamp, and the write that switches the timer on makes that 0.
The joypad ends a STOP, and requests IRQ_5, wherever its poll finds `stop` set: in
the cycles of the STOP itself, but also in the device calls after the STOP opcode
and during an interrupt taken there (`MayResume`). STOP with bit 0 of KEY1 set
changes the speed instead: bit 31 of its clocks (`fadjust`) leads to `Adjust` at the
end of the round, which scales the clocks of the picture unit and changes the table
of constants. With `adv_machine` `ppu_run` is in V-blank always (`PpuRunFast`;
section 4). `switched` is history. A change back in the middle of a line leaves
`ppu_run` with a negative number of columns to draw; what follows is not modelled
(`MidLine`).

**Lr35902, Disassembler.** A machine is a record of registers, flags, what was
written to memory and the clocks of the last opcode; `Optick` is one call of
`cpu_optick`. Memory behind the cartridge is plain memory, `KEY1` included; `int 3`
in an empty slot of the table is a trap that ends the run. `dec` is history: what
A and carry should be after a DAA. `and`, `xor` and `or` are written out bit by bit
(`ByteOf`), so that they can be reasoned about. A bank has `BankSize` bytes for 0x4000;
`getaddrmark` and `bankdis` are one action per iteration; a read behind the file
faults or yields a byte of `PastFile`. A printed line is address, opcode and
operand. When the listing is out the CPU runs the same cartridge.

**Cody.** `mr10_loop` is two steps, decode and show. The joypad is the set of
pressed buttons and the locks of contradictory pairs, whose first values are
arbitrary. The frame queue is a sequence. `elapsed` is `sys_ticks - poll_time`, one
per frame. `struck` is history.

Definitions marked "Mutant of …" are not part of any specification: each is a
plausible bug put in the place of the definition it precedes or follows, to see
that the property named for it in `PROJECT.json` notices.

## 3. Runs

| Run | Instance | Shows |
|---|---|---|
| `dik_mpmc` | 2 producers, 2 consumers, 4 nodes, 3 events, cap 2 | `FreeListCounted`, `NodeOwnedOnce`, `ListIntact` under every interleaving |
| `dik_refine` | 1 producer that also clears (apart), 1 consumer, 4 events, one per node | `NoUseAfterFree` of the nodes that `ClearQueue` gives back, `ImplementsMsgQueue` (refinement) and `QueueDrained` |
| `dik_block_order` | up to 3 events per node | **violation** of `InArrivalOrder` |
| `piano` | every call, one chunk per buffer | `HandshakeExact`, `NoRequestOverwritten`, `CallsReturn`, `ClearExcludesPop`, `PopKindsMatch`, `RightBuffer` up to the first `resume_`; `WindowAgrees` |
| `piano_slider` | the same | **violation** of `ClearApart` after a `resume_` |
| `keyboard` | one piano key, one octave key, a device buffer of 2, offsets 0 and 12 | `SilentWhenLetGo`, `FallsSilent` |
| `eps_play` | up to 3 events, gaps 0 to 2, first block of 2 chunks, clock of 9 values, 3 gap values, slider positions 3 apart, any number of drags | `PlaysAsRecorded` until the first drag, `SeekLands`; until a chunk lies outside its block |
| `music` | two effects with some moves of their sliders, one DLS file, lists of 3, 2 message boxes | `ChainExact`, `SoundsAsPanel`, `PortEndsActive`, `DlsShown` |
| `futex` | 3 threads, nesting 2, `Msb` 8 | `MutualExclusion`, `OneToken`, `RecurCounts`, `LockPasses` until `sig` ends |
| `gameboy` | a frame of 3 lines, periods of 1 to 10 cycles, two register writes | `LineComplete`, `SpriteCacheFresh`, `FrameOnce`, `TimersOnTime`, `InterruptPrompt`, `HdmaOncePerLine`, `HaltWakes` |
| `disasm` | two banks of 5 bytes: all banks over 7 bytes, every opcode alone, after the prefix and after HALT; ADD, ADC, SUB and SBC of decimal bytes (100 by 10) | `LabelsTrue`, `FollowsListing`, `DecimalExact` |
| `cody` | all six buttons in every frame | `Airborne`, `HookSound`, `StrikesOnce`, `ComesToRest` |

### Bounds

- `DikQueue`: `Nodes` has more elements than can be in use, so `malloc` does not
  fail; `Prealloc` 1 makes both paths of `_malloc_node` and of `_free_node` happen;
  `MaxEvents` above `Cap` makes a pop drop the oldest events. Two threads of each
  kind suffice for a CAS to lose against a push, a pop, or a pop and a push that
  reuse its node (ABA): the third thread is the one that recycles it. Nodes and
  producers are interchangeable (symmetry) in the run without a temporal property.
- `MidiPiano`: `MaxChunks` 1 has empty and non-empty files; the cursor stops one
  past the end (`DoPlayEpsEnd`), as no property tells positions past it apart.
- `Keyboard`: a buffer of two events can hold a press and its release, and can
  overflow; two octaves and two offsets make a note differ at press and release,
  and one key and octave can name the note of another offset.
- `EpsFile`: sizes are scaled down. The clock (9 values) wraps within a recording
  and a gap fits its width (3 values). `MaxEvents` is one above the first block, so
  the block is filled, resized and left. `MaxOverrun` cuts the cursor past the end,
  which in the code moves on by two per poll until it wraps. `StopPlay` ends a
  playback without a drag only: after one, the calls of the other handlers return on
  the completion left over as well (`piano_slider`), and nothing said here would hold.
  A behaviour ends (`spoilt`) where a chunk was stored outside its block. A recording
  of no event is included: it reaches `ATLASSERT (FALSE)`, as `SeekLands` says.
- `Music`: two effects are enough to replace a chain under an interface of the
  other; the moves cover a plain field, the one that two sliders write and the
  one whose extents differ; `MaxItems` bounds the list, `MaxBoxes` the nesting of
  boxes (one under another).
- `Futex`: `Wraps = FALSE` cuts a behaviour where `sig` would run over (`Exhausted`
  keeps the end of the bound apart from a deadlock); `Msb` 8 lets eight contended
  calls happen before it.
- `GameBoy`: opcodes of one and two cycles step over every boundary of a line of
  eight and divide it in every way; two visible lines have a first and a last one;
  `MaxWrites` bounds the registers the program writes (what a third write does, it
  could have done as the first, since the devices run on in between). `SpeedRatio` is
  1: the scaled clock of the picture unit is in no property after a change of speed,
  and the ratio only multiplies the states; the theorems hold for every ratio.
  `TacSelects` has one of the two frequencies, as the period starts anew with every
  write of TAC.
- `Disassembler`: five bytes hold a branch forwards, one backwards and an
  instruction cut by the end of the bank; `MaxOps` bounds the run of the CPU.
- `Cody`: `MaxQueue` is the length of the queue from which the player presses
  nothing; without it he can press faster than frames are shown.

Deadlock is checked in every run but four. In `piano` and `piano_slider` the two
threads really can wait for each other after a `resume_` (section 4), and a
terminated process stops; in `music` a failed `ATLASSERT` ends the program; in
`disasm` a fault, a trap or the bound on opcodes ends the run.

### Fairness

- `DikQueue` (`dik_refine`): a thread inside a call goes on, and the consumer keeps
  calling `pop_msg`, because `CMessageIdleFastLoop::Run` never stops calling the
  idle handlers. Nobody has to push.
- `PlayerThread`, `MidiPiano`: `PlayerProc` never blocks except where it waits for
  `m_SuspendEvent`; the window thread goes on inside a call, and `OnSlider` calls
  `resume_` after `suspend`. No call has to be made.
- `Keyboard`: the player goes on polling, and a handler that has begun goes on. No
  key has to be pressed or released.
- `Futex`: a thread goes on inside a call, and an owner goes on to unlock. Weak
  fairness only: the property says the lock is handed on, not that a given waiter
  gets it, since a Win32 event does not queue its waiters fairly.
- `GameBoy`: the host calls `gameboy_run_ms` again and again, so the loop goes on,
  unless a general DMA hangs it (section 4) or the model ends at `MidLine`. `Cody`: the host calls `mr10_loop`
  every frame. Both are stated as infinitely many steps, which is weak fairness
  where a step is always enabled.
- `EpsFile`, `Music`, `Disassembler` state no liveness.

## 4. What the violations show, and what was read on the way

1. `pop_msg (DikRaw *)` decodes the slots of a block in slot order and reverses the
   whole array: events of one block come back newest first (`dik_block_order`). A
   key pressed and released within one poll is drawn as released, then pressed,
   and stays pressed.
2. Case `EVENT_RECV_SUSPEND` answers a `resume_` twice. The second answer is taken
   by the next call, which returns before it is served, and from then on
   `ClearQueue`, which frees nodes without a CAS, can meet `pop_msg`
   (`piano_slider`). Up to the first `resume_` the handshake keeps them apart, which
   `piano` checks and section 6 proves.

Read in the code while modelling. These are in the models as the code has them,
and the properties say where they stop holding; no run is a counterexample.

midi_piano:

- `realloc` is given a number of chunks for a number of bytes: the first recording
  beyond 80000 events shrinks the block to a quarter and writes outside it
  (`Resize` in `EpsFile`, `spoilt`). `ReadEPS` has the same mistake.
- A pause of more than 65.535 seconds between two keys is cut to 16 bits.
- A recording without an event can be saved, loaded, played and sought in; `SetPos`
  then reaches its `ATLASSERT (FALSE)` (`CFile_eps.hxx:176`).
- From the second drag of the slider on, the player runs while `OnSlider` stores the
  cursor and the clock: either store can be lost, and then the time shown and the music
  part (`SetPos`, `SetTiming`).
- A file that `ReadEPS` rejects enables Play over an unfilled buffer.
- `ClearNoise` between `Activate (FALSE)` and `SetFX` of the other thread makes
  `SetFX` fail, with its `ATLASSERT`; the port still ends active.
- Enabling one effect builds new objects for all: what the other panels show is
  lost until they are used again (`fresh`).
- The Depth slider of the flanger and the chorus writes `fFeedback`; the Gain
  slider of the equalizer clamps `fBandwidth`: the device refuses the structure.
- A second selection under the message box of a failed collection erases the wrong
  entry (`overlapped`).
- A change of octave under a held key leaves its note sounding; so does an offset
  entered between the working out of a note and its sending (`adrift`). The Enter
  that ends the entry of an offset is itself a piano key.
- `aba_count` is not needed for what the program does, as a pop takes the whole
  list and a push survives a recycled top node.
- In multimedia-timer mode the wait loop of `DelayMS` has its condition inverted and
  returns at once (`CThreadTiming.hxx:135`).

Futex: `sig` counts contended calls and is never reduced; after `2^31` of them it is
0 while the lock is held. `futex_destroy` closes the event and frees the object
under threads that wait for it.

Game Boy:

- A general DMA never ends: `for (; id = K; id++)` assigns (`ppu.c:215`).
- Every write of TIMA, TMA or TAC restarts the period of the timer, so a program that
  writes one of them often enough stops it (`timer.c:42-44`).
- A write of KEY1 stores bit 7 too and is accepted in the DMG mode, so STOP can switch
  the speed, and scale the clocks twice in one direction (`gameboy.c:414`, `:217`).
- In `adv_machine` the start of V-blank is a line less the length of V-blank, a
  negative number (`internal.h:115`): in double speed no line is drawn and no frame
  handed over. A change back in the middle of a line makes `while (--_nums)` count from
  a negative number, past the frame buffer (`ppu.c:1275`).
- The joypad can request IRQ_5 in the middle of the entry of another interrupt, with
  the CPU in STOP (`controller.c:163`).
- The STAT interrupt of H-blank is never requested: nothing sets its flag.
- The milliseconds by which a call overran its budget (`deflect_ms`) are added to the
  next one instead of taken off (`gameboy.c:124`).
- `mbc1.c:67` and `:73` assign where they should compare.
- EI takes effect at once, not after the next opcode; the HALT bug is set whenever
  HALT is left with interrupts off (`gameboy.c:167`).
- INC and DEC of L take 12 clocks and those of (HL) 4: the two are swapped.
- E2 and F2 have length 2 in `cpu_lens` while the CPU fetches one byte, as the
  comment in the assembler says (`FollowsListing` leaves them out).
- In banks from 1 on the mark of a JP or CALL adds the base of the bank to an address
  that is already absolute, so its label matches no printed line. A JP or CALL in
  the last two bytes of a bank marks address 0; a JR in its last but one prints the
  offset 0; a JR or CB in the last byte reads behind the bank.

Mighty Final Fight: up is tested against itself where down was meant; the last
entry of the jump table is never used; the height after 39 frames is 0, and the
40th frame resets it.

## 5. Abstract specifications

`MsgQueue` has three variables: what is queued, what each consumer has taken, and
what it was handed. `DikQueue!Abstract` maps the linked list, read backwards, to
the queue, and what a drain in progress will return to the hand. A push takes
effect at its CAS, a pop at its CAS, and everything else stutters. With one event
per node the implementation is exact; with several, `dik_block_order` shows where
it departs.

`MidiPiano` EXTENDS `PlayerThread` and its actions contain those of the handshake, so
that the program makes no other steps of it is a lemma (`ThreadSteps`), not a
property of a run; it is how what is proved of `PlayerThread` reaches the program.

## 6. Proofs

TLAPS checks these for any values of the constants under the named assumptions of
the modules (`NullAssumption`, `BoundAssumption`, `RequestsAssumption`,
`WidthAssumption`, `TimerAssumption`, `KeyboardAssumption`, `Lr35902Assumption`,
`DisassemblerAssumption`, …), which TLC evaluates on every run.

- `MidiPianoProofs`, first part, on `PlayerThread` alone. `HandshakeExact` speaks of the host outside a call and is
  not inductive. `HandshakeInv` adds what holds at each phase: before the request
  is signalled nothing is in flight (`Requesting`); while the host waits exactly
  one of "request set", "request read", "work done" and "answer set" holds
  (`Waiting`), and the mode agrees with the request from the switch on. From it:
  `ThreadTypeCorrect`, `HandshakeCorrect`, `ModeCorrect`, `RequestsCorrect` (the
  last an action property).
- `MidiPianoProofs`, second part. The lemma `ThreadSteps` carries `HandshakeInv` over to the
  program (`ThreadHandshake`), which with `PopInv` (a `pop_msg` runs outside every
  call) gives `ClearPopCorrect`. The rest needs what
  the panel says in the middle of a call: `ButtonInv` (one mode at most, its button
  enabled) holds always; `PianoFits` says, outside a call, that panel, menu,
  attached buffer and queued kinds fit the mode (`Tells`), and inside one what they
  will be when the handler has done the rest (`PanelAfter`). The queue needs that a
  recording is only ended while one runs: RECORD_END is the one change of mode
  that does not clear it. From it `PanelCorrect`, `BufferCorrect`, `KindsCorrect`.
  `RequestsMeetMode` justifies the guards of `EpsFile`: the player serves each request
  for a recording or a playback in the mode from which `EpsFile` lets it begin or end
  (`DueInv`: a request not yet served was offered by a button of its mode).
- `DikQueueProofs`. `SpinInv` (types of `pc` and `spin`, exclusion) is inductive by
  itself: `SpinlockExcludes`. `CountInv` adds the types of the pointers and the
  counters *while the lock is held*: `_malloc_node` decrements `level_count` before
  it unlinks, so the counter is one short exactly while some thread is at
  `m_unlink`; exclusion makes "some thread" one thread. That gives
  `FreeListCounters`. Both hold with `ClearQueue` racing too: it touches neither
  the lock nor the free lists.
  The theorems about pointers assume `KeptApart`: there is no `ClearQueue`, or the
  callers keep it apart. `ListInv` says where every node is (`Split`: unallocated,
  cached, queued or with one thread; each step that moves one is one of six lemmas),
  that `next` spells the queue from `level` and each drain from its cursor, at every
  step of the drain (`Chain`, in `Holds`), that a node about to be pushed points at
  the `level` its CAS expects, and that `ClearQueue` runs alone with the nodes it has
  not yet freed spelled from its own cursor (`ClearsAlone`). The ABA question is
  settled by the second of these: the CAS compares `level` with the value linked into
  the node, so a header that changed and came back still gives a list. It gives
  `NodesOwned`, `ListsCorrect` and `NoUseAfterFreeCorrect`, for any numbers of
  threads and nodes.
  `QueueImplemented` is the refinement. The mapping reads the abstract queue off
  `linked`, the message lists of its nodes put end to end, and what a consumer has in
  hand off its drain. `RefInv` is `ListInv` and where the event of each pushing thread
  is (`Carries`): not yet in a node, in the node it is about to push, or in the
  queue. The step that counts is the CAS: `PushCas` is `Put`, `PopCas` is `Take`, a
  `PopLoadLevel` that finds nothing is `ReturnEmpty`, the last `FreeUnlock` of a drain
  is `Return`, `ClearReset` is `Clear`; every other step is a stutter, which means
  that it changes no `dikMsg` of a node the mapping reads. Besides `KeptApart` it
  assumes one event per node (`BlockSizes = {1}`, as in the run): with more the code
  hands the events of a block out in another order, and `dik_block_order` is the
  counterexample.
- `KeyboardProofs`. `SilentInv`: every note that sounds, and every press that is
  buffered or being sent, has its key down or its release behind it in the buffer
  (`WillEnd`), as long as nothing is adrift. `SilentCorrect` is its case of no key
  down and an empty buffer.
- `MusicProofs`. `EffectInv` says at each point of `SetEffectEnable` which of box,
  flag, interface and chain has been brought up to date, and who has stopped the
  port: `ChainCorrect`, `SoundCorrect`, `PortCorrect`. `DlsInv` does the same for
  the lists and the stack of boxes: `DlsCorrect`.
- `FutexProofs`. Mutual exclusion is not inductive: a thread may enter because
  `sig` was 0 or because the event was set. `Token` says the right to enter is in
  exactly one of `sig`, the event and one thread; to keep it, `UnlockCas` must see
  every waiter, which is `WaitersCounted` (`sig > Msb` while a thread waits).
  `OwnerKnown` ties `own`, `recur` and `depth`. From them `FutexExcludes`,
  `FutexKeepsToken`, `FutexCountsCalls`, until `sig` wraps.
- `GameBoyProofs`. `ClockInv`: what a device is behind is less than its period plus
  what the loop is about to add, a period counted from the last write of the timer: `TimersCorrect`. `LateInv` ties `late` to the stage
  of the loop, with STOP, its end by the joypad and the change of speed among the
  steps: `InterruptCorrect`. The picture unit is `PpuInv`, a predicate per mode
  (`InOam`, `InOamVram`, `InHblank`): which line it is in, how far the line is drawn,
  which sprites the search has cached and whether the host has had the frame; what
  `ppu_run` does in each mode is a lemma. `LineCorrect`, `SpriteCacheCorrect`, `FrameCorrect`
  and `HdmaCorrect` follow for every program until it changes the speed. They rest on `ShortAssumption`: one
  call of `ppu_run` never passes more clocks than a mode lasts, so that no mode is
  skipped; the durations of `internal.h:76-88` and the longest opcode say so.
- `CodyProofs`. `CodyInv`: only the descriptor in front was begun, and `fevt` is its
  kind: `HookSoundCorrect`. `Timed` says where a descriptor stands: the frames still
  to come and those it has had are those that were pushed; `FrontInv` adds what the
  one in front has done so far: the height is `Rise` at its frame, and a punch has
  struck if its blow is past. `AirborneCorrect`, `StrikesCorrect`. `Rise` is a
  recursive function over the table of the jump; it is shown to equal a written-out
  table by substituting that table into the recursion (`RiseStep`), and to come back
  to 0 before the last frame.
- `MidiPianoProofs`, third part, on `EpsFile` alone. `FileInv` says that gaps and true times belong together (`Times`)
  in the buffer, in the file and in what is loaded, and that the clock is at the
  time of the last chunk read, but for the gap that is still being waited for
  (`delay`): `PlaysCorrect`. `SeekInv` adds that the total in the header is the sum of
  the gaps, so that every slider position lies in the file, whoever moves the cursor;
  and that from the first drag to the second, with its two stores made while the
  player is parked, clock and cursor are a gap apart at most: `SeekCorrect`. That the loops of `calc_total`
  and `SetPos` (`TimeOf`, a recursive function) give the times is shown by the least
  chunk for which they would not (`TimeOfIs`), and that `SetPos` finds a first chunk
  by the same fact (`Least`). Both theorems assume `ShortGaps`: `SizesAssumption`,
  no gap longer than 16 bits hold, and a recording that is a gap short of the
  clock's 49 days. Section 4 has what the code does beyond.

- `DisassemblerProofs`, on `Disassembler` and the CPU of `Lr35902` in it.
  `CpuTypeCorrect`: each operator of `Lr35902` takes a machine of the widths of
  `struct cpu` (`Machine`) to one, and with it every opcode.
  `DecimalCorrect`: `DecimalInv` says that the history `dec` is the decimal result a
  DAA would leave now (`Adjusted`). That ADD, ADC, SUB and SBC establish it is
  arithmetic on two digits with a carry or borrow out of each: the low digit, its H
  and the high digit one after the other.
  `FollowsCorrect` and `LabelsCorrect` rest on `ListInv`, which says what the two
  passes of the disassembler have done up to the cursor: the instructions of a bank
  are the places its scan stops at. The scan is described without recursion, by the
  sets closed under "the next instruction begins `cpu_lens` further" (`Reach`), and
  each pass takes one step along them (`Advance`). The marks recorded are those of the
  branches passed (`MarksOK`), the lines printed are the instructions passed, with
  the length, operand and labels they should have (`AttachOK`). Against it stands the
  CPU: every opcode not excepted leaves the PC behind its `cpu_lens` bytes
  (`LengthsAgree`) or where the operand printed for it says (`BranchLeads`), and
  `TakenTarget` identifies the target with the one marked.
  These two theorems assume `Unbanked`: one or two banks that fit below `8000h`, a
  cartridge addressed without a bank controller. The code prints every bank after
  the first at the same base, so in a third bank an address does not name one line.
  The instance of `disasm` satisfies it. `CpuTypeCorrect` and `DecimalCorrect` hold
  without it.

Model-checked only: the queue's refinement with more than one event per node, where
the order is not kept at all (`dik_block_order`), and all liveness (`QueueDrained`,
`CallsReturn`, `LockPasses`, `HaltWakes`, `FallsSilent`, `ComesToRest`), since
fairness and ENABLED are out of the prover's reach.

## 7. Not modelled, and what could come next

- `CLoadingWindow`: a splash thread with one event at its start and one at its
  end, used once. A model would be the small sibling of `PlayerThread`.
- `CThreadTiming`: a clock base and a subtraction; its wrap is that of the clock of
  `EpsFile`.
- `mbc0.c`, `mbc1.c`, `cartridge.c`: bank numbers and address arithmetic, no
  sequence of calls that matters beyond the last write to each register.
- Colours of pixels, tiles and palettes of `ppu.c`: data; `Ppu` has when they are
  drawn and which.
- The emulated NES video (`emu_NESppu.c`): one pass over its tables per frame. Read
  in it: rows after the first ignore the scroll in x, the high page bit is added
  twice, and the test of `amc_hits` is inverted.
- The destructor of the queue and `futex_destroy`: their contract is that nobody
  uses the object any more, and the code does nothing to see to it.
- DirectX layers (`nes_dc.win32.c`, 8Bit_Host, `CDirectDraw.hxx`): their state is in
  the device.
- Pixel routines, opcode headers without a run loop (`z80/`), key editors, tile
  editor, drawing and layout: single-threaded arithmetic or I/O, where a model
  would restate the code. Together with the vendored allocator they are most of
  the repository's lines.

Next: the composition of `Keyboard` with `MidiPiano` instead of one action for the
handshake; `EpsFile` with the queue, so that a chunk's note is followed from the
device to the loudspeaker.
