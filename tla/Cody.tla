--------------------------------- MODULE Cody ---------------------------------
(***************************************************************************)
(* The fighter of Mighty Final Fight (fsm.cody.c): what the buttons of the *)
(* joypad put into the frame queue, and what the queue does to him.        *)
(*                                                                         *)
(* mr10_loop runs once a frame: joypad_poll of the host has filled the     *)
(* joypad, fsm_cc_collect_ctx takes it over, fsm_cc_decode_frame pushes    *)
(* descriptors, fsm_cc_show_frame acts on the one in front.  The host      *)
(* counts one tick a frame, so sys_ticks - poll_time of a descriptor is    *)
(* the number of frames it was in front, elapsed.                          *)
(*                                                                         *)
(* The frame queue (frame.queue.c) is a sequence; its links and its free   *)
(* list are left out, and so are the pictures and the movement along x     *)
(* (pickframe_cur, vvector, pivot_x, contin_walk_count).                   *)
(***************************************************************************)
EXTENDS Integers, Sequences

CONSTANTS
  Buttons,       \* the buttons the player uses
  MaxQueue       \* bound: with more descriptors than this he lets go

ASSUME CodyAssumption ==
  /\ Buttons \subseteq {"left", "right", "up", "down", "b", "a"}
  /\ MaxQueue \in Nat \ {0}

VARIABLES
  press,                   \* the buttons of the last joypad_poll that are down
  lr_lock, ud_lock,        \* [0] and [1], here 1 and 2
  fevt, fdir_current,
  pivot_v,                 \* height above the ground (the code counts down)
  punch_init, punch_last,
  fs_queue,
  sounding,                \* csnd_x_skill, which loops until it is stopped
  struck,                  \* history, see StrikesOnce
  stage                    \* what comes next in mr10_loop

lockVars == <<lr_lock, ud_lock>>
showVars == <<fdir_current, pivot_v, punch_init, sounding, struck>>
vars == <<press, lockVars, fevt, showVars, punch_last, fs_queue, stage>>

Airs == {"CCACT_JUMP", "CCACT_JUMP_HOOK"}

\* struct fqueue: what happens, which way he looks, for how many frames; whether
\* ctor_routine was called, the frames since then, and kick_done of a jump.
Desc(evt, dir, count) ==
  [evt_cc |-> evt, dir |-> dir, count |-> count, isCtor |-> FALSE, elapsed |-> 0]

\* The rise of each frame of a jump; the 41st entry is never used.
vmptV_jump ==
  <<0, 4, 3, 4, 3, 4, 2, 3, 3, 2, 2, 2, 1, 2, 1, 1, 0, 1, 0, 0, 0, 0,
    -1, -1, -1, -1, -1, -2, -2, -2, -2, -3, -3, -3, -3, -3, -4, -4, -2, -2, -2>>

\* Mutant of FSMCC_INVALIANT_JUMP_FRAME: one frame for every entry.
FSMCC_INVALIANT_JUMP_FRAME_All == 41

FSMCC_INVALIANT_JUMP_FRAME == 40

\* The lock flags are not initialised, except by the first call of
\* fsm_cc_decode_frame.
Init ==
  /\ press = {}
  /\ lr_lock \in BOOLEAN \X BOOLEAN /\ ud_lock \in BOOLEAN \X BOOLEAN
  /\ fevt = "CCACT_NULL" /\ fdir_current = "FDIR_RIGHT"
  /\ pivot_v = 0
  /\ punch_init = FALSE /\ punch_last = FALSE
  /\ fs_queue = <<>>
  /\ sounding = FALSE
  /\ struck = 0
  /\ stage = "decode"

(***************************************************************************)
(* joypad_poll, fsm_cc_collect_ctx and fsm_cc_decode_frame, K the buttons  *)
(* that are down.                                                          *)
(***************************************************************************)

\* The buttons of a pair that was locked in one of the last two frames count as
\* pressed for the first time.
Relocked(K, lock, pair) == IF lock[1] \/ lock[2] THEN K \cap pair ELSE {}

\* The FIRST flags of joypad_current.
First(K) == (K \ press) \cup (press \ K)
              \cup Relocked(K, lr_lock, {"left", "right"})
              \cup Relocked(K, ud_lock, {"up", "down"})
PressFirst(K, k) == k \in K /\ k \in First(K)
LooseFirst(K, k) == k \notin K /\ k \in First(K)

Push(q, evts, dir) == q \o [i \in 1..Len(evts) |-> Desc(evts[i], dir, 1)]
Pop(q) == IF q = <<>> THEN q ELSE Tail(q)

HookPressed(K) == PressFirst(K, "a") /\ "b" \in K
JumpHook == Desc("CCACT_JUMP_HOOK", fdir_current, FSMCC_INVALIANT_JUMP_FRAME)

\* What every frame does: the buttons, and the locks of this frame.
Decode(K) ==
  /\ stage = "decode"
  /\ Len(fs_queue) > MaxQueue => K = {}
  /\ press' = K
  /\ lr_lock' = <<{"left", "right"} \subseteq K, lr_lock[1]>>
  /\ ud_lock' = <<{"up", "down"} \subseteq K, ud_lock[1]>>
  /\ stage' = "show"
  /\ UNCHANGED showVars

PunchOr(K, again) ==
  fs_queue' = IF again
              THEN Append(Pop(fs_queue), Desc("CCACT_PUNCH", fdir_current, 14))
              ELSE IF HookPressed(K) THEN Append(Pop(fs_queue), JumpHook)
              ELSE fs_queue

\* Mutant of DecodePunch: a hook is in front too.
DecodePunchOrHook(K) ==
  /\ Decode(K)
  /\ fevt \in {"CCACT_PUNCH", "CCACT_JUMP_HOOK"}
  /\ punch_last' = (punch_last /\ ~punch_init)
  /\ PunchOr(K, punch_init /\ punch_last /\ LooseFirst(K, "b"))
  /\ UNCHANGED fevt

\* Mutant of DecodePunch: every punch makes a new one.
DecodePunchRepeats(K) ==
  /\ Decode(K)
  /\ fevt = "CCACT_PUNCH"
  /\ punch_last' = (punch_last /\ ~punch_init)
  /\ PunchOr(K, punch_init /\ punch_last)
  /\ UNCHANGED fevt

\* A punch was in front: b released at its end makes a new one, a with b held a
\* jump-hook, in place of what is in front.
DecodePunch(K) ==
  /\ Decode(K)
  /\ fevt = "CCACT_PUNCH"
  /\ punch_last' = (punch_last /\ ~punch_init)
  /\ PunchOr(K, punch_init /\ punch_last /\ LooseFirst(K, "b"))
  /\ UNCHANGED fevt

\* Nothing is decoded in the air, or while keys are in conflict.
DecodeNothing(K) ==
  /\ Decode(K)
  /\ fevt # "CCACT_PUNCH"
  /\ fevt \in Airs \/ lr_lock'[1] \/ ud_lock'[1]
  /\ UNCHANGED <<fevt, punch_last, fs_queue>>

DecodeFree(K) ==
  /\ Decode(K)
  /\ fevt \notin Airs \cup {"CCACT_PUNCH"} /\ ~lr_lock'[1] /\ ~ud_lock'[1]
  /\ UNCHANGED punch_last

DecodeHook(K) ==
  /\ DecodeFree(K)
  /\ HookPressed(K)
  /\ fs_queue' = Append(fs_queue, JumpHook)
  /\ UNCHANGED fevt

\* A walk that begins turns him for one frame first; one that goes on, or takes
\* over from the other key in the same frame, does not.
WalkFrom(K, k, other) ==
  IF k \in First(K) /\ ~LooseFirst(K, other) THEN <<"CCACT_NULL", "CCACT_WALK">>
                                        ELSE <<"CCACT_WALK">>

DecodeRight(K) ==
  /\ DecodeFree(K) /\ ~HookPressed(K)
  /\ "right" \in K
  /\ fs_queue' = Push(fs_queue, WalkFrom(K, "right", "left"), "FDIR_RIGHT")
  /\ UNCHANGED fevt

\* Both look left.  up is tested against itself instead of down.
DecodeLeftOrUp(K) ==
  /\ DecodeFree(K) /\ ~HookPressed(K)
  /\ "right" \notin K
  /\ LET walk == IF "left" \in K THEN WalkFrom(K, "left", "right")
                                     ELSE WalkFrom(K, "up", "up")
     IN /\ "left" \in K \/ "up" \in K
        /\ fs_queue' = Push(fs_queue, walk, "FDIR_LEFT")
        /\ fevt' = IF Len(walk) = 2 THEN "CCACT_WALK" ELSE fevt

\* No walk: a jump, a punch, or neither.
DecodeStanding(K) ==
  /\ DecodeFree(K) /\ ~HookPressed(K)
  /\ K \cap {"right", "left", "up"} = {}
  /\ LET jump == Desc("CCACT_JUMP", fdir_current, FSMCC_INVALIANT_JUMP_FRAME)
         punch == Desc("CCACT_PUNCH", fdir_current, 20)
     IN fs_queue' = fs_queue \o (IF PressFirst(K, "a") THEN <<jump>> ELSE <<>>)
                             \o (IF PressFirst(K, "b") THEN <<punch>> ELSE <<>>)
  /\ UNCHANGED fevt

fsm_cc_decode_frame(K) ==
  DecodePunch(K) \/ DecodeNothing(K) \/ DecodeHook(K) \/ DecodeRight(K)
    \/ DecodeLeftOrUp(K) \/ DecodeStanding(K)

(***************************************************************************)
(* fsm_cc_show_frame.                                                      *)
(***************************************************************************)

\* ccact_lock: the first frame in front calls ctor_routine.
ccact_lock(d) ==
  IF d.isCtor THEN [d EXCEPT !.elapsed = @ + 1] ELSE [d EXCEPT !.isCtor = TRUE]

\* The end of the frame: the descriptor is removed when its count is used up.
Shown(d) ==
  /\ fdir_current' = d.dir
  /\ fs_queue' = IF d.count <= 1 THEN Pop(fs_queue)
                 ELSE <<[d EXCEPT !.count = @ - 1]>> \o Tail(fs_queue)

\* The start of it.
Show ==
  /\ stage = "show"
  /\ stage' = "decode"
  /\ UNCHANGED <<press, lockVars>>

ShowNothing ==
  /\ Show
  /\ fs_queue = <<>>
  /\ UNCHANGED <<fevt, showVars, punch_last, fs_queue>>

\* ccact_runloop changes the picture and the step along x only.
ShowWalk ==
  /\ Show
  /\ fs_queue # <<>>
  /\ LET d == ccact_lock(Head(fs_queue))
     IN /\ d.evt_cc \in {"CCACT_NULL", "CCACT_WALK"}
        /\ Shown(d)
        /\ fevt' = IF d.evt_cc = "CCACT_WALK" THEN "CCACT_NULL" ELSE fevt
  /\ struck' = 0
  /\ UNCHANGED <<pivot_v, punch_init, punch_last, sounding>>

\* ccact_jump_ and ccact_jump2_, with the sound of the hook: ctor_routine starts
\* it, dtor_routine stops it.
ShowJump ==
  /\ Show
  /\ fs_queue # <<>>
  /\ LET d == ccact_lock(Head(fs_queue))
         last == d.count <= 1
     IN /\ d.evt_cc \in Airs
        /\ Shown(d)
        /\ fevt' = IF last THEN "CCACT_NULL" ELSE d.evt_cc
        /\ pivot_v' = IF last THEN 0 ELSE pivot_v + vmptV_jump[d.elapsed + 1]
        /\ sounding' = IF d.evt_cc = "CCACT_JUMP_HOOK" THEN ~last ELSE sounding
  /\ struck' = 0
  /\ UNCHANGED <<punch_init, punch_last>>

\* ccact_punch0_ and ccact_punch2loop_: when a punch strikes and when it is over.
Strikes(d) == d.elapsed = IF punch_init THEN 2 ELSE 7

\* Mutant of Over: the two kinds of punch change places.
OverSwapped(d) == d.elapsed >= IF punch_init THEN 11 ELSE 6

Over(d) == d.elapsed >= IF punch_init THEN 6 ELSE 11

ShowPunch ==
  /\ Show
  /\ fs_queue # <<>>
  /\ LET d == ccact_lock(Head(fs_queue))
         last == d.count <= 1
     IN /\ d.evt_cc = "CCACT_PUNCH"
        /\ Shown(d)
        /\ fevt' = IF last THEN "CCACT_NULL" ELSE "CCACT_PUNCH"
        /\ punch_init' = (~last /\ (punch_init \/ Over(d)))
        /\ punch_last' = (~last /\ (punch_last \/ Over(d)))
        /\ struck' = (IF d.elapsed = 0 THEN 0 ELSE struck)
                       + (IF Strikes(d) THEN 1 ELSE 0)
  /\ UNCHANGED <<pivot_v, sounding>>

fsm_cc_show_frame == ShowNothing \/ ShowWalk \/ ShowJump \/ ShowPunch

mr10_loop ==
  (\E K \in SUBSET Buttons : fsm_cc_decode_frame(K)) \/ fsm_cc_show_frame

Spec == Init /\ [][mr10_loop]_vars
\* The host calls mr10_loop again and again; a step is always enabled, so this
\* is WF_vars(mr10_loop).
FairSpec == Spec /\ []<>(stage = "decode") /\ []<>(stage = "show")

-----------------------------------------------------------------------------
(***************************************************************************)
(* Properties.                                                             *)
(***************************************************************************)
Running(evts) ==
  fs_queue # <<>> /\ Head(fs_queue).isCtor /\ Head(fs_queue).evt_cc \in evts

\* How high the first n frames of a jump take him.
Rise[n \in 0..Len(vmptV_jump)] == IF n = 0 THEN 0 ELSE Rise[n - 1] + vmptV_jump[n]

\* He is off the ground exactly while a jump that has begun is in front, at the
\* height its frames add up to, never below it, and when its last frame resets
\* pivot_v he has already come down to where he took off.
Airborne ==
  /\ fevt \in Airs <=> Running(Airs)
  /\ ~Running(Airs) => pivot_v = 0
  /\ Running(Airs) =>
       LET d == Head(fs_queue)
       IN /\ pivot_v = Rise[d.elapsed + 1] /\ pivot_v >= 0
          /\ d.count = 1 => pivot_v = 0

\* The looping sound of the jump-hook plays exactly while a hook is under way:
\* no descriptor whose ctor_routine ran is dropped before its dtor_routine.
HookSound == sounding <=> Running({"CCACT_JUMP_HOOK"})

\* A punch that is shown to its end strikes exactly once, whether it counts as
\* the first or as one of the loop, and when that changes under way.
StrikesOnce ==
  [][Running({"CCACT_PUNCH"}) /\ stage = "show" /\ Head(fs_queue).count = 1
       => struck' = 1]_vars

\* When the player lets go for good, he comes to rest: what was pressed is
\* played to its end and nothing repeats itself.
ComesToRest ==
  <>[](press = {})
    => <>[](fs_queue = <<>> /\ fevt = "CCACT_NULL" /\ pivot_v = 0 /\ ~sounding)
=============================================================================
