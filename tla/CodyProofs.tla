------------------------------ MODULE CodyProofs ------------------------------
(***************************************************************************)
(* Theorems of Cody: whatever the buttons do and however long the queue    *)
(* grows, the looping sound of the jump-hook is stopped by the dtor of the *)
(* hook that started it, a jump takes him off the ground and back, and a   *)
(* punch shown to its end strikes once.                                    *)
(***************************************************************************)
EXTENDS Cody, TLAPS

Records == [evt_cc : Airs \cup {"CCACT_NULL", "CCACT_WALK", "CCACT_PUNCH"},
            dir : {"FDIR_LEFT", "FDIR_RIGHT"}, count : Nat, isCtor : BOOLEAN,
            elapsed : Nat]

\* The frames of a descriptor still to come and those it had make up the count
\* it was pushed with: 40 of a jump, 20 or 14 of a punch.
Timed(d) ==
  /\ ~d.isCtor => d.elapsed = 0
  /\ d.evt_cc \in Airs =>
       d.count >= 1 /\ d.count + d.elapsed = (IF d.isCtor THEN 39 ELSE 40)
  /\ d.evt_cc = "CCACT_PUNCH" =>
       d.count >= 1 /\ d.count + d.elapsed \in (IF d.isCtor THEN {19, 13} ELSE {20, 14})

Descs == {d \in Records : Timed(d)}
FreshDescs == {d \in Descs : ~d.isCtor}

\* Only the descriptor in front may have been started.
QueueOk(q) == q \in Seq(Descs) /\ \A i \in 2..Len(q) : ~q[i].isCtor
Started(q, evts) == q # <<>> /\ q[1].isCtor /\ q[1].evt_cc \in evts

\* What is pushed behind does not change what is under way.
LEMMA PushKeeps ==
  ASSUME NEW q, QueueOk(q), NEW r \in Seq(FreshDescs), NEW evts
  PROVE  /\ QueueOk(q \o r) /\ (Started(q \o r, evts) <=> Started(q, evts))
         /\ Started(q, evts) => (q \o r)[1] = q[1]
<1>1. q \in Seq(Descs) /\ r \in Seq(Descs)
  BY DEF QueueOk, FreshDescs
<1>2. q \o r \in Seq(Descs) /\ Len(q \o r) = Len(q) + Len(r)
  BY <1>1
<1>3. \A i \in 1..Len(q) : (q \o r)[i] = q[i]
  BY <1>1
<1>4. \A i \in 1..Len(r) : ~r[i].isCtor
  BY DEF FreshDescs
<1>5. \A i \in Len(q) + 1..Len(q) + Len(r) : ~(q \o r)[i].isCtor
  BY <1>1, <1>4
<1>6. QueueOk(q \o r)
  BY <1>2, <1>3, <1>5 DEF QueueOk
<1>7. CASE q = <<>>
  <2>1. Len(q) = 0 /\ ~Started(q, evts)
    BY <1>7 DEF Started
  <2>2. CASE r = <<>>
    BY <1>1, <1>7, <2>1, <2>2
  <2>3. CASE r # <<>>
    <3>1. 1 \in Len(q) + 1..Len(q) + Len(r)
      BY <1>1, <2>1, <2>3
    <3>2. ~(q \o r)[1].isCtor
      BY <1>5, <3>1
    <3> QED
      BY <1>6, <2>1, <3>2 DEF Started
  <2> QED
    BY <2>2, <2>3
<1>8. CASE q # <<>>
  <2>1. 1 \in 1..Len(q) /\ Len(q) # 0
    BY <1>1, <1>8
  <2>2. (q \o r)[1] = q[1]
    BY <1>3, <2>1
  <2>3. q \o r # <<>>
    BY <1>1, <1>2, <2>1
  <2> QED
    BY <1>6, <1>8, <2>2, <2>3 DEF Started
<1> QED
  BY <1>6, <1>7, <1>8 DEF Started

\* When the front is removed nothing is under way.
LEMMA PopStops ==
  ASSUME NEW q, QueueOk(q), NEW evts
  PROVE  QueueOk(Pop(q)) /\ ~Started(Pop(q), evts)
<1>1. CASE q = <<>>
  BY <1>1 DEF Pop, QueueOk, Started
<1>2. CASE q # <<>>
  <2>1. /\ Tail(q) \in Seq(Descs) /\ Len(Tail(q)) = Len(q) - 1
        /\ \A i \in 1..Len(Tail(q)) : Tail(q)[i] = q[i + 1]
    BY <1>2 DEF QueueOk
  <2>2. \A i \in 1..Len(Tail(q)) : ~Tail(q)[i].isCtor
    BY <2>1 DEF QueueOk
  <2> QED
    BY <1>2, <2>1, <2>2 DEF Pop, QueueOk, Started
<1> QED
  BY <1>1, <1>2

HOOK == {"CCACT_JUMP_HOOK"}
PUNCH == {"CCACT_PUNCH"}

\* How high he is, and how often the punch under way has struck.
Height ==
  pivot_v = IF Started(fs_queue, Airs) THEN Rise[fs_queue[1].elapsed + 1] ELSE 0
Blows ==
  Started(fs_queue, PUNCH) =>
    struck = IF fs_queue[1].elapsed >= (IF punch_init THEN 2 ELSE 7) THEN 1 ELSE 0

CodyInv ==
  /\ QueueOk(fs_queue)
  /\ fdir_current \in {"FDIR_LEFT", "FDIR_RIGHT"} /\ sounding \in BOOLEAN
  /\ sounding <=> Started(fs_queue, HOOK)
  /\ fevt \in Airs <=> Started(fs_queue, Airs)

\* What was started and is in front is what was in front.
FrontKept ==
  \A evts : Started(fs_queue', evts) => Started(fs_queue, evts) /\ fs_queue'[1] = fs_queue[1]

\* The property's word for what is under way, and the proof's.
LEMMA RunningIsStarted ==
  ASSUME QueueOk(fs_queue), NEW evts
  PROVE  Running(evts) <=> Started(fs_queue, evts)
BY DEF QueueOk, Running, Started

\* What the decoder pushes has not been started, and has its full count.
LEMMA DescIsFresh ==
  ASSUME NEW evt \in Airs \cup {"CCACT_NULL", "CCACT_WALK", "CCACT_PUNCH"},
         NEW dir \in {"FDIR_LEFT", "FDIR_RIGHT"}, NEW count \in Nat,
         evt \in Airs => count = 40, evt = "CCACT_PUNCH" => count \in {20, 14}
  PROVE  Desc(evt, dir, count) \in FreshDescs
<1> DEFINE d == Desc(evt, dir, count)
<1>1. d \in Records /\ d.isCtor = FALSE /\ d.elapsed = 0 /\ d.count = count /\ d.evt_cc = evt
  BY DEF Desc, Records
<1> HIDE DEF d
<1>2. Timed(d)
  BY <1>1 DEF Timed, Airs
<1> QED
  BY <1>1, <1>2 DEF d, Descs, FreshDescs

\* fsm_cc_decode_frame pushes descriptors...
LEMMA PushStep ==
  ASSUME CodyInv, NEW K, Decode(K), NEW r \in Seq(FreshDescs), fs_queue' = fs_queue \o r,
         fevt' = fevt \/ (fevt \notin Airs /\ fevt' = "CCACT_WALK")
  PROVE  CodyInv' /\ FrontKept
<1>1. /\ QueueOk(fs_queue') /\ \A evts : Started(fs_queue', evts) <=> Started(fs_queue, evts)
      /\ \A evts : Started(fs_queue, evts) => fs_queue'[1] = fs_queue[1]
  BY PushKeeps DEF CodyInv
<1>2. UNCHANGED <<sounding, fdir_current>> /\ (fevt' \in Airs <=> fevt \in Airs)
  BY DEF Decode, showVars, Airs
<1> QED
  BY <1>1, <1>2 DEF CodyInv, FrontKept

\* ... or removes a punch first, which is never a hook under way.
LEMMA PopStep ==
  ASSUME CodyInv, NEW K, Decode(K), NEW r \in Seq(FreshDescs),
         fevt = "CCACT_PUNCH", fevt' = fevt, fs_queue' = Pop(fs_queue) \o r
  PROVE  CodyInv' /\ FrontKept
<1>1. QueueOk(Pop(fs_queue)) /\ \A evts : ~Started(Pop(fs_queue), evts)
  BY PopStops DEF CodyInv
<1>2. QueueOk(fs_queue') /\ \A evts : ~Started(fs_queue', evts)
  BY <1>1, PushKeeps
<1>3. ~Started(fs_queue, Airs)
  BY DEF CodyInv, Airs
<1>4. ~Started(fs_queue, HOOK)
  BY <1>3 DEF Started, Airs, HOOK
<1>5. UNCHANGED <<sounding, fdir_current>> /\ fevt' \notin Airs
  BY DEF Decode, showVars, Airs
<1> QED
  BY <1>2, <1>4, <1>5 DEF CodyInv, FrontKept

\* Every way of decoding the buttons keeps the queue.
LEMMA DecodeStep ==
  ASSUME CodyInv, NEW K, fsm_cc_decode_frame(K)
  PROVE  CodyInv' /\ FrontKept
<1>1. Decode(K)
  BY DEF fsm_cc_decode_frame, DecodePunch, DecodeNothing, DecodeHook, DecodeRight,
         DecodeLeftOrUp, DecodeStanding, DecodeFree
<1>2. fdir_current \in {"FDIR_LEFT", "FDIR_RIGHT"}
  BY DEF CodyInv
<1>3. JumpHook \in FreshDescs /\ Desc("CCACT_PUNCH", fdir_current, 14) \in FreshDescs
  BY <1>2, DescIsFresh DEF JumpHook, FSMCC_INVALIANT_JUMP_FRAME, Airs
<1>4. Desc("CCACT_JUMP", fdir_current, FSMCC_INVALIANT_JUMP_FRAME) \in FreshDescs
  BY <1>2, DescIsFresh DEF FSMCC_INVALIANT_JUMP_FRAME, Airs
<1>5. Desc("CCACT_PUNCH", fdir_current, 20) \in FreshDescs
  BY <1>2, DescIsFresh DEF Airs
<1>6. fs_queue \in Seq(Descs) /\ Pop(fs_queue) \in Seq(Descs)
  BY PopStops DEF CodyInv, QueueOk
<1>7. ASSUME NEW evts \in {<<"CCACT_NULL", "CCACT_WALK">>, <<"CCACT_WALK">>},
             NEW dir \in {"FDIR_LEFT", "FDIR_RIGHT"},
             fs_queue' = Push(fs_queue, evts, dir),
             fevt' = fevt \/ (fevt \notin Airs /\ fevt' = "CCACT_WALK")
      PROVE  CodyInv' /\ FrontKept
  <2> DEFINE r == [i \in 1..Len(evts) |-> Desc(evts[i], dir, 1)]
  <2>1. \A i \in 1..Len(evts) : evts[i] \in {"CCACT_NULL", "CCACT_WALK"}
    BY <1>7
  <2>2. \A i \in 1..Len(evts) : Desc(evts[i], dir, 1) \in FreshDescs
    BY <2>1, DescIsFresh DEF Airs
  <2>3. Len(evts) \in Nat
    BY <1>7
  <2>4. r \in Seq(FreshDescs)
    BY <2>2, <2>3
  <2> QED
    BY <1>1, <1>7, <2>4, PushStep DEF Push
<1>8. CASE DecodePunch(K)
  <2>1. CASE fs_queue' = Append(Pop(fs_queue), Desc("CCACT_PUNCH", fdir_current, 14))
    <3> DEFINE r == <<Desc("CCACT_PUNCH", fdir_current, 14)>>
    <3>1. r \in Seq(FreshDescs) /\ fs_queue' = Pop(fs_queue) \o r
      BY <1>3, <1>6, <2>1
    <3> QED
      BY <1>1, <1>8, <3>1, PopStep DEF DecodePunch
  <2>2. CASE fs_queue' = Append(Pop(fs_queue), JumpHook)
    <3> DEFINE r == <<JumpHook>>
    <3>1. r \in Seq(FreshDescs) /\ fs_queue' = Pop(fs_queue) \o r
      BY <1>3, <1>6, <2>2
    <3> QED
      BY <1>1, <1>8, <3>1, PopStep DEF DecodePunch
  <2>3. CASE fs_queue' = fs_queue
    BY <1>1, <1>8, <2>3 DEF DecodePunch, CodyInv, Decode, showVars, FrontKept
  <2> QED
    BY <1>8, <2>1, <2>2, <2>3 DEF DecodePunch, PunchOr
<1>9. CASE DecodeNothing(K)
  BY <1>1, <1>9 DEF DecodeNothing, CodyInv, Decode, showVars, FrontKept
<1>10. CASE DecodeHook(K)
  <2> DEFINE r == <<JumpHook>>
  <2>1. r \in Seq(FreshDescs) /\ fs_queue' = fs_queue \o r
    BY <1>3, <1>6, <1>10 DEF DecodeHook
  <2>2. fevt' = fevt
    BY <1>10 DEF DecodeHook
  <2> HIDE DEF r
  <2> QED
    BY <1>1, <2>1, <2>2, PushStep
<1>11. CASE DecodeRight(K)
  <2> DEFINE walk == WalkFrom(K, "right", "left")
  <2>1. walk \in {<<"CCACT_NULL", "CCACT_WALK">>, <<"CCACT_WALK">>}
    BY DEF WalkFrom
  <2>2. fs_queue' = Push(fs_queue, walk, "FDIR_RIGHT") /\ fevt' = fevt
    BY <1>11 DEF DecodeRight
  <2> HIDE DEF walk
  <2> QED
    BY <1>7, <2>1, <2>2
<1>12. CASE DecodeLeftOrUp(K)
  <2> DEFINE walk == IF "left" \in K THEN WalkFrom(K, "left", "right")
                                     ELSE WalkFrom(K, "up", "up")
  <2>1. walk \in {<<"CCACT_NULL", "CCACT_WALK">>, <<"CCACT_WALK">>}
    BY DEF WalkFrom
  <2>2. /\ fs_queue' = Push(fs_queue, walk, "FDIR_LEFT") /\ fevt \notin Airs
        /\ \/ fevt' = fevt
           \/ fevt' = "CCACT_WALK"
    BY <1>12 DEF DecodeLeftOrUp, DecodeFree
  <2> HIDE DEF walk
  <2> QED
    BY <1>7, <2>1, <2>2
<1>13. CASE DecodeStanding(K)
  <2> DEFINE jump == Desc("CCACT_JUMP", fdir_current, FSMCC_INVALIANT_JUMP_FRAME)
             punch == Desc("CCACT_PUNCH", fdir_current, 20)
             j == IF PressFirst(K, "a") THEN <<jump>> ELSE <<>>
             p == IF PressFirst(K, "b") THEN <<punch>> ELSE <<>>
  <2>1. j \in Seq(FreshDescs) /\ p \in Seq(FreshDescs)
    BY <1>4, <1>5
  <2>2. fs_queue' = fs_queue \o j \o p
    BY <1>13 DEF DecodeStanding
  <2>3. fs_queue' = fs_queue \o (j \o p) /\ j \o p \in Seq(FreshDescs)
    <3> HIDE DEF j, p
    <3>1. FreshDescs \subseteq Descs
      BY DEF FreshDescs
    <3> QED
      BY <1>6, <2>1, <2>2, <3>1
  <2>4. fevt' = fevt
    BY <1>13 DEF DecodeStanding
  <2> HIDE DEF j, p
  <2> QED
    BY <1>1, <2>3, <2>4, PushStep
<1> QED
  BY <1>8, <1>9, <1>10, <1>11, <1>12, <1>13 DEF fsm_cc_decode_frame

\* ccact_lock starts a descriptor, or counts a frame of one that was started.
LEMMA LockStep ==
  ASSUME NEW h \in Descs, NEW d, d = ccact_lock(h)
  PROVE  /\ d \in Records /\ d.isCtor = TRUE /\ d.evt_cc = h.evt_cc
         /\ d.count \in Nat /\ d.elapsed \in Nat /\ d.dir \in {"FDIR_LEFT", "FDIR_RIGHT"}
         /\ d.elapsed = IF h.isCtor THEN h.elapsed + 1 ELSE 0
         /\ d.evt_cc \in Airs => d.count >= 1 /\ d.count + d.elapsed = 40
         /\ d.evt_cc = "CCACT_PUNCH" => d.count >= 1 /\ d.count + d.elapsed \in {20, 14}
<1>1. h \in Records /\ Timed(h)
  BY DEF Descs
<1>2. h.count \in Nat /\ h.elapsed \in Nat /\ h.dir \in {"FDIR_LEFT", "FDIR_RIGHT"}
      /\ h.isCtor \in BOOLEAN
  BY <1>1 DEF Records
<1>3. CASE h.isCtor
  <2>1. d = [h EXCEPT !.elapsed = @ + 1]
    BY <1>3 DEF ccact_lock
  <2>2. d \in Records /\ d.evt_cc = h.evt_cc /\ d.count = h.count /\ d.dir = h.dir
        /\ d.elapsed = h.elapsed + 1
    BY <1>1, <1>2, <2>1 DEF Records
  <2>3. d.isCtor = h.isCtor
    BY <1>1, <2>1, Zenon DEF Records
  <2>4. h.isCtor = TRUE
    BY <1>2, <1>3
  <2>5. d.evt_cc \in Airs => d.count >= 1 /\ d.count + d.elapsed = 40
    BY <1>1, <1>2, <1>3, <2>2 DEF Timed
  <2>6. d.evt_cc = "CCACT_PUNCH" => d.count >= 1 /\ d.count + d.elapsed \in {20, 14}
    BY <1>1, <1>2, <1>3, <2>2 DEF Timed
  <2> QED
    BY <1>2, <1>3, <2>2, <2>3, <2>4, <2>5, <2>6
<1>4. CASE ~h.isCtor
  <2>1. d = [h EXCEPT !.isCtor = TRUE]
    BY <1>4 DEF ccact_lock
  <2>2. d \in Records /\ d.evt_cc = h.evt_cc /\ d.count = h.count /\ d.dir = h.dir
        /\ d.elapsed = h.elapsed /\ d.isCtor = TRUE
    BY <1>1, <1>2, <2>1 DEF Records
  <2>3. h.elapsed = 0
    BY <1>1, <1>4 DEF Timed
  <2>4. d.evt_cc \in Airs => d.count >= 1 /\ d.count + d.elapsed = 40
    BY <1>1, <1>2, <1>4, <2>2 DEF Timed
  <2>5. d.evt_cc = "CCACT_PUNCH" => d.count >= 1 /\ d.count + d.elapsed \in {20, 14}
    BY <1>1, <1>2, <1>4, <2>2 DEF Timed
  <2> QED
    BY <1>2, <1>4, <2>2, <2>3, <2>4, <2>5
<1> QED
  BY <1>3, <1>4

\* fsm_cc_show_frame starts the front and removes it with its last frame.
LEMMA ShownStep ==
  ASSUME CodyInv, fs_queue # <<>>, NEW d, d = ccact_lock(Head(fs_queue)), Shown(d),
         NEW evts
  PROVE  /\ QueueOk(fs_queue') /\ fdir_current' \in {"FDIR_LEFT", "FDIR_RIGHT"}
         /\ Started(fs_queue', evts) <=> (~(d.count <= 1) /\ d.evt_cc \in evts)
         /\ Started(fs_queue', evts) => fs_queue'[1].elapsed = d.elapsed
<1>1. QueueOk(fs_queue) /\ fs_queue \in Seq(Descs)
  BY DEF CodyInv, QueueOk
<1>2. Head(fs_queue) \in Descs /\ Tail(fs_queue) \in Seq(Descs)
  BY <1>1
<1>3. /\ d \in Records /\ d.isCtor = TRUE /\ d.count \in Nat /\ d.elapsed \in Nat
      /\ d.dir \in {"FDIR_LEFT", "FDIR_RIGHT"}
      /\ d.evt_cc \in Airs => d.count >= 1 /\ d.count + d.elapsed = 40
      /\ d.evt_cc = "CCACT_PUNCH" => d.count >= 1 /\ d.count + d.elapsed \in {20, 14}
  BY <1>2, LockStep
<1>4. CASE d.count <= 1
  <2>1. QueueOk(Pop(fs_queue)) /\ ~Started(Pop(fs_queue), evts)
    BY <1>1, PopStops
  <2> QED
    BY <1>3, <1>4, <2>1 DEF Shown
<1>5. CASE ~(d.count <= 1)
  <2> DEFINE e == [d EXCEPT !.count = @ - 1]
  <2>1. /\ e \in Records /\ e.isCtor = TRUE /\ e.evt_cc = d.evt_cc /\ e.elapsed = d.elapsed
        /\ e.count = d.count - 1
    BY <1>3, <1>5 DEF Records
  <2>2. fs_queue' = <<e>> \o Tail(fs_queue)
    BY <1>5 DEF Shown
  <2> HIDE DEF e
  <2>3. e \in Descs
    <3>1. e.count + e.elapsed + 1 = d.count + d.elapsed /\ e.count >= 1
          /\ e.count \in Nat /\ e.elapsed \in Nat
      BY <1>3, <1>5, <2>1
    <3>2. e.evt_cc \in Airs => e.count + e.elapsed = 39
      BY <1>3, <2>1, <3>1
    <3>3. e.evt_cc = "CCACT_PUNCH" => e.count + e.elapsed \in {19, 13}
      BY <1>3, <2>1, <3>1
    <3> QED
      BY <2>1, <3>1, <3>2, <3>3 DEF Descs, Timed
  <2>4. /\ fs_queue' \in Seq(Descs) /\ fs_queue' # <<>> /\ fs_queue'[1] = e
        /\ Len(fs_queue') = Len(fs_queue)
        /\ \A i \in 2..Len(fs_queue) : fs_queue'[i] = fs_queue[i]
    BY <1>1, <1>2, <2>2, <2>3
  <2>5. QueueOk(fs_queue')
    BY <1>1, <2>4 DEF QueueOk
  <2> QED
    BY <1>3, <1>5, <2>1, <2>4, <2>5 DEF Started, Shown
<1> QED
  BY <1>4, <1>5

\* Every way of showing a frame does.
LEMMA ShowStep ==
  ASSUME CodyInv, fsm_cc_show_frame
  PROVE  CodyInv'
<1>1. CASE ShowNothing
  BY <1>1 DEF ShowNothing, showVars, CodyInv
<1>2. CASE fs_queue # <<>> /\ (ShowWalk \/ ShowJump \/ ShowPunch)
  <2> DEFINE d == ccact_lock(Head(fs_queue))
             last == d.count <= 1
  <2>1. Shown(d)
    BY <1>2 DEF ShowWalk, ShowJump, ShowPunch
  <2>2. QueueOk(fs_queue') /\ fdir_current' \in {"FDIR_LEFT", "FDIR_RIGHT"}
    BY <1>2, <2>1, ShownStep
  <2>3. Started(fs_queue', Airs) <=> (~last /\ d.evt_cc \in Airs)
    BY <1>2, <2>1, ShownStep
  <2>4. Started(fs_queue', HOOK) <=> (~last /\ d.evt_cc \in HOOK)
    BY <1>2, <2>1, ShownStep
  <2>5. d.evt_cc = fs_queue[1].evt_cc
    <3>1. Head(fs_queue) \in Descs /\ Head(fs_queue) = fs_queue[1]
      BY <1>2 DEF CodyInv, QueueOk
    <3>2. d.evt_cc = Head(fs_queue).evt_cc
      BY <3>1, LockStep, Zenon
    <3> QED
      BY <3>1, <3>2
  <2> HIDE DEF d, last
  <2>6. CASE ShowWalk
    <3>1. /\ d.evt_cc \in {"CCACT_NULL", "CCACT_WALK"} /\ sounding' = sounding
          /\ fevt' = IF d.evt_cc = "CCACT_WALK" THEN "CCACT_NULL" ELSE fevt
      BY <2>6 DEF ShowWalk, d
    <3>2. ~Started(fs_queue, Airs) /\ ~Started(fs_queue, HOOK)
      BY <2>5, <3>1 DEF Started, Airs, HOOK
    <3>3. fevt \notin Airs /\ ~sounding
      BY <3>2 DEF CodyInv
    <3>4. ~Started(fs_queue', Airs) /\ ~Started(fs_queue', HOOK)
      BY <2>3, <2>4, <3>1 DEF Airs, HOOK
    <3>5. fevt' \notin Airs
      BY <3>1, <3>3 DEF Airs
    <3> QED
      BY <2>2, <3>1, <3>3, <3>4, <3>5 DEF CodyInv
  <2>7. CASE ShowJump
    <3>1. /\ d.evt_cc \in Airs /\ fevt' = IF last THEN "CCACT_NULL" ELSE d.evt_cc
          /\ sounding' = IF d.evt_cc = "CCACT_JUMP_HOOK" THEN ~last ELSE sounding
      BY <2>7 DEF ShowJump, d, last
    <3>2. fevt' \in Airs <=> Started(fs_queue', Airs)
      BY <2>3, <3>1 DEF Airs
    <3>3. CASE d.evt_cc = "CCACT_JUMP_HOOK"
      <4>1. last \in BOOLEAN
        BY DEF last
      <4> QED
        BY <2>2, <2>4, <3>1, <3>2, <3>3, <4>1 DEF CodyInv, HOOK
    <3>4. CASE d.evt_cc # "CCACT_JUMP_HOOK"
      <4>1. ~Started(fs_queue, HOOK)
        BY <2>5, <3>4 DEF Started, HOOK
      <4>2. ~Started(fs_queue', HOOK)
        BY <2>4, <3>4 DEF HOOK
      <4>3. sounding' = sounding
        BY <3>1, <3>4
      <4> QED
        BY <2>2, <3>2, <4>1, <4>2, <4>3 DEF CodyInv
    <3> QED
      BY <3>3, <3>4
  <2>8. CASE ShowPunch
    <3>1. /\ d.evt_cc = "CCACT_PUNCH" /\ sounding' = sounding
          /\ fevt' \in {"CCACT_NULL", "CCACT_PUNCH"}
      BY <2>8 DEF ShowPunch, d
    <3>2. ~Started(fs_queue, Airs) /\ ~Started(fs_queue, HOOK)
      BY <2>5, <3>1 DEF Started, Airs, HOOK
    <3>3. ~Started(fs_queue', Airs) /\ ~Started(fs_queue', HOOK)
      BY <2>3, <2>4, <3>1 DEF Airs, HOOK
    <3>4. fevt' \notin Airs
      BY <3>1 DEF Airs
    <3> QED
      BY <2>2, <3>1, <3>2, <3>3, <3>4 DEF CodyInv
  <2> QED
    BY <1>2, <2>6, <2>7, <2>8
<1> QED
  BY <1>1, <1>2 DEF fsm_cc_show_frame, ShowWalk, ShowJump, ShowPunch

\* Nothing has been pressed yet.
LEMMA CodyInit == Init => CodyInv
<1> SUFFICES ASSUME Init
             PROVE  CodyInv
  OBVIOUS
<1>1. QueueOk(fs_queue) /\ \A evts : ~Started(fs_queue, evts)
  BY DEF Init, QueueOk, Started
<1>2. ~sounding /\ fevt \notin Airs
  BY DEF Init, Airs
<1>3. sounding \in BOOLEAN /\ fdir_current \in {"FDIR_LEFT", "FDIR_RIGHT"}
  BY DEF Init
<1> QED
  BY <1>1, <1>2, <1>3 DEF CodyInv

\* Every step keeps the queue, and what counts as under way.
LEMMA CodyInvariant == Spec => []CodyInv
<1>1. Init => CodyInv
  BY CodyInit
<1>2. CodyInv /\ [mr10_loop]_vars => CodyInv'
  <2>1. CodyInv /\ UNCHANGED vars => CodyInv'
    BY DEF CodyInv, vars, showVars
  <2> QED
    BY <2>1, DecodeStep, ShowStep DEF mr10_loop
<1> QED
  BY <1>1, <1>2, PTL DEF Spec

\* The looping sound plays exactly while a jump-hook is under way, whatever is
\* pressed when: fsm_cc_decode_frame never drops a hook that was started.
THEOREM HookSoundCorrect == Spec => []HookSound
<1>1. CodyInv => HookSound
  BY RunningIsStarted DEF CodyInv, HookSound, HOOK
<1> QED
  BY <1>1, CodyInvariant, PTL

-----------------------------------------------------------------------------
\* The height after each number of frames.
Heights ==
  <<
      0, 0, 4, 7, 11, 14, 18, 20, 23, 26, 28, 30, 32, 33, 35, 36, 37,
      37, 38, 38, 38, 38, 38, 37, 36, 35, 34, 33, 31, 29, 27, 25, 22,
      19, 16, 13, 10, 6, 2, 0, -2, -4>>

\* The table adds up the rises, entry by entry.
LEMMA HeightsAddUp ==
  /\ Len(vmptV_jump) = 41 /\ Heights[1] = 0
  /\ \A n \in 1..41 : Heights[n + 1] = Heights[n] + vmptV_jump[n]
  /\ \A n \in 0..41 : Heights[n + 1] \in Int
<1>1. \A n \in 1..10 : Heights[n + 1] = Heights[n] + vmptV_jump[n] /\ Heights[n + 1] \in Int
  BY DEF Heights, vmptV_jump
<1>2. \A n \in 11..20 : Heights[n + 1] = Heights[n] + vmptV_jump[n] /\ Heights[n + 1] \in Int
  BY DEF Heights, vmptV_jump
<1>3. \A n \in 21..30 : Heights[n + 1] = Heights[n] + vmptV_jump[n] /\ Heights[n + 1] \in Int
  BY DEF Heights, vmptV_jump
<1>4. \A n \in 31..41 : Heights[n + 1] = Heights[n] + vmptV_jump[n] /\ Heights[n + 1] \in Int
  BY DEF Heights, vmptV_jump
<1>5. Len(vmptV_jump) = 41 /\ Heights[1] = 0
  BY DEF Heights, vmptV_jump
<1> QED
  BY <1>1, <1>2, <1>3, <1>4, <1>5

\* Rise, which is recursive, is the table: it satisfies the equation.
LEMMA RiseStep ==
  /\ Rise[0] = 0
  /\ \A n \in 1..41 : Rise[n] = Rise[n - 1] + vmptV_jump[n]
<1> DEFINE Sums(r) == r = [n \in 0..Len(vmptV_jump) |-> IF n = 0 THEN 0 ELSE r[n - 1] + vmptV_jump[n]]
           w == [n \in 0..41 |-> Heights[n + 1]]
<1>1. Sums(w)
  <2>1. \A n \in 0..41 : Heights[n + 1] = IF n = 0 THEN 0 ELSE w[n - 1] + vmptV_jump[n]
    BY HeightsAddUp
  <2> QED
    BY <2>1, HeightsAddUp
<1> HIDE DEF w
<1>2. Rise = CHOOSE r : Sums(r)
  BY DEF Rise
<1>3. Sums(Rise)
  <2> HIDE DEF Sums
  <2> QED
    BY <1>1, <1>2, Zenon
<1> QED
  BY <1>3, HeightsAddUp

\* What the first frames add up to: never below the ground, and back on it after
\* the last but one.
LEMMA RiseTable ==
  /\ Rise[0] = 0 /\ Rise[1] = 0 /\ Rise[39] = 0
  /\ \A n \in 0..39 : Rise[n] \in Int /\ Rise[n] >= 0
  /\ \A n \in 1..39 : Rise[n] = Rise[n - 1] + vmptV_jump[n]
<1> DEFINE Same(n) == Rise[n] = Heights[n + 1]
<1>1. Same(0)
  BY RiseStep, HeightsAddUp
<1>2. ASSUME NEW n \in 0..40, Same(n) PROVE Same(n + 1)
  BY <1>2, RiseStep, HeightsAddUp
<1> HIDE DEF Same
<1>3. Same(0) /\ Same(1) /\ Same(2) /\ Same(3) /\ Same(4) /\ Same(5) /\ Same(6) /\ Same(7)
      /\ Same(8) /\ Same(9) /\ Same(10)
  BY <1>1, <1>2
<1>4. Same(11) /\ Same(12) /\ Same(13) /\ Same(14) /\ Same(15) /\ Same(16) /\ Same(17)
      /\ Same(18) /\ Same(19) /\ Same(20)
  BY <1>2, <1>3
<1>5. Same(21) /\ Same(22) /\ Same(23) /\ Same(24) /\ Same(25) /\ Same(26) /\ Same(27)
      /\ Same(28) /\ Same(29) /\ Same(30)
  BY <1>2, <1>4
<1>6. Same(31) /\ Same(32) /\ Same(33) /\ Same(34) /\ Same(35) /\ Same(36) /\ Same(37)
      /\ Same(38) /\ Same(39)
  BY <1>2, <1>5
<1>7. \A n \in 0..39 : Same(n)
  BY <1>3, <1>4, <1>5, <1>6
<1>8. \A n \in 0..39 : Heights[n + 1] \in Int /\ Heights[n + 1] >= 0
  <2>1. \A n \in 0..20 : Heights[n + 1] \in Int /\ Heights[n + 1] >= 0
    BY DEF Heights
  <2>2. \A n \in 21..39 : Heights[n + 1] \in Int /\ Heights[n + 1] >= 0
    BY DEF Heights
  <2> QED
    BY <2>1, <2>2
<1>9. Heights[1] = 0 /\ Heights[2] = 0 /\ Heights[40] = 0
  BY DEF Heights
<1>10. \A n \in 0..39 : Rise[n] = Heights[n + 1]
  BY <1>7 DEF Same
<1>11. Rise[0] = 0 /\ Rise[1] = 0 /\ Rise[39] = 0
  BY <1>9, <1>10
<1>12. \A n \in 0..39 : Rise[n] \in Int /\ Rise[n] >= 0
  BY <1>8, <1>10
<1> QED
  BY <1>11, <1>12, RiseStep

\* The height and the blows, behind the invariant of the queue.
FrontInv == CodyInv /\ Height /\ Blows /\ punch_init \in BOOLEAN /\ struck \in Nat

\* Nothing that is decoded moves him.
LEMMA FrontDecode ==
  ASSUME FrontInv, NEW K, fsm_cc_decode_frame(K)
  PROVE  FrontInv'
<1>1. CodyInv' /\ FrontKept
  BY DecodeStep DEF FrontInv
<1>2. UNCHANGED showVars /\ (fevt' \in Airs <=> fevt \in Airs)
  BY DEF fsm_cc_decode_frame, DecodePunch, DecodeNothing, DecodeHook, DecodeRight,
         DecodeLeftOrUp, DecodeStanding, DecodeFree, Decode, Airs
<1>3. Started(fs_queue', Airs) <=> Started(fs_queue, Airs)
  BY <1>1, <1>2 DEF FrontInv, CodyInv
<1>4. Height'
  BY <1>1, <1>2, <1>3 DEF FrontInv, Height, FrontKept, showVars
<1>5. Blows'
  BY <1>1, <1>2 DEF FrontInv, Blows, FrontKept, showVars
<1> QED
  BY <1>1, <1>2, <1>4, <1>5 DEF FrontInv, showVars

\* What is in front before and after it is shown.
LEMMA FrontShown ==
  ASSUME FrontInv, fs_queue # <<>>, NEW d, d = ccact_lock(Head(fs_queue)), Shown(d)
  PROVE  /\ \A evts : Started(fs_queue', evts) => /\ ~(d.count <= 1) /\ d.evt_cc \in evts
                                                  /\ fs_queue'[1].elapsed = d.elapsed
         /\ \A evts : ~(d.count <= 1) /\ d.evt_cc \in evts => Started(fs_queue', evts)
         /\ d.evt_cc = fs_queue[1].evt_cc
         /\ d.count \in Nat /\ d.elapsed \in Nat /\ fs_queue[1].elapsed \in Nat
         /\ d.elapsed = IF fs_queue[1].isCtor THEN fs_queue[1].elapsed + 1 ELSE 0
         /\ d.evt_cc \in Airs => d.count >= 1 /\ d.count + d.elapsed = 40
         /\ d.evt_cc = "CCACT_PUNCH" => d.count >= 1 /\ d.count + d.elapsed \in {20, 14}
<1>1. CodyInv
  BY DEF FrontInv
<1>2. Head(fs_queue) \in Descs /\ Head(fs_queue) = fs_queue[1]
  BY <1>1 DEF CodyInv, QueueOk
<1>3. fs_queue[1].elapsed \in Nat
  BY <1>2 DEF Descs, Records
<1>4. /\ d.evt_cc = Head(fs_queue).evt_cc /\ d.count \in Nat /\ d.elapsed \in Nat
      /\ d.elapsed = IF Head(fs_queue).isCtor THEN Head(fs_queue).elapsed + 1 ELSE 0
      /\ d.evt_cc \in Airs => d.count >= 1 /\ d.count + d.elapsed = 40
      /\ d.evt_cc = "CCACT_PUNCH" => d.count >= 1 /\ d.count + d.elapsed \in {20, 14}
  <2> DEFINE h == Head(fs_queue)
  <2>1. h \in Descs /\ d = ccact_lock(h)
    BY <1>2
  <2> HIDE DEF h
  <2>2. /\ d.evt_cc = h.evt_cc /\ d.count \in Nat /\ d.elapsed \in Nat
        /\ d.elapsed = IF h.isCtor THEN h.elapsed + 1 ELSE 0
        /\ d.evt_cc \in Airs => d.count >= 1 /\ d.count + d.elapsed = 40
        /\ d.evt_cc = "CCACT_PUNCH" => d.count >= 1 /\ d.count + d.elapsed \in {20, 14}
    BY <2>1, LockStep
  <2> QED
    BY <2>2 DEF h
<1>5. \A evts : /\ Started(fs_queue', evts) <=> (~(d.count <= 1) /\ d.evt_cc \in evts)
                /\ Started(fs_queue', evts) => fs_queue'[1].elapsed = d.elapsed
  BY <1>1, ShownStep
<1> QED
  BY <1>2, <1>3, <1>4, <1>5

\* A frame of a walk moves neither height nor fist.
LEMMA FrontWalk ==
  ASSUME FrontInv, ShowWalk
  PROVE  Height' /\ Blows' /\ punch_init' \in BOOLEAN /\ struck' \in Nat
<1> DEFINE d == ccact_lock(Head(fs_queue))
<1>1. /\ fs_queue # <<>> /\ d.evt_cc \in {"CCACT_NULL", "CCACT_WALK"} /\ Shown(d)
      /\ struck' = 0 /\ UNCHANGED <<pivot_v, punch_init>>
  BY DEF ShowWalk
<1> HIDE DEF d
<1>2. /\ \A evts : Started(fs_queue', evts) => d.evt_cc \in evts
      /\ d.evt_cc = fs_queue[1].evt_cc
  BY <1>1, FrontShown DEF d
<1>3. ~Started(fs_queue', Airs) /\ ~Started(fs_queue', PUNCH)
  BY <1>1, <1>2 DEF Airs, PUNCH
<1>4. ~Started(fs_queue, Airs)
  BY <1>1, <1>2 DEF Started, Airs
<1> QED
  BY <1>1, <1>3, <1>4 DEF FrontInv, Height, Blows

\* A frame of a jump: Rise goes one entry on, and the last frame lands.
LEMMA FrontJump ==
  ASSUME FrontInv, ShowJump
  PROVE  Height' /\ Blows' /\ punch_init' \in BOOLEAN /\ struck' \in Nat
<1> DEFINE d == ccact_lock(Head(fs_queue))
           last == d.count <= 1
<1>1. /\ fs_queue # <<>> /\ d.evt_cc \in Airs /\ Shown(d) /\ struck' = 0
      /\ pivot_v' = IF last THEN 0 ELSE pivot_v + vmptV_jump[d.elapsed + 1]
      /\ punch_init' = punch_init
  BY DEF ShowJump
<1> HIDE DEF d
<1>2. /\ \A evts : Started(fs_queue', evts) => d.evt_cc \in evts
      /\ Started(fs_queue', Airs) => ~last /\ fs_queue'[1].elapsed = d.elapsed
      /\ ~last => Started(fs_queue', Airs)
      /\ d.evt_cc = fs_queue[1].evt_cc
      /\ d.count \in Nat /\ d.elapsed \in Nat /\ fs_queue[1].elapsed \in Nat
      /\ d.elapsed = IF fs_queue[1].isCtor THEN fs_queue[1].elapsed + 1 ELSE 0
      /\ d.count >= 1 /\ d.count + d.elapsed = 40
  BY <1>1, FrontShown DEF d
<1>3. ~Started(fs_queue', PUNCH)
  BY <1>1, <1>2 DEF Airs, PUNCH
<1>4. pivot_v = Rise[d.elapsed]
  <2>1. CASE fs_queue[1].isCtor
    <3>1. Started(fs_queue, Airs)
      BY <1>1, <1>2, <2>1 DEF Started
    <3> QED
      BY <1>2, <2>1, <3>1 DEF FrontInv, Height
  <2>2. CASE ~fs_queue[1].isCtor
    <3>1. ~Started(fs_queue, Airs)
      BY <2>2 DEF Started
    <3> QED
      BY <1>2, <2>2, <3>1, RiseTable DEF FrontInv, Height
  <2> QED
    BY <2>1, <2>2
<1>5. Height'
  <2>1. CASE last
    BY <1>1, <1>2, <2>1 DEF Height
  <2>2. CASE ~last
    <3>1. d.elapsed + 1 \in 1..39 /\ (d.elapsed + 1) - 1 = d.elapsed
      BY <1>2, <2>2
    <3>2. Rise[d.elapsed + 1] = Rise[d.elapsed] + vmptV_jump[d.elapsed + 1]
      BY <3>1, RiseTable
    <3> QED
      BY <1>1, <1>2, <1>4, <2>2, <3>2 DEF Height
  <2> QED
    BY <2>1, <2>2
<1> QED
  BY <1>1, <1>3, <1>5 DEF FrontInv, Blows

\* struck counts the frame at which a punch strikes; at the end it has.
LEMMA FrontPunch ==
  ASSUME FrontInv, ShowPunch
  PROVE  /\ Height' /\ Blows' /\ punch_init' \in BOOLEAN /\ struck' \in Nat
         /\ Running(PUNCH) /\ Head(fs_queue).count = 1 => struck' = 1
<1> DEFINE d == ccact_lock(Head(fs_queue))
           last == d.count <= 1
           at == IF punch_init THEN 2 ELSE 7
           over == IF punch_init THEN 6 ELSE 11
<1>1. /\ fs_queue # <<>> /\ d.evt_cc = "CCACT_PUNCH" /\ Shown(d) /\ pivot_v' = pivot_v
      /\ punch_init' = (~last /\ (punch_init \/ d.elapsed >= over))
      /\ struck' = (IF d.elapsed = 0 THEN 0 ELSE struck) + (IF d.elapsed = at THEN 1 ELSE 0)
  BY DEF ShowPunch, Strikes, Over
<1> HIDE DEF d
<1>2. /\ \A evts : Started(fs_queue', evts) => d.evt_cc \in evts
      /\ Started(fs_queue', PUNCH) => ~last /\ fs_queue'[1].elapsed = d.elapsed
      /\ d.evt_cc = fs_queue[1].evt_cc
      /\ d.count \in Nat /\ d.elapsed \in Nat /\ fs_queue[1].elapsed \in Nat
      /\ d.elapsed = IF fs_queue[1].isCtor THEN fs_queue[1].elapsed + 1 ELSE 0
      /\ d.count >= 1 /\ d.count + d.elapsed \in {20, 14}
  BY <1>1, FrontShown DEF d, PUNCH
<1>3. ~Started(fs_queue', Airs) /\ ~Started(fs_queue, Airs)
  BY <1>1, <1>2 DEF Airs, Started
<1>4. punch_init \in BOOLEAN /\ struck \in Nat
  BY DEF FrontInv
<1>5. struck' = IF d.elapsed >= at THEN 1 ELSE 0
  <2>1. CASE fs_queue[1].isCtor
    <3>1. Started(fs_queue, PUNCH)
      BY <1>1, <1>2, <2>1 DEF Started, PUNCH
    <3>2. struck = IF fs_queue[1].elapsed >= at THEN 1 ELSE 0
      BY <3>1 DEF FrontInv, Blows
    <3> QED
      BY <1>1, <1>2, <2>1, <3>2
  <2>2. CASE ~fs_queue[1].isCtor
    BY <1>1, <1>2, <2>2
  <2> QED
    BY <2>1, <2>2
<1>6. Blows'
  <2> SUFFICES ASSUME Started(fs_queue', PUNCH)
               PROVE  struck' = IF fs_queue'[1].elapsed >= (IF punch_init' THEN 2 ELSE 7) THEN 1 ELSE 0
    BY DEF Blows
  <2>1. ~last /\ fs_queue'[1].elapsed = d.elapsed
    BY <1>2
  <2>2. CASE punch_init
    <3>1. punch_init' = TRUE
      BY <1>1, <2>1, <2>2
    <3> QED
      BY <1>5, <2>1, <2>2, <3>1
  <2>3. CASE ~punch_init /\ d.elapsed >= 11
    <3>1. punch_init' = TRUE
      BY <1>1, <2>1, <2>3
    <3> QED
      BY <1>2, <1>5, <2>1, <2>3, <3>1
  <2>4. CASE ~punch_init /\ ~(d.elapsed >= 11)
    <3>1. punch_init' = FALSE
      BY <1>1, <2>1, <2>4
    <3> QED
      BY <1>5, <2>1, <2>4, <3>1
  <2> QED
    BY <2>2, <2>3, <2>4
<1>7. Height'
  BY <1>1, <1>3 DEF FrontInv, Height
<1>8. punch_init' \in BOOLEAN
  BY <1>1
<1>9. Running(PUNCH) /\ Head(fs_queue).count = 1 => struck' = 1
  <2> SUFFICES ASSUME Head(fs_queue).count = 1, Head(fs_queue).isCtor
               PROVE  struck' = 1
    BY DEF Running
  <2>1. d.count = 1
    BY DEF d, ccact_lock
  <2> QED
    BY <1>2, <1>5, <2>1
<1> QED
  BY <1>5, <1>6, <1>7, <1>8, <1>9

\* Every step keeps what is known of the front.
LEMMA FrontStep == FrontInv /\ [mr10_loop]_vars => FrontInv'
<1> SUFFICES ASSUME FrontInv, [mr10_loop]_vars
             PROVE  FrontInv'
  OBVIOUS
<1>1. CASE UNCHANGED vars
  BY <1>1 DEF vars, showVars, FrontInv, CodyInv, Height, Blows
<1>2. CASE \E K \in SUBSET Buttons : fsm_cc_decode_frame(K)
  BY <1>2, FrontDecode
<1>3. CASE fsm_cc_show_frame
  <2>1. CodyInv'
    BY <1>3, ShowStep DEF FrontInv
  <2>2. CASE ShowNothing
    <3>1. UNCHANGED <<fs_queue, pivot_v, punch_init, struck>>
      BY <2>2 DEF ShowNothing, showVars
    <3> QED
      BY <2>1, <3>1 DEF FrontInv, Height, Blows
  <2>3. CASE ShowWalk \/ ShowJump \/ ShowPunch
    BY <2>1, <2>3, FrontWalk, FrontJump, FrontPunch DEF FrontInv
  <2> QED
    BY <1>3, <2>2, <2>3 DEF fsm_cc_show_frame
<1> QED
  BY <1>1, <1>2, <1>3 DEF mr10_loop

\* Height and blows are right throughout.
LEMMA FrontInvariant == Spec => []FrontInv
<1>1. Init => FrontInv
  <2> SUFFICES ASSUME Init PROVE FrontInv
    OBVIOUS
  <2>1. \A evts : ~Started(fs_queue, evts)
    BY DEF Init, Started
  <2>2. pivot_v = 0 /\ punch_init = FALSE /\ struck = 0
    BY DEF Init
  <2> QED
    BY <2>1, <2>2, CodyInit DEF FrontInv, Height, Blows
<1> QED
  BY <1>1, FrontStep, PTL DEF Spec

\* He is off the ground exactly while a jump that has begun is in front, at the
\* height the frames so far add up to, never below the ground, and is back on
\* it before the last frame resets pivot_v.
THEOREM AirborneCorrect == Spec => []Airborne
<1>1. FrontInv => Airborne
  <2> SUFFICES ASSUME FrontInv PROVE Airborne
    OBVIOUS
  <2>1. CodyInv /\ QueueOk(fs_queue)
    BY DEF FrontInv, CodyInv
  <2>2. Running(Airs) <=> Started(fs_queue, Airs)
    BY <2>1, RunningIsStarted
  <2>3. fevt \in Airs <=> Running(Airs)
    BY <2>1, <2>2 DEF CodyInv
  <2>4. ~Running(Airs) => pivot_v = 0
    BY <2>2 DEF FrontInv, Height
  <2>5. ASSUME Running(Airs)
        PROVE  LET d == Head(fs_queue)
               IN /\ pivot_v = Rise[d.elapsed + 1] /\ pivot_v >= 0
                  /\ d.count = 1 => pivot_v = 0
    <3> DEFINE d == Head(fs_queue)
    <3>1. d = fs_queue[1] /\ d \in Descs /\ d.isCtor /\ d.evt_cc \in Airs
      BY <2>1, <2>5 DEF Running, QueueOk
    <3>2. d.count \in Nat /\ d.elapsed \in Nat /\ d.count >= 1 /\ d.count + d.elapsed = 39
      BY <3>1 DEF Descs, Records, Timed
    <3>3. pivot_v = Rise[d.elapsed + 1]
      BY <2>2, <2>5, <3>1 DEF FrontInv, Height
    <3> HIDE DEF d
    <3>4. d.elapsed + 1 \in 0..39 /\ (d.count = 1 => d.elapsed + 1 = 39)
      BY <3>2
    <3>5. pivot_v >= 0 /\ (d.count = 1 => pivot_v = 0)
      BY <3>3, <3>4, RiseTable
    <3> QED
      BY <3>3, <3>5 DEF d
  <2> QED
    BY <2>3, <2>4, <2>5 DEF Airborne
<1> QED
  BY <1>1, FrontInvariant, PTL

\* A punch that is shown to its end strikes exactly once, first or in the loop,
\* also when punch_init changes while it is shown.
THEOREM StrikesCorrect == Spec => StrikesOnce
<1>1. FrontInv /\ [mr10_loop]_vars
        => [Running({"CCACT_PUNCH"}) /\ stage = "show" /\ Head(fs_queue).count = 1
              => struck' = 1]_vars
  <2> SUFFICES ASSUME FrontInv, mr10_loop, Running(PUNCH), stage = "show",
                      Head(fs_queue).count = 1
               PROVE  struck' = 1
    BY DEF PUNCH
  <2>1. fsm_cc_show_frame
    BY DEF mr10_loop, fsm_cc_decode_frame, DecodePunch, DecodeNothing, DecodeHook,
           DecodeRight, DecodeLeftOrUp, DecodeStanding, DecodeFree, Decode
  <2>2. fs_queue # <<>> /\ Head(fs_queue) \in Descs /\ Head(fs_queue).evt_cc = "CCACT_PUNCH"
    BY DEF Running, PUNCH, FrontInv, CodyInv, QueueOk
  <2> DEFINE d == ccact_lock(Head(fs_queue))
  <2>3. d.evt_cc = "CCACT_PUNCH"
    BY <2>2, LockStep, Zenon
  <2>4. ShowPunch
    BY <2>1, <2>2, <2>3 DEF fsm_cc_show_frame, ShowNothing, ShowWalk, ShowJump, Airs
  <2> QED
    BY <2>4, FrontPunch
<1> QED
  BY <1>1, FrontInvariant, PTL DEF Spec, StrikesOnce
=============================================================================
