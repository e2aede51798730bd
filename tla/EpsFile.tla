------------------------------- MODULE EpsFile -------------------------------
(***************************************************************************)
(* CFile_eps (midi_piano/CFile_eps.hxx) as the program uses it: the object *)
(* "record" is filled by the player and saved, the object "play" is        *)
(* loaded, played chunk by chunk and sought in, and the player's clock     *)
(* m_CurTiming follows it.                                                 *)
(*                                                                         *)
(* A chunk is its rTimeToThis, the gap to the previous event in            *)
(* milliseconds: note and velocity ride along unchanged.  Chunk n of the   *)
(* buffer is element n+1 of its sequence.  The width of the gap and of the *)
(* clock are parameters.                                                   *)
(*                                                                         *)
(* The window thread and the player thread share "play" and the clock.  A  *)
(* drag of the slider stores to both with the player parked, the first     *)
(* time; its resume_ leaves a completion behind (PlayerThread), on which   *)
(* the suspend of every later drag may return with the player running: the *)
(* stores of the drag then fall between its steps, or are lost in the      *)
(* middle of one, as the optimised build keeps the cursor in a register    *)
(* from its increment to the end of ReadChunk.                             *)
(*                                                                         *)
(* at, file.at and score are history: when, counted from the start of the  *)
(* recording, each event really happened.  So are drags, the drags begun   *)
(* (2 stands for more), and spoilt: a chunk was stored outside its block,  *)
(* and anything may have become of it.                                     *)
(***************************************************************************)
EXTENDS Integers, Sequences, FiniteSetsExt, SequencesExt

CONSTANTS
  eps_default_chunk_size,  \* chunks a new object has room for (80000)
  eps_realloc_size,        \* chunks added when it is full (4000)
  ChunkBytes,              \* sizeof (eps_chunk) (4)
  WordRange,               \* values of rTimeToThis (2^16)
  ClockRange,              \* values of a DWORD of milliseconds (2^32)
  SliderUnit,              \* milliseconds per slider position (1000)
  Gaps,                    \* milliseconds that may pass between two events
  MaxEvents,               \* bound: events in a recording
  MaxOverrun               \* bound: cursor positions past the end of a file

ASSUME SizesAssumption ==
  /\ {eps_default_chunk_size, eps_realloc_size, ChunkBytes, WordRange,
      ClockRange, SliderUnit, MaxOverrun} \subseteq Nat \ {0}
  /\ ClockRange % WordRange = 0
  /\ Gaps \subseteq Nat
  /\ MaxEvents \in Nat

Objects == {"record", "play"}

VARIABLES
  mode,                \* m_cur_event
  now,                 \* the clock
  m_cap_size, block,   \* of each object: chunks it counts on, bytes it has
  spoilt,
  rec, m_timeAgo,      \* "record": its chunks up to m_cur_ptr, time of the last
  at,
  file,                \* the file on disk
  play, m_cur_ptr,     \* "play": its chunks up to m_readmax, its cursor
  m_totaltime,
  m_CurTiming,
  turn, delay,         \* do_play_eps: what is next, and the gap it delays
  dragging, ms,        \* OnSlider is between its two stores, its position
  asserted,            \* ATLASSERT (FALSE) was reached
  m_ButtonRecordStatusDone, m_ButtonLoadFile,
  score, drags

sizes == <<m_cap_size, block, spoilt>>
recVars == <<rec, m_timeAgo, at>>
buttonVars == <<m_ButtonRecordStatusDone, m_ButtonLoadFile>>
readVars == <<m_cur_ptr, turn, delay>>
dragVars == <<dragging, ms, drags>>
loadVars == <<play, m_totaltime, score>>
playVars == <<loadVars, readVars, m_CurTiming, dragVars, asserted>>
fileVars == <<mode, now, sizes, recVars, file, playVars, buttonVars>>

NoFile == [exists |-> FALSE, total_ms |-> 0, chunks |-> <<>>, at |-> <<>>]

EpsInit ==
  /\ mode = "USER"
  /\ now \in 0..ClockRange - 1
  /\ m_cap_size = [o \in Objects |-> eps_default_chunk_size]
  /\ block = [o \in Objects |-> ChunkBytes * eps_default_chunk_size]
  /\ spoilt = FALSE
  /\ rec = <<>> /\ m_timeAgo = 0 /\ at = <<>>
  /\ file = NoFile
  /\ play = <<>> /\ m_cur_ptr = 0 /\ m_totaltime = 0 /\ m_CurTiming = 0
  /\ turn = "poll" /\ delay = 0
  /\ dragging = FALSE /\ ms = 0 /\ drags = 0
  /\ asserted = FALSE
  /\ m_ButtonRecordStatusDone = 0 /\ m_ButtonLoadFile = 0
  /\ score = <<>>

\* The sum of the first n gaps of s, as a DWORD: what the loops of calc_total
\* and SetPos have added up after n chunks.
TimeOf(s, n) ==
  LET time[i \in 0..Len(s)] ==
        IF i = 0 THEN 0 ELSE (time[i - 1] + s[i]) % ClockRange
  IN  time[n]

\* Mutant of ResetRecord: m_timeAgo is not set.
ResetRecordNoTime ==
  /\ mode = "USER"
  /\ mode' = "RECORDING"
  /\ rec' = <<>> /\ at' = <<>>
  /\ UNCHANGED <<now, m_timeAgo, sizes, file, playVars, buttonVars>>

\* case EVENT_RECV_RECORD_START: ResetRecord
ResetRecord ==
  /\ mode = "USER"
  /\ mode' = "RECORDING"
  /\ m_timeAgo' = now
  /\ rec' = <<>> /\ at' = <<>>
  /\ UNCHANGED <<now, sizes, file, playVars, buttonVars>>

\* n chunks are stored in an object, resized if it counts on fewer: realloc is
\* passed the new capacity as its size in bytes.
Resize(o, n, size) ==
  /\ IF n > m_cap_size[o]
     THEN /\ m_cap_size' = [m_cap_size EXCEPT ![o] = size]
          /\ block' = [block EXCEPT ![o] = size]
     ELSE UNCHANGED <<m_cap_size, block>>
  /\ spoilt' = (spoilt \/ n * ChunkBytes > block'[o])

\* rTimeToThis = timeCur - m_timeAgo, a DWORD kept in a WORD
Gap(timeCur) == ((timeCur - m_timeAgo) % ClockRange) % WordRange

\* d milliseconds after the last event do_play_with_record appends the next.
AppendChunk(d) ==
  /\ mode = "RECORDING"
  /\ Len(rec) < MaxEvents
  /\ now' = (now + d) % ClockRange
  /\ Resize("record", Len(rec) + 1, m_cap_size["record"] + eps_realloc_size)
  /\ rec' = Append(rec, Gap(now'))
  /\ m_timeAgo' = now'
  /\ at' = Append(at, d + (IF at = <<>> THEN 0 ELSE Last(at)))
  /\ UNCHANGED <<mode, file, playVars, buttonVars>>

\* case EVENT_RECV_RECORD_END, and OnSetRecord after it
RecordEnd ==
  /\ mode = "RECORDING"
  /\ mode' = "USER"
  /\ m_ButtonRecordStatusDone' = 1
  /\ UNCHANGED <<now, sizes, recVars, file, playVars, m_ButtonLoadFile>>

\* OnSaveEps, enabled between recordings: WriteEPS
WriteEPS ==
  /\ mode = "USER" /\ m_ButtonRecordStatusDone # 0
  /\ file' = [exists |-> TRUE, total_ms |-> TimeOf(rec, Len(rec)),
              chunks |-> rec, at |-> at]
  /\ UNCHANGED <<mode, now, sizes, recVars, playVars, buttonVars>>

\* OnLoadEps: ReadEPS of the saved file
ReadEPS ==
  /\ mode = "USER"
  /\ file.exists
  /\ m_ButtonLoadFile' = 1
  /\ Resize("play", Len(file.chunks), Len(file.chunks))
  /\ play' = file.chunks
  /\ m_totaltime' = file.total_ms
  /\ score' = file.at
  /\ UNCHANGED <<mode, now, recVars, file, readVars, m_CurTiming, dragVars, asserted,
                 m_ButtonRecordStatusDone>>

\* case EVENT_RECV_PLAY_EPS: m_CurTiming = 0; ResetPlay
ResetPlay ==
  /\ mode = "USER" /\ m_ButtonLoadFile # 0
  /\ mode' = "PLAY_EPS"
  /\ m_CurTiming' = 0
  /\ m_cur_ptr' = 0
  /\ UNCHANGED <<now, sizes, recVars, file, loadVars, turn, delay, dragVars, asserted,
                 buttonVars>>

\* The player waits in the suspend of the first drag, which it serves between
\* two rounds.
Parked == dragging /\ drags = 1

\* ReadChunk, called at the start of a round of do_play_eps or at pp.  Past the
\* last chunk the first attempt moves the cursor by one, the next ones by two,
\* and the round is over.
Fetch ==
  /\ mode = "PLAY_EPS" /\ ~Parked
  /\ turn \in {"poll", "pp"}
  /\ IF m_cur_ptr < Len(play)
     THEN /\ m_cur_ptr' = m_cur_ptr + 1
          /\ delay' = play[m_cur_ptr + 1]
          /\ turn' = "delay"
     ELSE /\ m_cur_ptr < Len(play) + MaxOverrun
          /\ m_cur_ptr' = m_cur_ptr + (IF m_cur_ptr = Len(play) THEN 1 ELSE 2)
          /\ delay' = 0
          /\ turn' = "poll"

ReadChunk ==
  /\ Fetch
  /\ UNCHANGED <<mode, now, sizes, recVars, file, loadVars, m_CurTiming, dragVars,
                 asserted, buttonVars>>

\* After its delay the chunk moves the clock: m_CurTiming += time.  One without
\* a delay is followed by the next in the same round (goto pp).
Advance ==
  /\ turn = "delay" /\ ~Parked
  /\ m_CurTiming' = (m_CurTiming + delay) % ClockRange
  /\ delay' = 0
  /\ turn' = IF delay = 0 THEN "pp" ELSE "poll"

AddTiming ==
  /\ Advance
  /\ UNCHANGED <<mode, now, sizes, recVars, file, loadVars, m_cur_ptr, dragVars,
                 asserted, buttonVars>>

\* Mutant of Reaching: the test before the sum.
ReachingLate(to) == {id \in 0..Len(play) - 1 : TimeOf(play, id) >= to}

\* The chunks at whose end at least "to" milliseconds have been played.
Reaching(to) == {id \in 0..Len(play) - 1 : TimeOf(play, id + 1) >= to}

\* OnSlider with TB_ENDTRACK: suspend, and SetPos (c * SliderUnit) on the first
\* such chunk, a store that a ReadChunk may be in the middle of and overwrite.
SetPos ==
  /\ mode = "PLAY_EPS" /\ ~dragging
  /\ drags = 0 => turn = "poll"
  /\ dragging' = TRUE
  /\ drags' = IF drags = 0 THEN 1 ELSE 2
  /\ \E c \in 0..m_totaltime \div SliderUnit :
       LET to == c * SliderUnit IN
       /\ ms' = to
       /\ asserted' = (asserted \/ Reaching(to) = {})
       /\ \/ /\ m_cur_ptr' = IF Reaching(to) = {} THEN m_cur_ptr ELSE Min(Reaching(to))
             /\ UNCHANGED <<turn, delay>>
          \/ drags # 0 /\ Fetch
  /\ UNCHANGED <<mode, now, sizes, recVars, file, loadVars, m_CurTiming, buttonVars>>

\* m_CurTiming = c * 1000, which may be lost in the middle of the player's +=;
\* and resume_.
SetTiming ==
  /\ dragging
  /\ dragging' = FALSE /\ ms' = 0
  /\ \/ m_CurTiming' = ms /\ UNCHANGED <<turn, delay>>
     \/ Advance
  /\ UNCHANGED <<mode, now, sizes, recVars, file, loadVars, m_cur_ptr, drags, asserted,
                 buttonVars>>

\* case EVENT_RECV_PLAY while a file is played.  Bound: not after a drag, whose
\* completion left behind the calls of the other handlers return on, too.
StopPlay ==
  /\ mode = "PLAY_EPS" /\ turn = "poll"
  /\ drags = 0
  /\ mode' = "USER"
  /\ UNCHANGED <<now, sizes, recVars, file, playVars, buttonVars>>

\* What follows a store outside its block is anything, and is not followed.
EpsNext ==
  \/ /\ ~spoilt
     /\ \/ ResetRecord \/ RecordEnd \/ \E d \in Gaps : AppendChunk(d)
        \/ WriteEPS \/ ReadEPS
        \/ ResetPlay \/ ReadChunk \/ AddTiming \/ StopPlay
        \/ SetPos \/ SetTiming
  \/ spoilt /\ UNCHANGED fileVars

EpsSpec == EpsInit /\ [][EpsNext]_fileVars

-----------------------------------------------------------------------------
(***************************************************************************)
(* Properties.                                                             *)
(***************************************************************************)

\* Chunks read so far.
Played == Min({m_cur_ptr, Len(play)})

\* The clock, with the gap of the chunk that is waiting to sound.
Clock == (m_CurTiming + delay) % ClockRange

\* "WORD rTimeToThis; //  rel time to this" (line 23): what was recorded, saved
\* and loaded is played at the times at which it happened, whatever the clock
\* was and wherever it wrapped; until a drag, or a recording that outgrew the
\* first block.
PlaysAsRecorded ==
  mode = "PLAY_EPS" /\ drags = 0 /\ ~spoilt =>
    Clock = IF Played = 0 THEN 0 ELSE score[Played]

\* "ATLASSERT (FALSE)" after the loop of SetPos (line 176): every position the
\* slider offers lies in the file, unless the recording is empty.  And from the
\* first drag to the second the clock the panel shows is never behind the music,
\* and ahead of it by no more than the longest gap.
SeekLands ==
  /\ asserted => spoilt \/ play = <<>>
  /\ drags = 1 /\ ~dragging /\ ~spoilt =>
       /\ Clock >= TimeOf(play, Played)
       /\ \E i \in 0..Len(play) :
            Clock - TimeOf(play, Played) <= IF i = 0 THEN 0 ELSE play[i]

=============================================================================
