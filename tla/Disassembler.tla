---------------------------- MODULE Disassembler ----------------------------
(***************************************************************************)
(* lr35902_disassembler2 (dmgdraft/core/disassembler.c): the listing of a  *)
(* cartridge, bank by bank.  getaddrmark collects where the branches of a  *)
(* bank lead, bankdis lists its instructions, bankout joins the two and    *)
(* prints.  When the listing is out the CPU of Lr35902 runs the same       *)
(* cartridge, and its steps are compared with the lines.                   *)
(*                                                                         *)
(* A bank has BankSize bytes for 0x4000.  A printed line is the address,   *)
(* the opcode and the operand as they are shown; the words are left out.   *)
(* Behind the last bank the map of the file may end with a fault, or the   *)
(* bytes of another mapping follow.                                        *)
(***************************************************************************)
EXTENDS Lr35902, SequencesExt

CONSTANTS
  RomImages,           \* the cartridges
  BankSize,
  promsize,            \* banks of a cartridge
  PastFile             \* the bytes that may follow the file

ASSUME DisassemblerAssumption ==
  /\ BankSize \in Nat \ {0} /\ promsize \in Nat \ {0}
  /\ PastFile \subseteq Byte
  /\ RomImages \subseteq [0 .. promsize * BankSize - 1 -> Byte]

VARIABLES
  phase,               \* "mark", "dis", "out", "run" or "fault"
  bank,                \* bankid
  addrcount,           \* the cursor in the bank
  armark_list,         \* where branches lead: a sequence of struct addrmark
  instr_list,          \* a sequence of struct instr_sec
  listing              \* the banks printed so far

disVars == <<phase, bank, addrcount, armark_list, instr_list, listing>>
vars == <<rom, cpuVars, disVars>>

g_addrb == IF bank = 0 THEN 0 ELSE BankSize

\* The opcodes of the three trackers, the unconditional one first.
Longs  == <<\hC3, \hC2, \hD2, \hCA, \hDA>>
Calls  == <<\hCD, \hC4, \hD4, \hCC, \hDC>>
Shorts == <<\h18, \h20, \h30, \h28, \h38>>
Trackers == [long |-> Longs, call |-> Calls, short |-> Shorts]

\* Mutant of cpu_lens: STOP is taken for one byte.
StopOneByte(opcode) ==
  IF opcode \in {\h01, \h11, \h21, \h31, \h08, \hEA, \hFA}
                \cup ToSet(Longs) \cup ToSet(Calls) THEN 3
  ELSE IF \/ opcode < \h40 /\ Column(opcode) = 6
          \/ opcode > \hBF /\ Column(opcode) = 6
          \/ opcode \in {\hCB, \hE0, \hE2, \hE8, \hF0, \hF2, \hF8} \cup ToSet(Shorts)
       THEN 2 ELSE 1

cpu_lens(opcode) ==
  IF opcode \in {\h01, \h11, \h21, \h31, \h08, \hEA, \hFA}
                \cup ToSet(Longs) \cup ToSet(Calls) THEN 3
  ELSE IF \/ opcode < \h40 /\ Column(opcode) = 6
          \/ opcode > \hBF /\ Column(opcode) = 6
          \/ opcode \in {\h10, \hCB, \hE0, \hE2, \hE8, \hF0, \hF2, \hF8} \cup ToSet(Shorts)
       THEN 2 ELSE 1

tempBank(a) == rom[bank * BankSize + a]
Behind(a) == bank * BankSize + a \notin DOMAIN rom
\* The byte at a, when it may lie behind the bank or the file.
BytesAt(a) == IF Behind(a) THEN PastFile ELSE {tempBank(a)}

\* The word after the opcode; none is read in the last two bytes of a bank.
addrTemp16(a) ==
  IF a <= BankSize - 3 THEN tempBank(a + 1) + 256 * tempBank(a + 2) ELSE 0

\* Mutant of ShortTarget: counted from the operand.
ShortFromOperand(a, d) == Word(a + 1 + Signed(d))

ShortTarget(a, d) == Word(a + 2 + Signed(d))

(***************************************************************************)
(* lr35902_getaddrmark                                                     *)
(***************************************************************************)
Mark(baddr) == [baddr |-> baddr, long |-> <<>>, call |-> <<>>, short |-> <<>>]

\* The mark of a target, made when there is none.  The search does not cut
\* the sum to the 16 bits of the field.
FoundOrNew(target) ==
  LET found == SelectInSeq(armark_list, LAMBDA mk : mk.baddr = target + g_addrb)
  IN  IF found # 0 THEN <<armark_list, found>>
      ELSE <<Append(armark_list, Mark(Word(target + g_addrb))), Len(armark_list) + 1>>

\* The list of marks with this branch in the tracker of its kind.
Tracked(kind, target, opcode) ==
  LET place == FoundOrNew(target)
  IN  [place[1] EXCEPT ![place[2]][kind] =
         Append(@, [addr |-> addrcount + g_addrb, ccbranch |-> opcode # Trackers[kind][1]])]

getaddrmark ==
  /\ phase = "mark" /\ addrcount < BankSize
  /\ LET opcode == tempBank(addrcount)
     IN  /\ addrcount' = addrcount + cpu_lens(opcode)
         /\ \/ /\ opcode \in ToSet(Longs)
               /\ armark_list' = Tracked("long", addrTemp16(addrcount), opcode)
            \/ /\ opcode \in ToSet(Calls)
               /\ armark_list' = Tracked("call", addrTemp16(addrcount), opcode)
            \/ /\ opcode \in ToSet(Shorts)
               /\ \E d \in BytesAt(addrcount + 1) :
                    armark_list' = Tracked("short", ShortTarget(addrcount, d), opcode)
            \/ /\ \A kind \in DOMAIN Trackers : opcode \notin ToSet(Trackers[kind])
               /\ UNCHANGED armark_list
  /\ UNCHANGED <<rom, cpuVars, phase, bank, instr_list, listing>>

\* The return of getaddrmark and the call of bankdis.
MarksDone ==
  /\ phase = "mark" /\ addrcount >= BankSize
  /\ phase' = "dis" /\ addrcount' = 0
  /\ UNCHANGED <<rom, cpuVars, bank, armark_list, instr_list, listing>>

(***************************************************************************)
(* lr35902_bankdis                                                         *)
(***************************************************************************)
NoOperand == -1

\* What the line shows after the name: the target of JR with the base of
\* the bank, the word of the other branches as it is.
Operand(a, opcode) ==
  LET d8 == addrTemp16(a) % 256
  IN  IF opcode \in ToSet(Shorts) THEN Word(g_addrb + ShortTarget(a, d8))
      ELSE CASE cpu_lens(opcode) = 3 -> addrTemp16(a)
             [] opcode \notin {\h10, \hE2, \hF2} /\ cpu_lens(opcode) = 2 -> d8
             [] OTHER -> NoOperand

bankdis ==
  /\ phase = "dis" /\ addrcount < BankSize
  /\ LET opcode == tempBank(addrcount)
     IN  /\ addrcount' = addrcount + cpu_lens(opcode)
         /\ \E shown \in IF opcode = \hCB THEN BytesAt(addrcount + 1)
                         ELSE {Operand(addrcount, opcode)} :
              instr_list' = Append(instr_list,
                [addr |-> addrcount + g_addrb, opcode |-> opcode, operand |-> shown,
                 instr_len |-> cpu_lens(opcode)])
  /\ UNCHANGED <<rom, cpuVars, phase, bank, armark_list, listing>>

ListDone ==
  /\ phase = "dis" /\ addrcount >= BankSize
  /\ phase' = "out"
  /\ UNCHANGED <<rom, cpuVars, bank, addrcount, armark_list, instr_list, listing>>

\* A short branch, or the prefix CB, in the last byte of the file.
Fault ==
  /\ phase \in {"mark", "dis"} /\ addrcount < BankSize
  /\ Behind(addrcount + 1)
  /\ tempBank(addrcount) \in IF phase = "mark" THEN ToSet(Shorts) ELSE {\hCB}
  /\ phase' = "fault"
  /\ UNCHANGED <<rom, cpuVars, bank, addrcount, armark_list, instr_list, listing>>

(***************************************************************************)
(* lr35902_bankout, and the loop over the banks                            *)
(***************************************************************************)
\* The mark attached to a line: the last one of its address.
Attach(isec) ==
  LET found == SelectLastInSeq(armark_list, LAMBDA mk : mk.baddr = isec.addr)
  IN  IF found = 0 THEN Mark(isec.addr) ELSE armark_list[found]

bankout ==
  /\ phase = "out"
  /\ listing' = Append(listing,
                  [k \in DOMAIN instr_list |->
                     [line |-> instr_list[k], attach |-> Attach(instr_list[k])]])
  /\ armark_list' = <<>> /\ instr_list' = <<>> /\ addrcount' = 0
  /\ bank' = bank + 1
  /\ phase' = IF bank + 1 = promsize THEN "run" ELSE "mark"
  /\ UNCHANGED <<rom, cpuVars>>

Init ==
  /\ rom \in RomImages
  /\ CpuInit
  /\ phase = "mark" /\ bank = 0 /\ addrcount = 0
  /\ armark_list = <<>> /\ instr_list = <<>> /\ listing = <<>>

Run == phase = "run" /\ (Optick \/ Wake) /\ UNCHANGED disVars

Next ==
  getaddrmark \/ MarksDone \/ bankdis \/ ListDone \/ Fault \/ bankout \/ Run

Spec == Init /\ [][Next]_vars

-----------------------------------------------------------------------------
\* What the CPU makes of the opcode at an address, with all conditions that
\* test for a set flag met, or all that test for a clear one.
AfterBranch(a, f) == Execute([Reset EXCEPT !.PC = Word(a + 1), !.F = f], rom[a])
TakenFrom(a) ==
  IF AfterBranch(a, 0).clks >= AfterBranch(a, 144).clks
  THEN AfterBranch(a, 0).PC ELSE AfterBranch(a, 144).PC
Conditional(a) == AfterBranch(a, 0).clks # AfterBranch(a, 144).clks

Lines(b) == {listing[b][k] : k \in DOMAIN listing[b]}
\* Lines with the whole instruction inside the bank.
WholeLines(b) == {e \in Lines(b) : e.line.addr % BankSize <= BankSize - 3}

\* The branches of a kind that the CPU takes from bank b to address a.
BranchesTo(b, a, kind) ==
  {[addr |-> e.line.addr, ccbranch |-> Conditional(e.line.addr)] :
     e \in {x \in WholeLines(b) : /\ x.line.opcode \in ToSet(Trackers[kind])
                                  /\ TakenFrom(x.line.addr) = a}}

Inside(b, S) == {c \in S : c.addr % BankSize <= BankSize - 3}

(* The label above a line names exactly the branches by which the CPU gets *)
(* to it from that bank, told apart by jump, call and short jump, and by   *)
(* whether they are conditional.  For the banks after the first this is so *)
(* of the short jumps alone: the targets of the others are marked with the *)
(* base of the bank added to an absolute address.                          *)
LabelsTrue ==
  \A b \in DOMAIN listing : \A e \in Lines(b) :
    \A kind \in IF b = 1 THEN DOMAIN Trackers ELSE {"short"} :
      Inside(b, ToSet(e.attach[kind])) = BranchesTo(b, e.line.addr, kind)

\* Lines of the listing at the address of the next opcode.
LinesHere == {e \in UNION {WholeLines(b) : b \in DOMAIN listing} : e.line.addr = cpu.PC}

\* Opcodes that leave for an address that no line shows, and the two whose
\* length in cpu_lens is not that of the CPU.
Unlisted == {\hC0, \hC8, \hC9, \hD0, \hD8, \hD9, \hE9} \cup Undefined
            \cup {op \in \hC0 .. \hFF : Column(op) = 7}
DifferentLength == {\hE2, \hF2}

(* From a line the CPU goes to the next line, or to the address that the   *)
(* line of a branch shows: the two tables agree on where an instruction    *)
(* ends, and the text on where it leads.                                   *)
FollowsListing ==
  [][phase = "run" /\ ~cpu.backup /\ Optick
       => \A e \in LinesHere :
            e.line.opcode \notin Unlisted \cup DifferentLength
              => \/ cpu'.PC = e.line.addr + e.line.instr_len
                 \/ /\ \E kind \in DOMAIN Trackers :
                          e.line.opcode \in ToSet(Trackers[kind])
                    /\ cpu'.PC = e.line.operand]_vars
=============================================================================
