------------------------- MODULE DisassemblerProofs -------------------------
(***************************************************************************)
(* Theorems of Disassembler, and of the CPU of Lr35902 in it, for every    *)
(* cartridge: the registers keep their widths through every opcode; a DAA  *)
(* after an addition or a subtraction of decimal bytes shows the decimal   *)
(* result; and, where the cartridge is addressed without a bank            *)
(* controller, the CPU follows the listing, and the labels name exactly    *)
(* the branches it takes.                                                  *)
(***************************************************************************)
EXTENDS Disassembler, TLAPS

(***************************************************************************)
(* The machine.  Every operator of Lr35902 takes a machine to a machine,   *)
(* and the lemmas say how far it moves PC.                                 *)
(***************************************************************************)
Registers == {"A", "B", "C", "D", "E", "H", "L"}
Switches == {"IME", "halt", "stop", "backup", "trap"}
Fields == Registers \cup Switches \cup {"F", "SP", "PC", "ram", "clks"}
FlagBytes == {f \in Byte : f % 16 = 0}

\* The fields of struct cpu, with their widths.
Machine(m) ==
  /\ m = [f \in Fields |-> m[f]]
  /\ \A r \in Registers : m[r] \in Byte
  /\ \A s \in Switches : m[s] \in BOOLEAN
  /\ m.F \in FlagBytes
  /\ m.SP \in Words /\ m.PC \in Words
  /\ \A a \in DOMAIN m.ram : m.ram[a] \in Byte
  /\ m.clks \in Nat

Counter(m) == m.PC
\* An operation that leaves PC.
Kept(m, n) == Machine(n) /\ Counter(n) = Counter(m)
USE DEF Kept

WithAF(m, a, f) == [m EXCEPT !.A = a, !.F = f]
WithF(m, f) == [m EXCEPT !.F = f]
WithPC(m, a) == [m EXCEPT !.PC = a]

\* A byte by its bounds: the range itself is out of the solver's reach.
LEMMA ByteIs == \A x : x \in Byte <=> x \in Nat /\ x < 256
BY DEF Byte

\* A word by its bounds.
LEMMA WordsIs == \A x : x \in Words <=> x \in Nat /\ x < 65536
BY DEF Words

\* What cpu_reset leaves is a machine.
LEMMA ResetMachine == Machine(Reset)
<1> USE DEF Registers, Switches, Fields
<1>1. Reset = [f \in Fields |-> Reset[f]]
  BY DEF Reset
<1>2. \A r \in Registers : Reset[r] \in Byte
  <2>1. /\ Reset.A = 1 /\ Reset.B = 0 /\ Reset.C = 19 /\ Reset.D = 0
        /\ Reset.E = 0 /\ Reset.H = 1 /\ Reset.L = 77
    BY DEF Reset
  <2> QED
    BY <2>1 DEF Byte
<1>3. \A s \in Switches : Reset[s] \in BOOLEAN
  <2>1. /\ Reset.IME = FALSE /\ Reset.halt = FALSE /\ Reset.stop = FALSE
        /\ Reset.backup = FALSE /\ Reset.trap = FALSE
    BY DEF Reset
  <2> QED
    BY <2>1
<1>4. Reset.F \in FlagBytes
  BY DEF Reset, FlagBytes, Byte
<1>5. Reset.SP \in Words /\ Reset.PC \in Words /\ Reset.clks \in Nat
  <2>1. Reset.SP = StackTop /\ Reset.PC = Entry /\ Reset.clks = 0
    BY DEF Reset
  <2> QED
    BY <2>1, Lr35902Assumption
<1>6. \A a \in DOMAIN Reset.ram : Reset.ram[a] \in Byte
  BY DEF Reset
<1> QED
  BY <1>1, <1>2, <1>3, <1>4, <1>5, <1>6 DEF Machine

\* The four flags make a byte whose low bits are clear.
LEMMA FlagsByte ==
  ASSUME NEW z, NEW n, NEW h, NEW c PROVE Flags(z, n, h, c) \in FlagBytes
BY ByteIs DEF Flags, One, FlagBytes

\* A and F may be set to any byte and any flags.
LEMMA SetAF ==
  ASSUME NEW m, Machine(m), NEW a \in Byte, NEW f \in FlagBytes
  PROVE  Kept(m, WithAF(m, a, f))
BY DEF Counter, WithAF, Machine, Registers, Switches, Fields

\* A register may be set to any byte.
LEMMA SetRegister ==
  ASSUME NEW m, Machine(m), NEW r \in Registers, NEW a \in Byte
  PROVE  Kept(m, [m EXCEPT ![r] = a])
BY DEF Counter, Machine, Registers, Switches, Fields

\* F may be set to any flags.
LEMMA SetF ==
  ASSUME NEW m, Machine(m), NEW f \in FlagBytes
  PROVE  Kept(m, WithF(m, f))
BY DEF Counter, WithF, Machine, Registers, Switches, Fields

\* PC may be set to any word.
LEMMA SetPC ==
  ASSUME NEW m, Machine(m), NEW a \in Words
  PROVE  Machine(WithPC(m, a)) /\ Counter(WithPC(m, a)) = a
BY DEF Counter, WithPC, Machine, Registers, Switches, Fields

\* A switch may be set either way.
LEMMA SetSwitch ==
  ASSUME NEW m, Machine(m), NEW s \in Switches, NEW b \in BOOLEAN
  PROVE  Kept(m, [m EXCEPT ![s] = b])
BY DEF Counter, Machine, Registers, Switches, Fields

\* The clocks may be set.
LEMMA SetClks ==
  ASSUME NEW m, Machine(m), NEW n \in Nat
  PROVE  Kept(m, Burn(m, n))
BY DEF Counter, Burn, Machine, Registers, Switches, Fields

\* SP may be set to any word.
LEMMA SetSP ==
  ASSUME NEW m, Machine(m), NEW a \in Words
  PROVE  Kept(m, [m EXCEPT !.SP = a])
BY DEF Counter, Machine, Registers, Switches, Fields

\* The fields of a machine have their widths.
LEMMA Fieldwise ==
  ASSUME NEW m, Machine(m)
  PROVE  /\ m.A \in Byte /\ m.B \in Byte /\ m.C \in Byte /\ m.D \in Byte
         /\ m.E \in Byte /\ m.H \in Byte /\ m.L \in Byte /\ m.F \in Byte
         /\ m.SP \in Words /\ m.PC \in Words /\ Counter(m) \in Words
BY DEF Counter, Machine, Registers, FlagBytes

\* What the masks of the code leave has the width of its field.
LEMMA Widths ==
  ASSUME NEW x \in Int
  PROVE  Word(x) \in Words /\ x % 256 \in Byte /\ Word(x) \div 256 \in Byte
BY ByteIs, WordsIs DEF Word

\* A cartridge of promsize banks, which nothing writes to.
RomOK == rom \in [0 .. promsize * BankSize - 1 -> Byte]

\* Memory is read in bytes.
LEMMA ReadByte ==
  ASSUME RomOK, NEW m, Machine(m), NEW a \in Int
  PROVE  MmuRead(m, a) \in Byte
<1> DEFINE w == Word(a)
<1> HIDE DEF w
<1>1. w \in DOMAIN rom => rom[w] \in Byte
  BY DEF RomOK
<1>2. w \in DOMAIN m.ram => m.ram[w] \in Byte
  BY DEF Machine
<1> QED
  BY <1>1, <1>2, ByteIs DEF MmuRead, w

\* Two bytes read make a word.
LEMMA ReadWord ==
  ASSUME RomOK, NEW m, Machine(m), NEW a \in Int
  PROVE  MmuReadWord(m, a) \in Words
BY ReadByte, ByteIs, WordsIs DEF MmuReadWord

\* A write leaves a machine with the same PC.
LEMMA WriteByte ==
  ASSUME NEW m, Machine(m), NEW a \in Int, NEW v \in Int
  PROVE  Kept(m, MmuWrite(m, a, v))
<1> DEFINE w == Word(a)
           ram == [x \in {w} \cup DOMAIN m.ram |-> IF x = w THEN v % 256 ELSE m.ram[x]]
<1>1. \A x \in DOMAIN ram : ram[x] \in Byte
  BY Widths DEF Machine
<1> HIDE DEF ram
<1>2. Kept(m, [m EXCEPT !.ram = ram])
  BY <1>1 DEF Counter, Machine, Registers, Switches, Fields
<1> QED
  BY <1>2 DEF MmuWrite, ram

\* So does a write of a word.
LEMMA WriteWord ==
  ASSUME NEW m, Machine(m), NEW a \in Int, NEW v \in Int
  PROVE  Kept(m, MmuWriteWord(m, a, v))
<1>1. Kept(m, MmuWrite(m, a, v))
  BY WriteByte
<1>2. a + 1 \in Int /\ v \div 256 \in Int
  OBVIOUS
<1> QED
  BY <1>1, <1>2, WriteByte DEF MmuWriteWord

\* A register pair is a word.
LEMMA PairWord ==
  ASSUME NEW m, Machine(m), NEW i \in 0 .. 3
  PROVE  Pair(m, i) \in Words
BY Fieldwise, ByteIs, WordsIs DEF Pair

\* A pair is set to the 16 bits of a sum.
LEMMA PairSet ==
  ASSUME NEW m, Machine(m), NEW i \in 0 .. 3, NEW v \in Int
  PROVE  Kept(m, SetPair(m, i, v))
<1> DEFINE hi == Word(v) \div 256
           lo == v % 256
<1>1. Word(v) \in Words /\ hi \in Byte /\ lo \in Byte
  BY Widths
<1> HIDE DEF hi, lo
<1>2. CASE i = 0
  <2>1. SetPair(m, i, v) = [m EXCEPT !.B = hi, !.C = lo]
    BY <1>2 DEF SetPair, hi, lo
  <2> QED
    BY <1>1, <2>1 DEF Counter, Machine, Registers, Switches, Fields
<1>3. CASE i = 1
  <2>1. SetPair(m, i, v) = [m EXCEPT !.D = hi, !.E = lo]
    BY <1>3 DEF SetPair, hi, lo
  <2> QED
    BY <1>1, <2>1 DEF Counter, Machine, Registers, Switches, Fields
<1>4. CASE i = 2
  <2>1. SetPair(m, i, v) = [m EXCEPT !.H = hi, !.L = lo]
    BY <1>4 DEF SetPair, hi, lo
  <2> QED
    BY <1>1, <2>1 DEF Counter, Machine, Registers, Switches, Fields
<1>5. CASE i = 3
  <2> DEFINE sp == Word(v)
  <2>1. SetPair(m, i, v) = [m EXCEPT !.SP = sp]
    BY <1>5 DEF SetPair
  <2> HIDE DEF sp
  <2> QED
    BY <1>1, <2>1, SetSP DEF sp
<1> QED
  BY <1>2, <1>3, <1>4, <1>5

\* The same of HL, for the loads that step it.
LEMMA SetHL ==
  ASSUME NEW m, Machine(m), NEW v \in Int
  PROVE  Kept(m, SetPair(m, 2, v))
<1>1. 2 \in 0 .. 3
  OBVIOUS
<1> QED
  BY <1>1, PairSet

\* The bits of an opcode name a register, or memory.
LEMMA RIndex == ASSUME NEW i \in 0 .. 7, i # 6 PROVE R8[i + 1] \in Registers
<1>1. i \in {0, 1, 2, 3, 4, 5, 7}
  OBVIOUS
<1> QED
  BY <1>1 DEF R8, Registers

\* An operand is a byte.
LEMMA RByte ==
  ASSUME RomOK, NEW m, Machine(m), NEW i \in 0 .. 7
  PROVE  R(m, i) \in Byte
<1>1. CASE i = 6
  <2>1. Pair(m, 2) \in Int
    BY PairWord, WordsIs
  <2> QED
    BY <1>1, <2>1, ReadByte DEF R
<1>2. CASE i # 6
  BY <1>2, RIndex DEF R, Machine
<1> QED
  BY <1>1, <1>2

\* An operand is set to the 8 bits of a sum.
LEMMA RSet ==
  ASSUME NEW m, Machine(m), NEW i \in 0 .. 7, NEW v \in Int
  PROVE  Kept(m, SetR(m, i, v))
<1>1. CASE i = 6
  <2>1. Pair(m, 2) \in Int
    BY PairWord, WordsIs
  <2> QED
    BY <1>1, <2>1, WriteByte DEF SetR
<1>2. CASE i # 6
  <2>1. v % 256 \in Byte
    BY Widths
  <2> QED
    BY <1>2, <2>1, RIndex, SetRegister DEF SetR
<1> QED
  BY <1>1, <1>2

\* Operand bytes are passed.
LEMMA PastMachine ==
  ASSUME NEW m, Machine(m), NEW n \in Int
  PROVE  Machine(Past(m, n)) /\ Counter(Past(m, n)) = Word(Counter(m) + n)
<1> DEFINE a == Word(Counter(m) + n)
<1>1. Counter(m) + n \in Int
  BY Fieldwise, WordsIs
<1>2. a \in Words
  BY <1>1, Widths
<1>3. Past(m, n) = WithPC(m, a)
  BY DEF Past, WithPC, Counter
<1> HIDE DEF a
<1> QED
  BY <1>2, <1>3, SetPC DEF a

\* Eight bits make a byte.
LEMMA ByteOfByte == ASSUME NEW bits PROVE ByteOf(bits) \in Byte
BY ByteIs DEF ByteOf, One

\* ADD and ADC set A and F alone.
LEMMA AddMachine ==
  ASSUME NEW m, Machine(m), NEW v \in Int, NEW c \in Int
  PROVE  Kept(m, Add(m, v, c))
<1> DEFINE r == m.A + v + c
           f == Flags(r % 256 = 0, FALSE, CarryInto(4, m.A, v, r), Bit(r, 8))
<1>1. r % 256 \in Byte
  BY Fieldwise, ByteIs, Widths
<1>2. f \in FlagBytes
  BY FlagsByte
<1>3. Add(m, v, c) = WithAF(m, r % 256, f)
  BY DEF Add, WithAF
<1> HIDE DEF r, f
<1> QED
  BY <1>1, <1>2, <1>3, SetAF

\* So do SUB and SBC.
LEMMA SubMachine ==
  ASSUME NEW m, Machine(m), NEW v \in Int, NEW c \in Int
  PROVE  Kept(m, Sub(m, v, c)) /\ Sub(m, v, c).F \in FlagBytes
<1> DEFINE r == m.A - v - c
           f == Flags(r % 256 = 0, TRUE, CarryInto(4, m.A, v, r), Bit(r, 15))
<1>1. r % 256 \in Byte
  BY Fieldwise, ByteIs, Widths
<1>2. f \in FlagBytes
  BY FlagsByte
<1>3. Sub(m, v, c) = WithAF(m, r % 256, f)
  BY DEF Sub, WithAF
<1> HIDE DEF r, f
<1>4. Kept(m, Sub(m, v, c))
  BY <1>1, <1>2, <1>3, SetAF
<1> QED
  BY <1>4 DEF Machine

\* CMP sets F alone.
LEMMA CmpMachine ==
  ASSUME NEW m, Machine(m), NEW v \in Int
  PROVE  Kept(m, Cmp(m, v))
<1>1. Sub(m, v, 0).F \in FlagBytes
  BY SubMachine
<1> QED
  BY <1>1, SetF DEF Cmp, WithF

\* AND, XOR and OR set A and F alone.
LEMMA LogicMachine ==
  ASSUME NEW m, Machine(m), NEW r \in Byte, NEW h
  PROVE  Kept(m, Logic(m, r, h))
<1> DEFINE f == Flags(r = 0, FALSE, h, FALSE)
<1>1. Logic(m, r, h) = WithAF(m, r, f)
  BY DEF Logic, WithAF
<1>2. f \in FlagBytes
  BY FlagsByte
<1> HIDE DEF f
<1> QED
  BY <1>1, <1>2, SetAF

\* The eight operations on A, together.
LEMMA AluMachine ==
  ASSUME NEW m, Machine(m), NEW y \in 0 .. 7, NEW v \in Byte
  PROVE  Kept(m, Alu(m, y, v))
<1> DEFINE c == One(CSet(m))
<1>1. v \in Int /\ c \in Int
  BY ByteIs DEF One
<1>2. And(m.A, v) \in Byte /\ Xor(m.A, v) \in Byte /\ Or(m.A, v) \in Byte
  BY ByteOfByte DEF And, Xor, Or
<1> HIDE DEF c
<1>3. Kept(m, Add(m, v, 0)) /\ Kept(m, Add(m, v, c))
  BY <1>1, AddMachine
<1>4. Kept(m, Sub(m, v, 0)) /\ Kept(m, Sub(m, v, c)) /\ Kept(m, Cmp(m, v))
  BY <1>1, SubMachine, CmpMachine
<1>5. /\ Kept(m, Logic(m, And(m.A, v), TRUE)) /\ Kept(m, Logic(m, Xor(m.A, v), FALSE))
      /\ Kept(m, Logic(m, Or(m.A, v), FALSE))
  BY <1>2, LogicMachine
<1>6. y \in {0, 1, 2, 3, 4, 5, 6, 7}
  OBVIOUS
<1> QED
  BY <1>3, <1>4, <1>5, <1>6 DEF Alu, c

\* INC and DEC of an operand leave a machine with the same PC.
LEMMA IncMachine ==
  ASSUME RomOK, NEW m, Machine(m), NEW y \in 0 .. 7
  PROVE  Kept(m, Inc(m, y)) /\ Kept(m, Dec(m, y))
<1> DEFINE up    == (R(m, y) + 1) % 256
           down  == (R(m, y) - 1) % 256
           upF   == Flags(up = 0, FALSE, up % 16 = 0, CSet(m))
           downF == Flags(down = 0, TRUE, down % 16 = 15, CSet(m))
<1>1. up \in Int /\ down \in Int
  BY RByte, ByteIs, Widths
<1>2. upF \in FlagBytes /\ downF \in FlagBytes
  <2> HIDE DEF up, down
  <2> QED
    BY FlagsByte
<1>3. /\ Inc(m, y) = WithF(SetR(m, y, up), upF)
      /\ Dec(m, y) = WithF(SetR(m, y, down), downF)
  BY DEF Inc, Dec, WithF
<1> HIDE DEF up, down, upF, downF
<1>4. Kept(m, SetR(m, y, up)) /\ Kept(m, SetR(m, y, down))
  BY <1>1, RSet
<1> QED
  BY <1>2, <1>3, <1>4, SetF

\* So does ADD HL.
LEMMA AddHLMachine ==
  ASSUME NEW m, Machine(m), NEW v \in Words
  PROVE  Kept(m, AddHL(m, v))
<1> DEFINE r == Pair(m, 2) + v
           f == Flags(ZSet(m), FALSE, CarryInto(12, Pair(m, 2), v, r), Bit(r, 16))
<1>1. r \in Int
  BY PairWord, WordsIs
<1>2. f \in FlagBytes
  BY FlagsByte
<1>3. AddHL(m, v) = WithF(SetPair(m, 2, r), f)
  BY DEF AddHL, WithF
<1> HIDE DEF r, f
<1>4. Kept(m, SetPair(m, 2, r))
  BY <1>1, PairSet
<1> QED
  BY <1>2, <1>3, <1>4, SetF

\* The operands after the opcode have their widths.
LEMMA Imm ==
  ASSUME RomOK, NEW m, Machine(m)
  PROVE  Imm8(m) \in Byte /\ Imm16(m) \in Words /\ Signed(Imm8(m)) \in -128 .. 127
<1>1. m.PC \in Int
  BY Fieldwise, WordsIs
<1>2. Imm8(m) \in Byte /\ Imm16(m) \in Words
  BY <1>1, ReadByte, ReadWord DEF Imm8, Imm16
<1> QED
  BY <1>2, ByteIs DEF Signed

\* ADD SP and LD HL, SP+n pass one byte.
LEMMA AddSPMachine ==
  ASSUME RomOK, NEW m, Machine(m), NEW pair \in {2, 3}
  PROVE  Machine(AddSP(m, pair)) /\ Counter(AddSP(m, pair)) = Word(Counter(m) + 1)
<1> DEFINE n == Word(Signed(Imm8(m)))
           r == m.SP + n
           f == Flags(FALSE, FALSE, CarryInto(4, m.SP, n, r), CarryInto(8, m.SP, n, r))
           p == Past(m, 1)
<1>1. r \in Int
  BY Imm, Fieldwise, WordsIs, Widths
<1>2. f \in FlagBytes
  BY FlagsByte
<1>3. AddSP(m, pair) = WithF(SetPair(p, pair, r), f)
  BY DEF AddSP, WithF
<1>4. Machine(p) /\ Counter(p) = Word(Counter(m) + 1) /\ pair \in 0 .. 3
  BY PastMachine
<1> HIDE DEF r, f, p
<1>5. Kept(p, SetPair(p, pair, r))
  BY <1>1, <1>4, PairSet
<1> QED
  BY <1>2, <1>3, <1>4, <1>5, SetF

\* DAA sets A and F alone.
LEMMA DaaMachine == ASSUME NEW m, Machine(m) PROVE Kept(m, Daa(m))
<1> DEFINE low  == IF HSet(m) \/ m.A % 16 > 9 THEN m.A + 6 ELSE m.A
           high == IF CSet(m) \/ low > 159 THEN low + 96 ELSE low
           lowN  == IF HSet(m) THEN (m.A - 6) % 256 ELSE m.A
           highN == IF CSet(m) THEN lowN - 96 ELSE lowN
           r    == IF NSet(m) THEN highN ELSE high
           f    == Flags(r % 256 = 0, NSet(m), FALSE, CSet(m) \/ Bit(r, 8))
<1>1. m.A \in Int
  BY Fieldwise, ByteIs
<1>2. r \in Int
  BY <1>1
<1>3. Daa(m) = WithAF(m, r % 256, f)
  BY DEF Daa, WithAF
<1>4. f \in FlagBytes
  BY FlagsByte
<1> HIDE DEF r, f
<1>5. r % 256 \in Byte
  BY <1>2, Widths
<1> QED
  BY <1>3, <1>4, <1>5, SetAF

\* A shift leaves a byte.
LEMMA ShiftedByte ==
  ASSUME NEW y \in 0 .. 7, NEW v \in Byte, NEW c
  PROVE  Shifted(y, v, c)[1] \in Byte
<1>1. v \in Nat /\ v < 256
  BY ByteIs
<1>2. y \in {0, 1, 2, 3, 4, 5, 6, 7}
  OBVIOUS
<1> QED
  BY <1>1, <1>2, ByteIs DEF Shifted, One

\* POP moves SP alone and reads a word.
LEMMA PopMachine ==
  ASSUME RomOK, NEW m, Machine(m)
  PROVE  Kept(m, PopWord(m)) /\ Popped(m) \in Words
<1> DEFINE sp == Word(m.SP + 2)
<1>1. m.SP \in Int /\ sp \in Words
  BY Fieldwise, WordsIs, Widths
<1>2. PopWord(m) = [m EXCEPT !.SP = sp]
  BY DEF PopWord
<1> HIDE DEF sp
<1> QED
  BY <1>1, <1>2, SetSP, ReadWord DEF Popped

\* PUSH writes below SP and leaves PC.
LEMMA PushMachine ==
  ASSUME NEW m, Machine(m), NEW v \in Int
  PROVE  Kept(m, PushWord(m, v))
<1> DEFINE sp == Word(m.SP - 2)
           p  == [m EXCEPT !.SP = sp]
<1>1. sp \in Words /\ sp \in Int
  BY Fieldwise, WordsIs, Widths
<1>2. PushWord(m, v) = MmuWriteWord(p, sp, v)
  BY DEF PushWord
<1>3. Kept(m, p)
  <2> HIDE DEF sp
  <2> QED
    BY <1>1, SetSP
<1> HIDE DEF sp, p
<1> QED
  BY <1>1, <1>2, <1>3, WriteWord

\* A jump goes to its operand or past it.
LEMMA JPMachine ==
  ASSUME RomOK, NEW m, Machine(m), NEW t
  PROVE  /\ Machine(JP(m, t))
         /\ Counter(JP(m, t)) \in {Imm16(m), Word(Counter(m) + 2)}
<1>1. /\ Machine(WithPC(m, Imm16(m))) /\ Counter(WithPC(m, Imm16(m))) = Imm16(m)
      /\ Machine(Past(m, 2)) /\ Counter(Past(m, 2)) = Word(Counter(m) + 2)
  <2>1. Imm16(m) \in Words /\ 2 \in Int
    BY Imm
  <2> QED
    BY <2>1, SetPC, PastMachine
<1>2. JP(m, t) \in {Burn(WithPC(m, Imm16(m)), 16), Burn(Past(m, 2), 12)}
  BY DEF JP, WithPC
<1> QED
  BY <1>1, <1>2, SetClks

\* A short jump goes to its target or past its operand.
LEMMA JRMachine ==
  ASSUME RomOK, NEW m, Machine(m), NEW t
  PROVE  /\ Machine(JR(m, t))
         /\ Counter(JR(m, t)) \in {Word(Counter(m) + (1 + Signed(Imm8(m)))), Word(Counter(m) + 1)}
<1> DEFINE n == 1 + Signed(Imm8(m))
<1>1. n \in Int
  BY Imm
<1>2. JR(m, t) \in {Burn(Past(m, n), 12), Burn(Past(m, 1), 8)}
  BY DEF JR
<1> HIDE DEF n
<1>3. /\ Machine(Past(m, n)) /\ Counter(Past(m, n)) = Word(Counter(m) + n)
      /\ Machine(Past(m, 1)) /\ Counter(Past(m, 1)) = Word(Counter(m) + 1)
  BY <1>1, PastMachine
<1>4. /\ Kept(Past(m, n), Burn(Past(m, n), 12))
      /\ Kept(Past(m, 1), Burn(Past(m, 1), 8))
  BY <1>3, SetClks
<1> QED
  BY <1>2, <1>3, <1>4 DEF n

\* A call goes to the operand read after the push, or past it.
LEMMA CALLMachine ==
  ASSUME RomOK, NEW m, Machine(m), NEW t
  PROVE  /\ Machine(CALL(m, t))
         /\ Counter(CALL(m, t)) \in {Imm16(PushWord(m, Word(Counter(m) + 2))), Word(Counter(m) + 2)}
<1> DEFINE p == PushWord(m, Word(Counter(m) + 2))
<1>1. Word(Counter(m) + 2) \in Int
  <2>1. Counter(m) + 2 \in Int
    BY Fieldwise, WordsIs
  <2> QED
    BY <2>1, WordsIs, Widths
<1>2. Machine(p)
  BY <1>1, PushMachine
<1> HIDE DEF p
<1>3. /\ Machine(WithPC(p, Imm16(p))) /\ Counter(WithPC(p, Imm16(p))) = Imm16(p)
      /\ Machine(Past(m, 2)) /\ Counter(Past(m, 2)) = Word(Counter(m) + 2)
  <2>1. Imm16(p) \in Words /\ 2 \in Int
    BY <1>2, Imm
  <2> QED
    BY <1>2, <2>1, SetPC, PastMachine
<1>4. CALL(m, t) \in {Burn(WithPC(p, Imm16(p)), 24), Burn(Past(m, 2), 12)}
  BY DEF CALL, WithPC, Counter, p
<1> QED
  BY <1>3, <1>4, SetClks DEF p

\* A return leaves a machine.
LEMMA RETMachine ==
  ASSUME RomOK, NEW m, Machine(m), NEW t, NEW n \in Nat
  PROVE  Machine(RET(m, t, n))
<1>1. Machine(WithPC(PopWord(m), Popped(m)))
  BY PopMachine, SetPC
<1>2. RET(m, t, n) \in {Burn(WithPC(PopWord(m), Popped(m)), n), Burn(m, 8)}
  BY DEF RET, WithPC
<1> QED
  BY <1>1, <1>2, SetClks

\* So does RETI.
LEMMA RETIMachine ==
  ASSUME RomOK, NEW m, Machine(m)
  PROVE  Machine(RETI(m))
<1> DEFINE r == RET(m, Always, 16)
<1>1. RETI(m) = [r EXCEPT !["IME"] = TRUE]
  BY DEF RETI
<1>2. Machine(r)
  BY RETMachine
<1> HIDE DEF r
<1> QED
  BY <1>1, <1>2, SetSwitch DEF Switches

\* So does a restart.
LEMMA RstMachine ==
  ASSUME NEW m, Machine(m), NEW a \in Words
  PROVE  Machine(Rst(m, a))
<1> DEFINE p == PushWord(m, m.PC)
<1>1. Machine(p)
  <2>1. m.PC \in Int
    BY Fieldwise, WordsIs
  <2> QED
    BY <2>1, PushMachine
<1>2. Rst(m, a) = Burn(WithPC(p, a), 16)
  BY DEF Rst, WithPC
<1> HIDE DEF p
<1> QED
  BY <1>1, <1>2, SetPC, SetClks

\* STOP passes the byte behind it, whether it stops or switches.
LEMMA StopMachine ==
  ASSUME RomOK, NEW m, Machine(m)
  PROVE  Machine(Stop(m)) /\ Counter(Stop(m)) = Word(Counter(m) + 1)
<1> DEFINE skip == Burn(Past(m, 1), 4)
           v    == ((MmuRead(m, KEY1) + 128) % 256) - 1
<1>1. Machine(skip) /\ Counter(skip) = Word(Counter(m) + 1)
  BY PastMachine, SetClks
<1>2. Stop(m) \in {MmuWrite(skip, KEY1, v), [skip EXCEPT !["stop"] = TRUE]}
  BY DEF Stop
<1>3. KEY1 \in Int
  BY DEF KEY1
<1>4. v \in Int
  BY <1>3, ReadByte, ByteIs
<1> HIDE DEF skip, v
<1>5. Kept(skip, [skip EXCEPT !["stop"] = TRUE])
  BY <1>1, SetSwitch DEF Switches
<1>6. Kept(skip, MmuWrite(skip, KEY1, v))
  BY <1>1, <1>3, <1>4, WriteByte
<1> QED
  BY <1>1, <1>2, <1>5, <1>6

\* An opcode is its quarter, its row and its column.
LEMMA Columns ==
  ASSUME NEW op \in Byte
  PROVE  /\ Column(op) \in 0 .. 7 /\ Row(op) \in 0 .. 7
         /\ op = 64 * (op \div 64) + 8 * Row(op) + Column(op)
         /\ op \div 64 \in 0 .. 3
BY ByteIs DEF Column, Row

\* The loads of the first quarters pass as many operand bytes as the table
\* says.
LEMMA LoadMachine ==
  ASSUME RomOK, NEW m, Machine(m), NEW op \in LoadOps
  PROVE  /\ Machine(Load(m, op))
         /\ Counter(Load(m, op)) = IF op \in {\h01, \h11, \h21, \h31, \h08} THEN Word(Counter(m) + 2)
                             ELSE IF op < \h40 /\ Column(op) = 6 THEN Word(Counter(m) + 1)
                             ELSE Counter(m)
<1> DEFINE pair == op \div 16
           past == Past(m, 1)
           past2 == Past(m, 2)
<1>0. op \in Byte /\ op \in Nat
  BY ByteIs DEF LoadOps
<1>1. /\ Column(op) \in 0 .. 7 /\ Row(op) \in 0 .. 7
      /\ Machine(past) /\ Counter(past) = Word(Counter(m) + 1)
      /\ Machine(past2) /\ Counter(past2) = Word(Counter(m) + 2)
      /\ Imm8(m) \in Int /\ Imm16(m) \in Int
      /\ m.A \in Byte /\ m.A \in Int /\ m.SP \in Int
  <2>1. /\ Machine(past) /\ Counter(past) = Word(Counter(m) + 1)
        /\ Machine(past2) /\ Counter(past2) = Word(Counter(m) + 2)
    BY PastMachine
  <2> HIDE DEF past, past2
  <2> QED
    BY <1>0, <2>1, Columns, Imm, Fieldwise, ByteIs, WordsIs
<1>2. CASE op \in \h40 .. \h7F
  <2> DEFINE v == R(m, Column(op))
             n == IF 6 \in {Row(op), Column(op)} THEN 8 ELSE 4
  <2>1. Load(m, op) = Burn(SetR(m, Row(op), v), n)
    BY <1>0, <1>2, ByteIs DEF Load
  <2>2. v \in Int /\ n \in Nat
    BY <1>1, RByte, ByteIs
  <2> HIDE DEF v, n
  <2>3. Kept(m, SetR(m, Row(op), v))
    BY <1>1, <2>2, RSet
  <2> QED
    BY <1>2, <2>1, <2>2, <2>3, SetClks
<1>3. CASE op < \h40 /\ Column(op) = 6
  <2> DEFINE v == Imm8(m)
             n == IF Row(op) = 6 THEN 12 ELSE 8
  <2>0. op \notin {\h01, \h11, \h21, \h31, \h02, \h12, \h22, \h32, \h0A, \h1A,
                  \h2A, \h3A, \h08}
    BY <1>3 DEF Column
  <2>1. Load(m, op) = Burn(SetR(past, Row(op), v), n)
    BY <1>0, <1>3, <2>0 DEF Load
  <2> HIDE DEF past
  <2>2. Kept(past, SetR(past, Row(op), v))
    BY <1>1, RSet
  <2>3. n \in Nat
    OBVIOUS
  <2> HIDE DEF v, n
  <2>4. Kept(past, Load(m, op))
    BY <1>1, <2>1, <2>2, <2>3, SetClks
  <2> QED
    BY <1>1, <1>3, <2>0, <2>4
<1>4. CASE op \in {\h01, \h11, \h21, \h31}
  <2>1. /\ Load(m, op) = Burn(SetPair(past2, pair, Imm16(m)), 12)
        /\ pair \in 0 .. 3
    BY <1>4 DEF Load, Column
  <2> HIDE DEF past2, pair
  <2>2. Kept(past2, SetPair(past2, pair, Imm16(m)))
    BY <1>1, <2>1, PairSet
  <2> QED
    BY <1>1, <1>4, <2>1, <2>2, SetClks
<1>5. CASE op \in {\h02, \h12}
  <2>1. /\ Load(m, op) = Burn(MmuWrite(m, Pair(m, pair), m.A), 8)
        /\ pair \in 0 .. 3
    BY <1>5 DEF Load, Column
  <2> HIDE DEF pair
  <2>2. Pair(m, pair) \in Int
    BY <2>1, PairWord, WordsIs
  <2>3. Kept(m, MmuWrite(m, Pair(m, pair), m.A))
    BY <1>1, <2>2, WriteByte
  <2> QED
    BY <1>5, <2>1, <2>3, SetClks DEF Column
<1>6. CASE op \in {\h22, \h32}
  <2> DEFINE w == MmuWrite(m, Pair(m, 2), m.A)
             v == Pair(m, 2) + (IF op = \h22 THEN 1 ELSE -1)
  <2>1. Load(m, op) = Burn(SetPair(w, 2, v), 8)
    BY <1>6 DEF Load, Column
  <2>2. Pair(m, 2) \in Int /\ v \in Int
    BY PairWord, WordsIs
  <2>3. Kept(m, w)
    BY <1>1, <2>2, WriteByte
  <2> HIDE DEF w, v
  <2>4. Kept(w, SetPair(w, 2, v))
    BY <2>2, <2>3, SetHL
  <2> QED
    BY <1>6, <2>1, <2>3, <2>4, SetClks DEF Column
<1>7. CASE op \in {\h0A, \h1A}
  <2> DEFINE v == MmuRead(m, Pair(m, pair))
  <2>1. /\ Load(m, op) = Burn([m EXCEPT !["A"] = v], 8)
        /\ pair \in 0 .. 3
    BY <1>7 DEF Load, Column
  <2>2. v \in Byte
    <3> HIDE DEF pair
    <3>1. Pair(m, pair) \in Int
      BY <2>1, PairWord, WordsIs
    <3> QED
      BY <3>1, ReadByte
  <2> HIDE DEF v
  <2>3. Kept(m, [m EXCEPT !["A"] = v])
    BY <2>2, SetRegister DEF Registers
  <2> QED
    BY <1>7, <2>1, <2>3, SetClks DEF Column
<1>8. CASE op \in {\h2A, \h3A}
  <2> DEFINE v == Pair(m, 2) + (IF op = \h2A THEN 1 ELSE -1)
             p == SetPair(m, 2, v)
             a == MmuRead(m, Pair(m, 2))
  <2>1. Load(m, op) = Burn([p EXCEPT !["A"] = a], 8)
    BY <1>8 DEF Load, Column
  <2>2. Pair(m, 2) \in Int /\ v \in Int
    BY PairWord, WordsIs
  <2>3. a \in Byte
    BY <2>2, ReadByte
  <2> HIDE DEF v
  <2>4. Kept(m, p)
    BY <2>2, SetHL
  <2> HIDE DEF p, a
  <2>5. Kept(p, [p EXCEPT !["A"] = a])
    BY <2>3, <2>4, SetRegister DEF Registers
  <2> QED
    BY <1>8, <2>1, <2>4, <2>5, SetClks DEF Column
<1>9. CASE op = \h08
  <2>1. Load(m, op) = Burn(MmuWriteWord(past2, Imm16(m), m.SP), 20)
    BY <1>9 DEF Load, Column
  <2> HIDE DEF past2
  <2>2. Kept(past2, MmuWriteWord(past2, Imm16(m), m.SP))
    BY <1>1, WriteWord
  <2> QED
    BY <1>1, <1>9, <2>1, <2>2, SetClks
<1> QED
  <2>1. op < \h40 /\ Column(op) = 2 => op \in {\h02, \h12, \h22, \h32, \h0A, \h1A, \h2A, \h3A}
    BY <1>0, ByteIs DEF Column
  <2> QED
    BY <1>2, <1>3, <1>4, <1>5, <1>6, <1>7, <1>8, <1>9, <2>1 DEF LoadOps

\* So do those of the last quarter, except \hE2 and \hF2, of which nothing is
\* said.
LEMMA LoadHighMachine ==
  ASSUME RomOK, NEW m, Machine(m), NEW op \in LoadHighOps
  PROVE  /\ Machine(LoadHigh(m, op))
         /\ op \in {\hE0, \hF0, \hF8} => Counter(LoadHigh(m, op)) = Word(Counter(m) + 1)
         /\ op \in {\hEA, \hFA} => Counter(LoadHigh(m, op)) = Word(Counter(m) + 2)
         /\ op = \hF9 => Counter(LoadHigh(m, op)) = Counter(m)
<1> DEFINE past == Past(m, 1)
           past2 == Past(m, 2)
           high == \hFF00 + Imm8(m)
           highC == \hFF00 + m.C
<1>1. /\ Machine(past) /\ Counter(past) = Word(Counter(m) + 1)
      /\ Machine(past2) /\ Counter(past2) = Word(Counter(m) + 2)
  BY PastMachine
<1>2. /\ high \in Int /\ highC \in Int /\ Imm16(m) \in Int /\ m.A \in Int
      /\ Pair(m, 2) \in Words
  <2>1. Imm8(m) \in Byte /\ Imm16(m) \in Words /\ m.C \in Byte /\ m.A \in Byte
    BY Imm, Fieldwise
  <2>2. Pair(m, 2) \in Words
    BY PairWord
  <2> QED
    BY <2>1, <2>2, ByteIs, WordsIs
<1>3. /\ op = \hE0 => LoadHigh(m, op) = Burn(MmuWrite(past, high, m.A), 12)
      /\ op = \hE2 => LoadHigh(m, op) = Burn(MmuWrite(m, highC, m.A), 8)
      /\ op = \hEA => LoadHigh(m, op) = Burn(MmuWrite(past2, Imm16(m), m.A), 16)
      /\ op = \hF0 => LoadHigh(m, op) = Burn([past EXCEPT !["A"] = MmuRead(m, high)], 12)
      /\ op = \hF2 => LoadHigh(m, op) = Burn([m EXCEPT !["A"] = MmuRead(m, highC)], 8)
      /\ op = \hFA => LoadHigh(m, op) = Burn([past2 EXCEPT !["A"] = MmuRead(m, Imm16(m))], 16)
      /\ op = \hF8 => LoadHigh(m, op) = Burn(AddSP(m, 2), 12)
      /\ op = \hF9 => LoadHigh(m, op) = Burn([m EXCEPT !.SP = Pair(m, 2)], 8)
  BY DEF LoadHigh
<1> HIDE DEF past, past2, high, highC
<1>4. /\ Kept(past, MmuWrite(past, high, m.A)) /\ Kept(m, MmuWrite(m, highC, m.A))
      /\ Kept(past2, MmuWrite(past2, Imm16(m), m.A))
  BY <1>1, <1>2, WriteByte
<1>5. MmuRead(m, high) \in Byte /\ MmuRead(m, highC) \in Byte /\ MmuRead(m, Imm16(m)) \in Byte
  BY <1>2, ReadByte
<1>6. /\ Kept(past, [past EXCEPT !["A"] = MmuRead(m, high)])
      /\ Kept(m, [m EXCEPT !["A"] = MmuRead(m, highC)])
      /\ Kept(past2, [past2 EXCEPT !["A"] = MmuRead(m, Imm16(m))])
  <2>1. "A" \in Registers
    BY DEF Registers
  <2> DEFINE a == MmuRead(m, high)
             b == MmuRead(m, highC)
             c == MmuRead(m, Imm16(m))
  <2>2. a \in Byte /\ b \in Byte /\ c \in Byte
    BY <1>5
  <2> HIDE DEF a, b, c
  <2>3. /\ Kept(past, [past EXCEPT !["A"] = a]) /\ Kept(m, [m EXCEPT !["A"] = b])
        /\ Kept(past2, [past2 EXCEPT !["A"] = c])
    BY <1>1, <2>1, <2>2, SetRegister
  <2> QED
    BY <2>3 DEF a, b, c
<1>7. /\ Machine(AddSP(m, 2)) /\ Counter(AddSP(m, 2)) = Word(Counter(m) + 1)
      /\ Kept(m, [m EXCEPT !.SP = Pair(m, 2)])
  BY <1>2, AddSPMachine, SetSP
<1>8. op \in {\hE0, \hE2, \hEA, \hF0, \hF2, \hFA, \hF8, \hF9}
  BY DEF LoadHighOps
<1>9. CASE op \in {\hE0, \hE2, \hEA}
  BY <1>1, <1>3, <1>4, <1>9, SetClks
<1>10. CASE op \in {\hF0, \hF2, \hFA}
  BY <1>1, <1>3, <1>6, <1>10, SetClks
<1>11. CASE op \in {\hF8, \hF9}
  BY <1>3, <1>7, <1>11, SetClks
<1> QED
  BY <1>8, <1>9, <1>10, <1>11

\* The arithmetic passes one byte in the last quarter, else none.
LEMMA ArithmeticMachine ==
  ASSUME RomOK, NEW m, Machine(m), NEW op \in ArithmeticOps
  PROVE  /\ Machine(Arithmetic(m, op))
         /\ Counter(Arithmetic(m, op)) = IF op > \hBF THEN Word(Counter(m) + 1) ELSE Counter(m)
<1> DEFINE pair == op \div 16
           past == Past(m, 1)
           clks == CASE Row(op) = 5 -> 12 [] OTHER -> 4
<1>0. op \in Byte /\ op \in Nat
  BY ByteIs DEF ArithmeticOps
<1>1. /\ Column(op) \in 0 .. 7 /\ Row(op) \in 0 .. 7 /\ clks \in Nat
      /\ Machine(past) /\ Counter(past) = Word(Counter(m) + 1) /\ Imm8(m) \in Byte
  <2>1. Machine(past) /\ Counter(past) = Word(Counter(m) + 1)
    BY PastMachine
  <2> HIDE DEF past
  <2> QED
    BY <1>0, <2>1, Columns, Imm
<1>2. CASE op \in \h80 .. \hBF
  <2> DEFINE v == R(m, Column(op))
             p == Alu(m, Row(op), v)
             n == IF Column(op) = 6 THEN 8 ELSE 4
  <2>1. Arithmetic(m, op) = Burn(p, n)
    BY <1>0, <1>2 DEF Arithmetic
  <2>2. v \in Byte
    BY <1>1, RByte
  <2> HIDE DEF v
  <2>3. Kept(m, p)
    BY <1>1, <2>2, AluMachine
  <2>4. n \in Nat
    OBVIOUS
  <2> HIDE DEF p, n
  <2> QED
    BY <1>2, <2>1, <2>3, <2>4, SetClks
<1>3. CASE op > \hBF /\ Column(op) = 6
  <2> DEFINE p == Alu(past, Row(op), Imm8(m))
  <2>1. Arithmetic(m, op) = Burn(p, 8)
    BY <1>0, <1>3 DEF Arithmetic, Column
  <2> HIDE DEF past
  <2>2. Kept(past, p)
    BY <1>1, AluMachine
  <2> HIDE DEF p
  <2> QED
    BY <1>1, <1>3, <2>1, <2>2, SetClks
<1>4. CASE op < \h40 /\ Column(op) \in {4, 5}
  <2>1. op \notin {\h03, \h13, \h23, \h33, \h0B, \h1B, \h2B, \h3B, \h09, \h19, \h29, \h39}
    BY <1>4 DEF Column
  <2> HIDE DEF clks
  <2>2. /\ Column(op) = 4 => Arithmetic(m, op) = Burn(Inc(m, Row(op)), clks)
        /\ Column(op) = 5 => Arithmetic(m, op) = Burn(Dec(m, Row(op)), clks)
    BY <1>0, <1>4, <2>1 DEF Arithmetic, clks
  <2>3. Kept(m, Inc(m, Row(op))) /\ Kept(m, Dec(m, Row(op)))
    BY <1>1, IncMachine
  <2> QED
    BY <1>0, <1>1, <1>4, <2>2, <2>3, SetClks
<1>5. CASE op \in {\h03, \h13, \h23, \h33, \h0B, \h1B, \h2B, \h3B}
  <2> DEFINE v == IF op \in {\h03, \h13, \h23, \h33} THEN Pair(m, pair) + 1
                  ELSE Pair(m, pair) - 1
             p == SetPair(m, pair, v)
  <2>1. pair \in 0 .. 3
    BY <1>5
  <2>2. Arithmetic(m, op) = Burn(p, 8)
    BY <1>5 DEF Arithmetic, Column
  <2> HIDE DEF pair
  <2>3. v \in Int
    BY <2>1, PairWord, WordsIs
  <2> HIDE DEF v
  <2>4. Kept(m, p)
    BY <2>1, <2>3, PairSet
  <2> HIDE DEF p
  <2> QED
    BY <1>5, <2>2, <2>4, SetClks
<1>6. CASE op \in {\h09, \h19, \h29, \h39}
  <2> DEFINE p == AddHL(m, Pair(m, pair))
  <2>1. pair \in 0 .. 3
    BY <1>6
  <2>2. Arithmetic(m, op) = Burn(p, 8)
    BY <1>6 DEF Arithmetic, Column
  <2> HIDE DEF pair
  <2>3. Kept(m, p)
    BY <2>1, PairWord, AddHLMachine
  <2> HIDE DEF p
  <2> QED
    BY <1>6, <2>2, <2>3, SetClks
<1>7. CASE op = \hE8
  <2>1. Arithmetic(m, op) = Burn(AddSP(m, 3), 16)
    BY <1>7 DEF Arithmetic, Column
  <2>2. Machine(AddSP(m, 3)) /\ Counter(AddSP(m, 3)) = Word(Counter(m) + 1)
    BY AddSPMachine
  <2> QED
    BY <1>7, <2>1, <2>2, SetClks
<1> QED
  <2>1. op < \h40 /\ Column(op) = 3 => op \in {\h03, \h13, \h23, \h33, \h0B, \h1B, \h2B, \h3B}
    BY <1>0, ByteIs DEF Column
  <2>2. \/ op \in \h80 .. \hBF
        \/ op > \hBF /\ Column(op) = 6
        \/ op < \h40 /\ Column(op) \in {3, 4, 5}
        \/ op \in {\h09, \h19, \h29, \h39, \hE8}
    BY DEF ArithmeticOps
  <2> QED
    BY <1>2, <1>3, <1>4, <1>5, <1>6, <1>7, <2>1, <2>2

\* The column 7 passes none.
LEMMA AccumulatorMachine ==
  ASSUME NEW m, Machine(m), NEW op \in AccumulatorOps
  PROVE  Kept(m, Accumulator(m, op))
<1> DEFINE s == Shifted(Row(op), m.A, CSet(m))
           a == s[1]
           rotated == Flags(FALSE, FALSE, FALSE, s[2])
           cpl == Flags(ZSet(m), TRUE, TRUE, CSet(m))
           scf == Flags(ZSet(m), FALSE, FALSE, TRUE)
           ccf == Flags(ZSet(m), FALSE, FALSE, ~CSet(m))
           c   == 255 - m.A
<1>0. op \in Byte
  BY ByteIs DEF AccumulatorOps
<1>1. a \in Byte /\ c \in Byte
  BY <1>0, Columns, Fieldwise, ShiftedByte, ByteIs
<1>2. rotated \in FlagBytes /\ cpl \in FlagBytes /\ scf \in FlagBytes /\ ccf \in FlagBytes
  BY FlagsByte
<1>3. op \in {\h07, \h0F, \h17, \h1F, \h27, \h2F, \h37, \h3F}
  BY <1>0, ByteIs DEF AccumulatorOps, Column
<1> HIDE DEF s
<1>4. Accumulator(m, op) \in {Burn(WithAF(m, a, rotated), 4), Burn(Daa(m), 4),
        Burn(WithAF(m, c, cpl), 4), Burn(WithF(m, scf), 4), Burn(WithF(m, ccf), 4)}
  BY <1>3 DEF Accumulator, WithAF, WithF, s
<1> HIDE DEF a, c, rotated, cpl, scf, ccf
<1>5. /\ Kept(m, WithAF(m, a, rotated)) /\ Kept(m, Daa(m)) /\ Kept(m, WithAF(m, c, cpl))
      /\ Kept(m, WithF(m, scf)) /\ Kept(m, WithF(m, ccf))
  BY <1>1, <1>2, SetAF, SetF, DaaMachine
<1> QED
  BY <1>4, <1>5, SetClks

\* PUSH and POP pass none.
LEMMA StackMachine ==
  ASSUME RomOK, NEW m, Machine(m), NEW op \in StackOps
  PROVE  Kept(m, Stack(m, op))
<1> DEFINE pair == Row(op) \div 2
           v    == IF pair = 3 THEN m.A * 256 + m.F ELSE Pair(m, pair)
           p    == PopWord(m)
           a    == Popped(m) \div 256
           f    == 16 * ((Popped(m) % 256) \div 16)
<1>1. pair \in 0 .. 3
  BY DEF StackOps, Row
<1>2. /\ Column(op) = 5 => Stack(m, op) = Burn(PushWord(m, v), 16)
      /\ Column(op) # 5 /\ pair = 3 => Stack(m, op) = Burn(WithAF(p, a, f), 12)
      /\ Column(op) # 5 /\ pair # 3 => Stack(m, op) = Burn(SetPair(p, pair, Popped(m)), 12)
  BY DEF Stack, WithAF
<1> HIDE DEF pair
<1>3. v \in Int
  <2>1. Pair(m, pair) \in Words
    BY <1>1, PairWord
  <2> QED
    BY <2>1, Fieldwise, ByteIs, WordsIs
<1>4. Kept(m, p) /\ Popped(m) \in Words
  BY PopMachine
<1>5. Popped(m) \in Int /\ a \in Byte /\ f \in FlagBytes
  BY <1>4, ByteIs, WordsIs DEF FlagBytes
<1> HIDE DEF v, p, a, f
<1>6. /\ Kept(m, PushWord(m, v)) /\ Kept(p, WithAF(p, a, f))
      /\ Kept(p, SetPair(p, pair, Popped(m)))
  BY <1>1, <1>3, <1>4, <1>5, PushMachine, SetAF, PairSet
<1> QED
  BY <1>2, <1>4, <1>6, SetClks

\* The CB table passes none behind its own byte.
LEMMA BitOpsMachine ==
  ASSUME RomOK, NEW m, Machine(m), NEW cb \in Byte
  PROVE  Kept(m, BitOps(m, cb))
<1> DEFINE x == Column(cb)
           y == Row(cb)
           v == R(m, x)
           s == Shifted(y, v, CSet(m))
           a == s[1]
           shifted == Flags(a = 0, FALSE, FALSE, s[2])
           tested == Flags(~Bit(v, y), FALSE, TRUE, CSet(m))
           low == IF Bit(v, y) THEN v - 2^y ELSE v
           high == IF Bit(v, y) THEN v ELSE v + 2^y
           n == IF x = 6 THEN 16 ELSE 8
<1>1. x \in 0 .. 7 /\ y \in 0 .. 7 /\ n \in Nat
  BY Columns
<1> HIDE DEF x, y
<1>2. v \in Byte /\ v \in Int
  BY <1>1, RByte, ByteIs
<1>3. a \in Byte /\ a \in Int
  <2> HIDE DEF v
  <2> QED
    BY <1>1, <1>2, ShiftedByte, ByteIs
<1>4. low \in Int /\ high \in Int
  <2>1. 2^y \in Int
    <3>1. y \in {0, 1, 2, 3, 4, 5, 6, 7}
      BY <1>1
    <3> QED
      BY <3>1
  <2> HIDE DEF v
  <2> QED
    BY <1>2, <2>1
<1>5. shifted \in FlagBytes /\ tested \in FlagBytes
  BY FlagsByte
<1> HIDE DEF v, s
<1>6. /\ cb < \h40 => BitOps(m, cb) = Burn(WithF(SetR(m, x, a), shifted), n)
      /\ cb \in \h40 .. \h7F => BitOps(m, cb) = Burn(WithF(m, tested), n)
      /\ cb \in \h80 .. \hBF => BitOps(m, cb) = Burn(SetR(m, x, low), n)
      /\ cb > \hBF => BitOps(m, cb) = Burn(SetR(m, x, high), n)
  BY ByteIs DEF BitOps, WithF, x, y, v, s
<1> HIDE DEF a, shifted, tested, low, high, n
<1>7. Kept(m, SetR(m, x, a)) /\ Kept(m, SetR(m, x, low)) /\ Kept(m, SetR(m, x, high))
  BY <1>1, <1>3, <1>4, RSet
<1>8. Kept(m, WithF(SetR(m, x, a), shifted)) /\ Kept(m, WithF(m, tested))
  BY <1>5, <1>7, SetF
<1>9. cb < \h40 \/ cb \in \h40 .. \h7F \/ cb \in \h80 .. \hBF \/ cb > \hBF
  BY ByteIs
<1>10. /\ Kept(m, Burn(WithF(SetR(m, x, a), shifted), n)) /\ Kept(m, Burn(WithF(m, tested), n))
       /\ Kept(m, Burn(SetR(m, x, low), n)) /\ Kept(m, Burn(SetR(m, x, high), n))
  BY <1>1, <1>7, <1>8, SetClks
<1> QED
  BY <1>6, <1>9, <1>10

\* The opcodes of Transfer.
Restarts == {\hC7, \hCF, \hD7, \hDF, \hE7, \hEF, \hF7, \hFF}
JumpOps == {\hC3, \hC2, \hCA, \hD2, \hDA}
ShortOps == {\h18, \h20, \h28, \h30, \h38}
CallOps == {\hCD, \hC4, \hCC, \hD4, \hDC}
ReturnOps == {\hC9, \hC0, \hC8, \hD0, \hD8}
TransferOps == {\hE9, \hD9} \cup Restarts \cup JumpOps \cup ShortOps \cup CallOps \cup ReturnOps

\* Where the transfers may go.
LEMMA TransferMachine ==
  ASSUME RomOK, NEW m, Machine(m), NEW op \in TransferOps
  PROVE  /\ Machine(Transfer(m, op))
         /\ op \in JumpOps =>
              Counter(Transfer(m, op)) \in {Imm16(m), Word(Counter(m) + 2)}
         /\ op \in ShortOps =>
              Counter(Transfer(m, op)) \in
                {Word(Counter(m) + (1 + Signed(Imm8(m)))), Word(Counter(m) + 1)}
         /\ op \in CallOps =>
              Counter(Transfer(m, op)) \in
                {Imm16(PushWord(m, Word(Counter(m) + 2))), Word(Counter(m) + 2)}
<1> DEFINE cc == Holds(m, Row(op) % 4)
<1> HIDE DEF cc
<1>1. CASE op \in JumpOps
  <2>1. Transfer(m, op) \in {JP(m, Always), JP(m, cc)}
    BY <1>1 DEF Transfer, JumpOps, Column, cc
  <2>2. op \notin ShortOps /\ op \notin CallOps
    BY <1>1 DEF JumpOps, ShortOps, CallOps
  <2> QED
    BY <2>1, <2>2, JPMachine
<1>2. CASE op \in ShortOps
  <2>1. Transfer(m, op) \in {JR(m, Always), JR(m, cc)}
    BY <1>2 DEF Transfer, ShortOps, Column, cc
  <2>2. op \notin JumpOps /\ op \notin CallOps
    BY <1>2 DEF JumpOps, ShortOps, CallOps
  <2> QED
    BY <2>1, <2>2, JRMachine
<1>3. CASE op \in CallOps
  <2>1. Transfer(m, op) \in {CALL(m, Always), CALL(m, cc)}
    BY <1>3 DEF Transfer, CallOps, Column, cc
  <2>2. op \notin JumpOps /\ op \notin ShortOps
    BY <1>3 DEF JumpOps, ShortOps, CallOps
  <2> QED
    BY <2>1, <2>2, CALLMachine
<1>4. CASE op \in ReturnOps
  <2>1. Transfer(m, op) \in {RET(m, Always, 16), RET(m, cc, 20)}
    BY <1>4 DEF Transfer, ReturnOps, Column, cc
  <2>2. op \notin JumpOps \cup ShortOps \cup CallOps
    BY <1>4 DEF JumpOps, ShortOps, CallOps, ReturnOps
  <2> QED
    BY <2>1, <2>2, RETMachine
<1>5. CASE op = \hD9
  <2>1. Transfer(m, op) = RETI(m)
    BY <1>5 DEF Transfer, Column
  <2>2. op \notin JumpOps \cup ShortOps \cup CallOps
    BY <1>5 DEF JumpOps, ShortOps, CallOps
  <2> QED
    BY <2>1, <2>2, RETIMachine
<1>6. CASE op = \hE9
  <2> DEFINE p == WithPC(m, Pair(m, 2))
  <2>1. Transfer(m, op) = Burn(p, 4)
    BY <1>6 DEF Transfer, Column, WithPC
  <2>2. Machine(p)
    BY PairWord, SetPC
  <2> HIDE DEF p
  <2> QED
    BY <1>6, <2>1, <2>2, SetClks DEF JumpOps, ShortOps, CallOps
<1>7. CASE op \in Restarts
  <2> DEFINE a == 8 * Row(op)
  <2>1. Transfer(m, op) = Rst(m, a)
    BY <1>7 DEF Transfer, Restarts, Column
  <2>2. a \in Words
    BY <1>7, WordsIs DEF Restarts, Row
  <2> HIDE DEF a
  <2>3. op \notin JumpOps \cup ShortOps \cup CallOps
    BY <1>7 DEF JumpOps, ShortOps, CallOps, Restarts
  <2> QED
    BY <2>1, <2>2, <2>3, RstMachine
<1> QED
  BY <1>1, <1>2, <1>3, <1>4, <1>5, <1>6, <1>7 DEF TransferOps

\* int 3.
Trapped(m) == [m EXCEPT !["trap"] = TRUE]

\* Every byte is an opcode of one of the groups.
LEMMA OpcodeTable ==
  ASSUME NEW op \in Byte
  PROVE  \/ op \in {\h00, \h10, \h76, \hF3, \hFB, \hCB}
         \/ op \in LoadOps \/ op \in LoadHighOps \/ op \in ArithmeticOps
         \/ op \in AccumulatorOps \/ op \in StackOps \/ op \in Undefined
         \/ op \in TransferOps
<1>1. op \in Nat /\ op < 256
  BY ByteIs
<1>2. CASE op < \h40
  <2>1. CASE Column(op) \in {2, 3, 4, 5, 6, 7}
    BY <1>1, <1>2, <2>1 DEF LoadOps, ArithmeticOps, AccumulatorOps
  <2>2. CASE Column(op) \in {0, 1}
    <3>1. op \in {\h00, \h08, \h10, \h18, \h20, \h28, \h30, \h38,
                 \h01, \h09, \h11, \h19, \h21, \h29, \h31, \h39}
      BY <1>1, <1>2, <2>2 DEF Column
    <3> QED
      BY <3>1 DEF LoadOps, ArithmeticOps, TransferOps, ShortOps
  <2> QED
    BY <1>1, <2>1, <2>2 DEF Column
<1>3. CASE op \in \h40 .. \hBF
  BY <1>3 DEF LoadOps, ArithmeticOps
<1>4. CASE op > \hBF /\ Column(op) = 6
  BY <1>1, <1>4 DEF ArithmeticOps
<1>5. CASE op > \hBF /\ Column(op) = 7
  <2>1. op \in Restarts
    BY <1>1, <1>5 DEF Restarts, Column
  <2> QED
    BY <2>1 DEF TransferOps
<1>6. CASE op > \hBF /\ Column(op) \in 0 .. 5
  <2>1. \E k \in 24 .. 31, c \in 0 .. 5 : op = 8 * k + c
    BY <1>1, <1>6 DEF Column
  <2> QED
    BY <1>1, <1>6, <2>1 DEF LoadHighOps, ArithmeticOps, StackOps, Undefined, TransferOps,
      JumpOps, CallOps, ReturnOps
<1> QED
  BY <1>1, <1>2, <1>3, <1>4, <1>5, <1>6 DEF Column

\* The groups do not overlap: each is executed by its own operator.
LEMMA ExecuteTable ==
  ASSUME NEW m, NEW op \in Byte
  PROVE  /\ op \in LoadOps => Execute(m, op) = Load(m, op)
         /\ op \in LoadHighOps => Execute(m, op) = LoadHigh(m, op)
         /\ op \in ArithmeticOps => Execute(m, op) = Arithmetic(m, op)
         /\ op \in AccumulatorOps => Execute(m, op) = Accumulator(m, op)
         /\ op \in StackOps => Execute(m, op) = Stack(m, op)
         /\ op \in Undefined => Execute(m, op) = Trapped(m)
         /\ op \in TransferOps => Execute(m, op) = Transfer(m, op)
<1>1. op \in Nat /\ op < 256
  BY ByteIs
<1>2. op \in LoadOps =>
        \/ op \in (\h40 .. \h7F) \ {\h76}
        \/ op < \h40 /\ Column(op) \in {2, 6}
        \/ op \in {\h01, \h11, \h21, \h31, \h08}
  BY DEF LoadOps
<1>3. op \in ArithmeticOps =>
        \/ op \in \h80 .. \hBF
        \/ op > \hBF /\ Column(op) = 6
        \/ op < \h40 /\ Column(op) \in {3, 4, 5}
        \/ op \in {\h09, \h19, \h29, \h39, \hE8}
  BY DEF ArithmeticOps
<1>4. op \in AccumulatorOps => op < \h40 /\ Column(op) = 7
  BY DEF AccumulatorOps
<1>5. op \in LoadHighOps \cup StackOps \cup Undefined =>
        op > \hBF /\ op # \hE8 /\ Column(op) \in 0 .. 5
  BY DEF LoadHighOps, StackOps, Undefined, Column
<1>6. op \in TransferOps =>
        \/ op > \hBF /\ op # \hE8 /\ Column(op) # 6
        \/ op < \h40 /\ Column(op) = 0 /\ op \notin {\h00, \h08, \h10}
  BY DEF TransferOps, Restarts, JumpOps, ShortOps, CallOps, ReturnOps, Column
<1>0. /\ Column(\h00) = 0 /\ Column(\h10) = 0 /\ Column(\h76) = 6 /\ Column(\h01) = 1
      /\ Column(\h11) = 1 /\ Column(\h21) = 1 /\ Column(\h31) = 1 /\ Column(\h08) = 0
      /\ Column(\h09) = 1 /\ Column(\h19) = 1 /\ Column(\h29) = 1 /\ Column(\h39) = 1
      /\ Column(\hF3) = 3 /\ Column(\hFB) = 3 /\ Column(\hCB) = 3
  BY DEF Column
<1>7. CASE op \in LoadOps
  <2>1. /\ op \notin LoadHighOps /\ op \notin ArithmeticOps /\ op \notin AccumulatorOps
        /\ op \notin StackOps /\ op \notin Undefined /\ op \notin TransferOps
        /\ op \notin {\h00, \h10, \h76, \hF3, \hFB, \hCB}
    BY <1>0, <1>1, <1>2, <1>3, <1>4, <1>5, <1>6, <1>7
  <2> QED
    BY <1>7, <2>1 DEF Execute
<1>8. CASE op \in ArithmeticOps
  <2>1. /\ op \notin LoadHighOps /\ op \notin LoadOps /\ op \notin AccumulatorOps
        /\ op \notin StackOps /\ op \notin Undefined /\ op \notin TransferOps
        /\ op \notin {\h00, \h10, \h76, \hF3, \hFB, \hCB}
    BY <1>0, <1>1, <1>2, <1>3, <1>4, <1>5, <1>6, <1>8
  <2> QED
    BY <1>8, <2>1 DEF Execute
<1>9. CASE op \in AccumulatorOps
  <2>1. /\ op \notin LoadHighOps /\ op \notin LoadOps /\ op \notin ArithmeticOps
        /\ op \notin StackOps /\ op \notin Undefined /\ op \notin TransferOps
        /\ op \notin {\h00, \h10, \h76, \hF3, \hFB, \hCB}
    BY <1>0, <1>1, <1>2, <1>3, <1>4, <1>5, <1>6, <1>9
  <2> QED
    BY <1>9, <2>1 DEF Execute
<1>10. CASE op \in LoadHighOps \cup StackOps \cup Undefined
  <2>1. /\ op \notin LoadOps /\ op \notin ArithmeticOps /\ op \notin AccumulatorOps
    BY <1>0, <1>1, <1>2, <1>3, <1>4, <1>5, <1>10
  <2>2. /\ op \notin {\h00, \h10, \h76, \hF3, \hFB, \hCB}
        /\ op \in LoadHighOps => op \notin StackOps \cup Undefined \cup TransferOps
        /\ op \in StackOps => op \notin LoadHighOps \cup Undefined \cup TransferOps
        /\ op \in Undefined => op \notin LoadHighOps \cup StackOps \cup TransferOps
    BY <1>10 DEF LoadHighOps, StackOps, Undefined, TransferOps, Restarts, JumpOps, ShortOps,
      CallOps, ReturnOps
  <2> QED
    BY <1>10, <2>1, <2>2 DEF Execute, Trapped
<1>11. CASE op \in TransferOps
  <2>1. /\ op \notin LoadOps /\ op \notin ArithmeticOps /\ op \notin AccumulatorOps
    BY <1>0, <1>1, <1>2, <1>3, <1>4, <1>6, <1>11
  <2>2. /\ op \notin {\h00, \h10, \h76, \hF3, \hFB, \hCB}
        /\ op \notin LoadHighOps /\ op \notin StackOps /\ op \notin Undefined
    BY <1>11 DEF LoadHighOps, StackOps, Undefined, TransferOps, Restarts, JumpOps, ShortOps,
      CallOps, ReturnOps
  <2> QED
    BY <1>11, <2>1, <2>2 DEF Execute
<1> QED
  BY <1>7, <1>8, <1>9, <1>10, <1>11

\* Every opcode leaves a machine: no register outgrows its field.
LEMMA ExecuteMachine ==
  ASSUME RomOK, NEW m, Machine(m), NEW op \in Byte
  PROVE  Machine(Execute(m, op))
<1>1. CASE op \in {\h00, \h76, \hF3, \hFB}
  <2> DEFINE halted == [m EXCEPT !.halt = TRUE]
             off == [m EXCEPT !.IME = FALSE]
             on == [m EXCEPT !.IME = TRUE]
  <2>1. op \notin LoadOps \cup LoadHighOps \cup ArithmeticOps \cup AccumulatorOps \cup StackOps
    BY <1>1 DEF LoadOps, LoadHighOps, ArithmeticOps, AccumulatorOps, StackOps, Column
  <2>2. Execute(m, op) \in {Burn(m, 4), Burn(halted, 4), Burn(off, 4), Burn(on, 4)}
    BY <1>1, <2>1 DEF Execute, Undefined
  <2>3. Machine(halted) /\ Machine(off) /\ Machine(on)
    <3>1. "halt" \in Switches /\ "IME" \in Switches
      BY DEF Switches
    <3> QED
      BY <3>1, SetSwitch
  <2> HIDE DEF halted, off, on
  <2> QED
    BY <2>2, <2>3, SetClks
<1>2. CASE op \in {\h10, \hCB}
  <2> DEFINE past == Past(m, 1)
  <2>1. op \notin LoadOps \cup LoadHighOps \cup ArithmeticOps \cup AccumulatorOps \cup StackOps
    BY <1>2 DEF LoadOps, LoadHighOps, ArithmeticOps, AccumulatorOps, StackOps, Column
  <2>2. Execute(m, op) \in {Stop(m), BitOps(past, Imm8(m))}
    BY <1>2, <2>1 DEF Execute, Undefined
  <2>3. Machine(past) /\ Imm8(m) \in Byte
    BY PastMachine, Imm
  <2> HIDE DEF past
  <2>4. Machine(BitOps(past, Imm8(m))) /\ Machine(Stop(m))
    BY <2>3, BitOpsMachine, StopMachine
  <2> QED
    BY <2>2, <2>4
<1>3. CASE op \in LoadOps \cup LoadHighOps \cup ArithmeticOps
  BY <1>3, ExecuteTable, LoadMachine, LoadHighMachine, ArithmeticMachine
<1>4. CASE op \in AccumulatorOps \cup StackOps
  BY <1>4, ExecuteTable, AccumulatorMachine, StackMachine
<1>5. CASE op \in Undefined
  <2>1. Machine(Trapped(m))
    BY SetSwitch DEF Switches, Trapped
  <2> QED
    BY <1>5, <2>1, ExecuteTable
<1>6. CASE op \in TransferOps
  BY <1>6, ExecuteTable, TransferMachine
<1> QED
  BY <1>1, <1>2, <1>3, <1>4, <1>5, <1>6, OpcodeTable

\* The fetch reads a byte and steps PC, unless HALT ended with IME off.
LEMMA FetchMachine ==
  ASSUME RomOK, Machine(cpu)
  PROVE  /\ Machine(Fetched) /\ Opcode \in Byte
         /\ Fetched.A = cpu.A /\ Fetched.F = cpu.F
         /\ Counter(Fetched) = Word(Counter(cpu) + 1 - One(cpu.backup))
<1> DEFINE pc == Word(Counter(cpu) + 1 - One(cpu.backup))
           m  == WithPC(cpu, pc)
<1>1. Counter(cpu) + 1 - One(cpu.backup) \in Int /\ cpu.PC \in Int
  BY Fieldwise, WordsIs DEF One
<1>2. pc \in Words /\ Opcode \in Byte
  BY <1>1, Widths, ReadByte DEF Opcode
<1>3. Fetched = [m EXCEPT !.backup = FALSE]
  BY DEF Fetched, WithPC, Counter
<1> HIDE DEF pc
<1>4. Machine(m) /\ Counter(m) = pc
  BY <1>2, SetPC
<1>5. m.A = cpu.A /\ m.F = cpu.F
  BY DEF WithPC, Machine, Fields, Registers
<1> HIDE DEF m
<1>6. Kept(m, [m EXCEPT !.backup = FALSE])
  BY <1>4, SetSwitch DEF Switches
<1>7. Fetched.A = m.A /\ Fetched.F = m.F
  BY <1>3, <1>4 DEF Machine, Fields, Registers
<1> QED
  BY <1>2, <1>3, <1>4, <1>5, <1>6, <1>7 DEF pc

CpuOK == RomOK /\ Machine(cpu)

\* The CPU starts as a machine.
LEMMA CpuInitOK == Init => CpuOK
<1> SUFFICES ASSUME Init PROVE CpuOK
  OBVIOUS
<1>1. RomOK
  BY DisassemblerAssumption DEF Init, RomOK
<1> QED
  BY <1>1, ResetMachine DEF Init, CpuInit, CpuOK

\* Every step keeps it one.
LEMMA CpuNextOK == CpuOK /\ [Next]_vars => CpuOK'
<1> SUFFICES ASSUME CpuOK, [Next]_vars PROVE CpuOK'
  OBVIOUS
<1> USE DEF CpuOK, RomOK
<1>1. CASE phase = "run" /\ Optick
  <2>1. Machine(Execute(Fetched, Opcode))
    BY FetchMachine, ExecuteMachine
  <2> QED
    BY <1>1, <2>1 DEF Optick
<1>2. CASE phase = "run" /\ Wake
  <2> DEFINE m == [cpu EXCEPT !.halt = FALSE]
  <2>1. cpu' = [m EXCEPT !.backup = TRUE]
    BY <1>2 DEF Wake
  <2>2. "halt" \in Switches /\ "backup" \in Switches
    BY DEF Switches
  <2>3. Machine(m)
    BY <2>2, SetSwitch
  <2> HIDE DEF m
  <2>4. Machine([m EXCEPT !.backup = TRUE])
    BY <2>2, <2>3, SetSwitch
  <2> QED
    BY <1>2, <2>1, <2>4 DEF Wake
<1>3. CASE UNCHANGED <<rom, cpu>>
  BY <1>3 DEF Machine
<1> QED
  BY <1>1, <1>2, <1>3 DEF Next, Run, getaddrmark, MarksDone, bankdis, ListDone, Fault, bankout,
    vars, cpuVars

\* The widths of struct cpu hold for every cartridge and every opcode: the
\* registers stay bytes, F keeps its low bits clear, PC and SP stay words, and
\* what is in memory stays bytes.
THEOREM CpuTypeCorrect == Spec => []CpuOK
<1> QED
  BY CpuInitOK, CpuNextOK, PTL DEF Spec

\* The carries of an addition, by the digits added: out of the low four bits,
\* and out of the byte.
LEMMA AddCarries ==
  ASSUME NEW a \in Byte, NEW v \in Byte, NEW c \in {0, 1}, NEW r, r = a + v + c
  PROVE  /\ CarryInto(4, a, v, r) <=> (a % 16) + (v % 16) + c > 15
         /\ Bit(r, 8) <=> r > 255
<1>1. a \in Nat /\ a < 256 /\ v \in Nat /\ v < 256 /\ r \in Nat /\ r < 512
  BY ByteIs
<1> QED
  BY <1>1 DEF CarryInto, Bit

\* The borrows of a subtraction, in the same way.
LEMMA SubCarries ==
  ASSUME NEW a \in Byte, NEW v \in Byte, NEW c \in {0, 1}, NEW r, r = a - v - c
  PROVE  /\ CarryInto(4, a, v, r) <=> a % 16 < (v % 16) + c
         /\ Bit(r, 15) <=> r < 0
<1>1. a \in Nat /\ a < 256 /\ v \in Nat /\ v < 256 /\ r \in Int /\ r < 256 /\ r >= -256
  BY ByteIs
<1> QED
  BY <1>1 DEF CarryInto, Bit

(***************************************************************************)
(* Decimal arithmetic.                                                     *)
(***************************************************************************)
Digits(x) == x = 16 * (x \div 16) + (x % 16) /\ x \div 16 \in 0 .. 9 /\ x % 16 \in 0 .. 9

\* A decimal byte is two decimal digits.
LEMMA DecimalDigits ==
  ASSUME NEW x \in Byte, Decimal(x)
  PROVE  Digits(x)
<1>1. x \in Nat /\ x < 160
  BY ByteIs DEF Decimal
<1> QED
  BY <1>1 DEF Decimal, Digits

\* What DAA makes of A, before the cut to a byte: after an addition, and after
\* a subtraction.
DaaUp(a, h, c) ==
  LET low == IF h \/ a % 16 > 9 THEN a + 6 ELSE a
  IN  IF c \/ low > 159 THEN low + 96 ELSE low

DaaDown(a, h, c) ==
  LET low == IF h THEN (a - 6) % 256 ELSE a
  IN  IF c THEN low - 96 ELSE low

\* The digits of two decimal bytes with a carry, their binary sum r, the byte x
\* and the flags of it, and the decimal sum t.
SumOf(ah, al, vh, vl, c, r, x, h, cy, t) ==
  /\ ah \in 0 .. 9 /\ al \in 0 .. 9 /\ vh \in 0 .. 9 /\ vl \in 0 .. 9 /\ c \in {0, 1}
  /\ r = 16 * (ah + vh) + al + vl + c /\ x = r % 256
  /\ h \in BOOLEAN /\ cy \in BOOLEAN
  /\ h <=> al + vl + c > 15
  /\ cy <=> r > 255
  /\ t = 10 * (ah + vh) + al + vl + c

DifferenceOf(ah, al, vh, vl, c, r, x, h, cy, t) ==
  /\ ah \in 0 .. 9 /\ al \in 0 .. 9 /\ vh \in 0 .. 9 /\ vl \in 0 .. 9 /\ c \in {0, 1}
  /\ r = 16 * (ah - vh) + (al - vl - c) /\ x = r % 256
  /\ h \in BOOLEAN /\ cy \in BOOLEAN
  /\ h <=> al < vl + c
  /\ cy <=> r < 0
  /\ t = 10 * (ah - vh) + (al - vl - c)

\* DAA turns the sum of two decimal bytes, with its carries, into the decimal
\* sum.
LEMMA DaaAfterAdd ==
  ASSUME NEW ah, NEW al, NEW vh, NEW vl, NEW c, NEW r, NEW x, NEW h, NEW cy, NEW t,
         SumOf(ah, al, vh, vl, c, r, x, h, cy, t)
  PROVE  /\ DaaUp(x, h, cy) % 256 = ToBcd(t % 100)
         /\ (cy \/ Bit(DaaUp(x, h, cy), 8)) <=> t > 99
         /\ DaaUp(x, h, cy) \in Nat
<1> USE DEF SumOf
<1> DEFINE s == al + vl + c
           k == IF s > 9 THEN 1 ELSE 0
           d == ah + vh + k
           u == s - 10 * k
           low  == IF h \/ x % 16 > 9 THEN x + 6 ELSE x
           high == IF cy \/ low > 159 THEN low + 96 ELSE low
<1>1. /\ k \in {0, 1} /\ d \in 0 .. 19 /\ u \in 0 .. 9 /\ t = 10 * d + u
      /\ s \in 0 .. 19 /\ r = 16 * (d - k) + s
  OBVIOUS
<1>2. t % 100 = 10 * (d % 10) + u /\ (t > 99 <=> d > 9)
  <2> HIDE DEF k, d, u, s
  <2> QED
    BY <1>1
<1>3. ToBcd(t % 100) = 16 * (d % 10) + u
  <2> HIDE DEF k, d, u, s
  <2> QED
    BY <1>1, <1>2 DEF ToBcd
<1>4. x \in Nat /\ x = IF cy THEN r - 256 ELSE r
  <2> HIDE DEF k, d, u, s
  <2> QED
    BY <1>1
<1>5. low = IF cy THEN 16 * d + u - 256 ELSE 16 * d + u
  <2>1. s = u + 10 * k /\ (k = 1 <=> s > 9) /\ (h <=> s > 15)
    OBVIOUS
  <2> HIDE DEF k, d, u, s
  <2>2. x % 16 = s % 16
    BY <1>1, <1>4
  <2> QED
    BY <1>1, <1>4, <2>1, <2>2
<1>6. cy => d > 9
  <2>1. s = u + 10 * k
    OBVIOUS
  <2> HIDE DEF k, d, u, s
  <2> QED
    BY <1>1, <2>1
<1>7. high = IF cy THEN 16 * d + u - 160 ELSE IF d > 9 THEN 16 * d + u + 96 ELSE 16 * d + u
  <2> HIDE DEF k, d, u, s, low
  <2> QED
    BY <1>1, <1>5 DEF high
<1>8. DaaUp(x, h, cy) = high
  BY DEF DaaUp
<1> HIDE DEF k, d, u, s, low, high
<1>9. high \in Nat /\ high % 256 = 16 * (d % 10) + u
  BY <1>1, <1>6, <1>7
<1>10. (cy \/ Bit(high, 8)) <=> d > 9
  BY <1>1, <1>6, <1>7, <1>9 DEF Bit
<1> QED
  BY <1>2, <1>3, <1>8, <1>9, <1>10

\* DAA turns their difference, with its borrows, into the decimal difference.
LEMMA DaaAfterSub ==
  ASSUME NEW ah, NEW al, NEW vh, NEW vl, NEW c, NEW r, NEW x, NEW h, NEW cy, NEW t,
         DifferenceOf(ah, al, vh, vl, c, r, x, h, cy, t)
  PROVE  /\ DaaDown(x, h, cy) % 256 = ToBcd(t % 100)
         /\ (cy \/ Bit(DaaDown(x, h, cy), 8)) <=> t < 0
         /\ DaaDown(x, h, cy) \in Nat
<1> USE DEF DifferenceOf
<1> DEFINE s == al - vl - c
           k == IF s < 0 THEN 1 ELSE 0
           d == ah - vh - k
           u == s + 10 * k
           lowN  == IF h THEN (x - 6) % 256 ELSE x
           highN == IF cy THEN lowN - 96 ELSE lowN
<1>1. /\ k \in {0, 1} /\ d \in -10 .. 9 /\ u \in 0 .. 9 /\ t = 10 * d + u
      /\ s \in -10 .. 9 /\ r = 16 * (d + k) + s /\ s = u - 10 * k /\ (k = 1 <=> s < 0)
      /\ (h <=> s < 0)
  OBVIOUS
<1> HIDE DEF s, k, d, u
<1>2. t % 100 = 10 * (d % 10) + u /\ (t < 0 <=> d < 0) /\ (r < 0 <=> d < 0)
  BY <1>1
<1>3. ToBcd(t % 100) = 16 * (d % 10) + u
  BY <1>1, <1>2 DEF ToBcd
<1>4. x \in Nat /\ x = IF cy THEN r + 256 ELSE r
  BY <1>1
<1>5. lowN = IF cy THEN 16 * d + u + 256 ELSE 16 * d + u
  BY <1>1, <1>2, <1>4
<1>6. highN = IF cy THEN 16 * d + u + 160 ELSE 16 * d + u
  <2> HIDE DEF lowN
  <2> QED
    BY <1>1, <1>5 DEF highN
<1>7. DaaDown(x, h, cy) = highN
  BY DEF DaaDown
<1> HIDE DEF lowN, highN
<1>8. highN \in Nat /\ highN < 256 /\ highN % 256 = 16 * (d % 10) + u
  BY <1>1, <1>2, <1>6
<1>9. (cy \/ Bit(highN, 8)) <=> d < 0
  BY <1>1, <1>2, <1>8 DEF Bit
<1> QED
  BY <1>2, <1>3, <1>7, <1>8, <1>9

\* What DAA makes of A in m, and that this is the decimal result d.
DaaOf(m) == IF NSet(m) THEN DaaDown(m.A, HSet(m), CSet(m)) ELSE DaaUp(m.A, HSet(m), CSet(m))

Adjusted(m, d) ==
  /\ d[1] \in 0 .. 99 /\ d[2] \in BOOLEAN
  /\ DaaOf(m) % 256 = ToBcd(d[1])
  /\ (CSet(m) \/ Bit(DaaOf(m), 8)) <=> d[2]

\* What was set is read.
LEMMA GetAF ==
  ASSUME NEW m, Machine(m), NEW a, NEW f
  PROVE  WithAF(m, a, f).A = a /\ WithAF(m, a, f).F = f
BY DEF WithAF, Machine, Fields, Registers

\* The clocks are not in A or F.
LEMMA BurnAF ==
  ASSUME NEW m, Machine(m), NEW n
  PROVE  Burn(m, n).A = m.A /\ Burn(m, n).F = m.F
BY DEF Burn, Machine, Fields, Registers

\* Nor is PC.
LEMMA PastAF ==
  ASSUME NEW m, Machine(m), NEW n
  PROVE  Past(m, n).A = m.A /\ Past(m, n).F = m.F
BY DEF Past, Machine, Fields, Registers

\* Zero alone is written as zero.
LEMMA BcdZero == ASSUME NEW n \in 0 .. 99 PROVE ToBcd(n) = 0 <=> n = 0
BY DEF ToBcd

\* After an adjusted operation DAA shows the decimal result.
LEMMA DaaShows ==
  ASSUME NEW m, Machine(m), NEW d, Adjusted(m, d)
  PROVE  /\ Daa(m).A = ToBcd(d[1])
         /\ CSet(Daa(m)) = d[2]
         /\ ZSet(Daa(m)) = (d[1] = 0)
<1> DEFINE y == DaaOf(m)
           z == y % 256 = 0
           n == NSet(m)
           c == CSet(m) \/ Bit(y, 8)
           f == Flags(z, n, FALSE, c)
<1>1. Daa(m) = WithAF(m, y % 256, f)
  BY DEF Daa, DaaOf, DaaUp, DaaDown, WithAF
<1>2. /\ y % 256 = ToBcd(d[1]) /\ (c <=> d[2]) /\ (z <=> d[1] = 0)
      /\ d[2] \in BOOLEAN
  BY BcdZero DEF Adjusted
<1> HIDE DEF y, z, c, n
<1>3. (Bit(f, 7) <=> z) /\ (Bit(f, 4) <=> c)
  BY DEF Flags, One, Bit
<1> HIDE DEF f
<1>4. Daa(m).A = y % 256 /\ Daa(m).F = f
  BY <1>1, GetAF
<1>5. (CSet(Daa(m)) <=> d[2]) /\ (ZSet(Daa(m)) <=> d[1] = 0)
  BY <1>2, <1>3, <1>4 DEF CSet, ZSet
<1>6. CSet(Daa(m)) \in BOOLEAN /\ ZSet(Daa(m)) \in BOOLEAN
  BY DEF CSet, ZSet, Bit
<1>7. CSet(Daa(m)) = d[2]
  BY <1>2, <1>5, <1>6
<1>8. ZSet(Daa(m)) = (d[1] = 0)
  BY <1>5, <1>6
<1> QED
  BY <1>2, <1>4, <1>7, <1>8

\* ADD and ADC of decimal bytes are adjusted to their sum.
LEMMA AddAdjusted ==
  ASSUME NEW m, Machine(m), Decimal(m.A), NEW v \in Byte, Decimal(v), NEW c \in {0, 1},
         NEW t, t = FromBcd(m.A) + FromBcd(v) + c
  PROVE  Adjusted(Add(m, v, c), <<t % 100, t \notin 0 .. 99>>)
<1> DEFINE a  == m.A
           ah == a \div 16
           al == a % 16
           vh == v \div 16
           vl == v % 16
           r  == m.A + v + c
           x  == r % 256
           z  == x = 0
           h  == CarryInto(4, m.A, v, r)
           cy == Bit(r, 8)
           f  == Flags(z, FALSE, h, cy)
           n  == Add(m, v, c)
<1>1. a \in Byte
  BY Fieldwise
<1>2. Digits(a) /\ Digits(v)
  BY <1>1, DecimalDigits
<1>3. /\ ah \in 0 .. 9 /\ al \in 0 .. 9 /\ vh \in 0 .. 9 /\ vl \in 0 .. 9
      /\ a = 16 * ah + al /\ v = 16 * vh + vl
  BY <1>2 DEF Digits
<1>4. (h <=> al + vl + c > 15) /\ (cy <=> r > 255) /\ h \in BOOLEAN /\ cy \in BOOLEAN
  BY <1>1, AddCarries DEF CarryInto, Bit
<1>5. n = WithAF(m, x, f)
  BY DEF Add, WithAF
<1>6. ~Bit(f, 6) /\ (Bit(f, 5) <=> h) /\ (Bit(f, 4) <=> cy)
  <2> HIDE DEF z, h, cy
  <2> QED
    BY DEF Flags, One, Bit
<1>7. n.A = x /\ n.F = f
  <2> HIDE DEF n, x, f
  <2> QED
    BY <1>5, GetAF
<1>8. ~NSet(n) /\ HSet(n) = h /\ CSet(n) = cy
  <2>1. HSet(n) \in BOOLEAN /\ CSet(n) \in BOOLEAN
    BY DEF HSet, CSet, Bit
  <2> HIDE DEF n, x, f, h, cy
  <2>2. ~NSet(n) /\ (HSet(n) <=> h) /\ (CSet(n) <=> cy)
    BY <1>6, <1>7 DEF NSet, HSet, CSet
  <2> QED
    BY <1>4, <2>1, <2>2
<1>9. t = 10 * (ah + vh) + al + vl + c /\ r = 16 * (ah + vh) + al + vl + c
  <2>1. t = 10 * ah + al + (10 * vh + vl) + c
    BY DEF FromBcd
  <2> HIDE DEF ah, al, vh, vl
  <2> QED
    BY <1>3, <2>1
<1>10. x = r % 256
  OBVIOUS
<1> HIDE DEF a, ah, al, vh, vl, r, x, z, h, cy, f, n
<1> DEFINE y == DaaUp(x, h, cy)
<1>11. y % 256 = ToBcd(t % 100) /\ ((cy \/ Bit(y, 8)) <=> t > 99)
  <2>1. SumOf(ah, al, vh, vl, c, r, x, h, cy, t)
    BY <1>3, <1>4, <1>9, <1>10 DEF SumOf
  <2> QED
    BY <2>1, DaaAfterAdd
<1>12. t \in Nat /\ t % 100 \in 0 .. 99
  BY <1>3, <1>9
<1> DEFINE u == t % 100
           over == t \notin 0 .. 99
           d == <<u, over>>
<1>13. (over <=> t > 99) /\ over \in BOOLEAN /\ u \in 0 .. 99
  BY <1>12
<1>14. DaaOf(n) = y
  BY <1>7, <1>8 DEF DaaOf
<1> HIDE DEF y, u, over
<1>15. d[1] = u /\ d[2] = over
  OBVIOUS
<1> HIDE DEF d
<1>16. Adjusted(n, d)
  BY <1>8, <1>11, <1>13, <1>14, <1>15 DEF Adjusted, u
<1> QED
  BY <1>16 DEF n, d, u, over

\* SUB and SBC of decimal bytes are adjusted to their difference.
LEMMA SubAdjusted ==
  ASSUME NEW m, Machine(m), Decimal(m.A), NEW v \in Byte, Decimal(v), NEW c \in {0, 1},
         NEW t, t = FromBcd(m.A) - FromBcd(v) - c
  PROVE  Adjusted(Sub(m, v, c), <<t % 100, t \notin 0 .. 99>>)
<1> DEFINE a  == m.A
           ah == a \div 16
           al == a % 16
           vh == v \div 16
           vl == v % 16
           r  == m.A - v - c
           x  == r % 256
           z  == x = 0
           h  == CarryInto(4, m.A, v, r)
           cy == Bit(r, 15)
           f  == Flags(z, TRUE, h, cy)
           n  == Sub(m, v, c)
<1>1. a \in Byte
  BY Fieldwise
<1>2. Digits(a) /\ Digits(v)
  BY <1>1, DecimalDigits
<1>3. /\ ah \in 0 .. 9 /\ al \in 0 .. 9 /\ vh \in 0 .. 9 /\ vl \in 0 .. 9
      /\ a = 16 * ah + al /\ v = 16 * vh + vl
  BY <1>2 DEF Digits
<1>4. (h <=> al < vl + c) /\ (cy <=> r < 0) /\ h \in BOOLEAN /\ cy \in BOOLEAN
  BY <1>1, SubCarries DEF CarryInto, Bit
<1>5. n = WithAF(m, x, f)
  BY DEF Sub, WithAF
<1>6. Bit(f, 6) /\ (Bit(f, 5) <=> h) /\ (Bit(f, 4) <=> cy)
  <2> HIDE DEF z, h, cy
  <2> QED
    BY DEF Flags, One, Bit
<1>7. n.A = x /\ n.F = f
  <2> HIDE DEF n, x, f
  <2> QED
    BY <1>5, GetAF
<1>8. NSet(n) /\ HSet(n) = h /\ CSet(n) = cy
  <2>1. HSet(n) \in BOOLEAN /\ CSet(n) \in BOOLEAN
    BY DEF HSet, CSet, Bit
  <2> HIDE DEF n, x, f, h, cy
  <2>2. NSet(n) /\ (HSet(n) <=> h) /\ (CSet(n) <=> cy)
    BY <1>6, <1>7 DEF NSet, HSet, CSet
  <2> QED
    BY <1>4, <2>1, <2>2
<1>9. t = 10 * (ah - vh) + (al - vl - c) /\ r = 16 * (ah - vh) + (al - vl - c)
  <2>1. t = (10 * ah + al) - (10 * vh + vl) - c /\ r = a - v - c
    BY DEF FromBcd
  <2> HIDE DEF a, ah, al, vh, vl, r
  <2> QED
    BY <1>3, <2>1
<1>10. x = r % 256
  OBVIOUS
<1> HIDE DEF a, ah, al, vh, vl, r, x, z, h, cy, f, n
<1> DEFINE y == DaaDown(x, h, cy)
<1>11. y % 256 = ToBcd(t % 100) /\ ((cy \/ Bit(y, 8)) <=> t < 0)
  <2>1. DifferenceOf(ah, al, vh, vl, c, r, x, h, cy, t)
    BY <1>3, <1>4, <1>9, <1>10 DEF DifferenceOf
  <2> QED
    BY <2>1, DaaAfterSub
<1>12. t \in Int /\ t < 100 /\ t % 100 \in 0 .. 99
  <2>1. ah - vh \in -9 .. 9 /\ al - vl - c \in -10 .. 9
    BY <1>3
  <2>2. t \in Int /\ t < 100
    BY <1>9, <2>1
  <2> QED
    BY <2>2
<1> DEFINE u == t % 100
           over == t \notin 0 .. 99
           d == <<u, over>>
<1>13. (over <=> t < 0) /\ over \in BOOLEAN /\ u \in 0 .. 99
  BY <1>12
<1>14. DaaOf(n) = y
  BY <1>7, <1>8 DEF DaaOf
<1> HIDE DEF y, u, over
<1>15. d[1] = u /\ d[2] = over
  OBVIOUS
<1> HIDE DEF d
<1>16. Adjusted(n, d)
  BY <1>8, <1>11, <1>13, <1>14, <1>15 DEF Adjusted, u
<1> QED
  BY <1>16 DEF n, d, u, over

\* A and F alone decide that.
LEMMA AdjustedSame ==
  ASSUME NEW m, NEW n, NEW d, n.A = m.A, n.F = m.F, Adjusted(m, d)
  PROVE  Adjusted(n, d)
<1>1. NSet(n) = NSet(m) /\ HSet(n) = HSet(m) /\ CSet(n) = CSet(m)
  BY DEF NSet, HSet, CSet
<1>2. DaaOf(n) = DaaOf(m)
  BY <1>1 DEF DaaOf
<1> QED
  BY <1>1, <1>2 DEF Adjusted

\* The opcodes of DecimalResult.
DecimalOps == \h80 .. \h9F \cup {\hC6, \hCE, \hD6, \hDE}

\* Every opcode that the history takes for decimal leaves a machine adjusted to
\* the result.
LEMMA ResultAdjusted ==
  ASSUME RomOK, NEW m, Machine(m), NEW op \in Byte, DecimalResult(m, op) # NotDecimal
  PROVE  Adjusted(Execute(m, op), DecimalResult(m, op))
<1> DEFINE v == IF op < \hC0 THEN R(m, Column(op)) ELSE Imm8(m)
           carry == One(Row(op) \in {1, 3} /\ CSet(m))
           sum == FromBcd(m.A) + FromBcd(v) + carry
           difference == FromBcd(m.A) - FromBcd(v) - carry
           t == IF Row(op) < 2 THEN sum ELSE difference
           d == <<t % 100, t \notin 0 .. 99>>
           past == Past(m, 1)
           p == IF op < \hC0 THEN m ELSE past
           q == IF Row(op) < 2 THEN Add(p, v, carry) ELSE Sub(p, v, carry)
           n == IF op < \hC0 THEN IF Column(op) = 6 THEN 8 ELSE 4 ELSE 8
<1>1. op \in DecimalOps /\ Decimal(m.A) /\ Decimal(v) /\ DecimalResult(m, op) = d
  BY DEF DecimalResult, DecimalOps
<1>2. v \in Byte
  BY Columns, RByte, Imm
<1>3. carry \in {0, 1}
  BY DEF One
<1>4. Machine(past) /\ past.A = m.A /\ past.F = m.F
  BY PastMachine, PastAF
<1> HIDE DEF past
<1>5. Machine(p) /\ p.A = m.A /\ p.F = m.F
  BY <1>4
<1>6. Row(op) \in 0 .. 3 /\ op \in Nat
  BY <1>1, ByteIs DEF DecimalOps, Row
<1>7. CSet(p) = CSet(m)
  BY <1>5 DEF CSet
<1> HIDE DEF v, p
<1>8. Alu(p, Row(op), v) = q
  <2>1. CASE Row(op) = 0
    <3>1. carry = 0
      BY <2>1 DEF One
    <3> QED
      BY <2>1, <3>1 DEF Alu
  <2>2. CASE Row(op) = 1
    <3>1. carry = One(CSet(p))
      BY <1>7, <2>2 DEF One
    <3> QED
      BY <2>2, <3>1 DEF Alu
  <2>3. CASE Row(op) = 2
    <3>1. carry = 0
      BY <2>3 DEF One
    <3> QED
      BY <2>3, <3>1 DEF Alu
  <2>4. CASE Row(op) = 3
    <3>1. carry = One(CSet(p))
      BY <1>7, <2>4 DEF One
    <3> QED
      BY <2>4, <3>1 DEF Alu
  <2> QED
    BY <1>6, <2>1, <2>2, <2>3, <2>4
<1>9. Execute(m, op) = Burn(q, n)
  <2>1. op \in ArithmeticOps
    BY <1>1 DEF ArithmeticOps, DecimalOps, Column
  <2>2. CASE op < \hC0
    <3>1. op \in \h80 .. \hBF /\ p = m /\ v = R(m, Column(op))
      BY <1>1, <2>2 DEF DecimalOps, p, v
    <3>2. Arithmetic(m, op) = Burn(Alu(p, Row(op), v), n)
      BY <3>1 DEF Arithmetic
    <3> QED
      BY <1>8, <2>1, <3>2, ExecuteTable
  <2>3. CASE op >= \hC0
    <3>1. op > \hBF /\ Column(op) = 6 /\ p = past /\ v = Imm8(m)
      BY <1>1, <2>3 DEF DecimalOps, p, v, Column
    <3>2. Arithmetic(m, op) = Burn(Alu(p, Row(op), v), 8)
      BY <1>6, <3>1 DEF Arithmetic, past, Column
    <3>3. n = 8
      BY <2>3, <1>6
    <3> QED
      BY <1>8, <2>1, <3>2, <3>3, ExecuteTable
  <2> QED
    BY <1>6, <2>2, <2>3
<1> HIDE DEF carry
<1>10. Machine(q) /\ Adjusted(q, d)
  <2>1. CASE Row(op) < 2
    <3>1. t = FromBcd(p.A) + FromBcd(v) + carry /\ q = Add(p, v, carry)
      BY <1>5, <2>1
    <3> HIDE DEF t, q
    <3>2. Decimal(p.A)
      BY <1>1, <1>5
    <3>3. Adjusted(Add(p, v, carry), d)
      BY <1>1, <1>2, <1>3, <1>5, <3>1, <3>2, AddAdjusted
    <3>4. v \in Int /\ carry \in Int
      BY <1>2, <1>3, ByteIs
    <3>5. Machine(Add(p, v, carry))
      BY <1>5, <3>4, AddMachine
    <3> QED
      BY <3>1, <3>3, <3>5
  <2>2. CASE ~(Row(op) < 2)
    <3>1. t = FromBcd(p.A) - FromBcd(v) - carry /\ q = Sub(p, v, carry)
      BY <1>5, <2>2
    <3> HIDE DEF t, q
    <3>2. Decimal(p.A)
      BY <1>1, <1>5
    <3>3. Adjusted(Sub(p, v, carry), d)
      BY <1>1, <1>2, <1>3, <1>5, <3>1, <3>2, SubAdjusted
    <3>4. v \in Int /\ carry \in Int
      BY <1>2, <1>3, ByteIs
    <3>5. Machine(Sub(p, v, carry))
      BY <1>5, <3>4, SubMachine
    <3> QED
      BY <3>1, <3>3, <3>5
  <2> QED
    BY <2>1, <2>2
<1> HIDE DEF q, d, n
<1>11. Burn(q, n).A = q.A /\ Burn(q, n).F = q.F
  BY <1>10, BurnAF
<1> QED
  BY <1>1, <1>9, <1>10, <1>11, AdjustedSame

\* The opcode \h27 is DAA.
LEMMA DaaExecuted ==
  ASSUME RomOK, NEW m, Machine(m)
  PROVE  Execute(m, \h27) = Burn(Daa(m), 4)
<1>1. \h27 \in AccumulatorOps /\ \h27 \in Byte
  BY ByteIs DEF AccumulatorOps, Column
<1>2. Accumulator(m, \h27) = Burn(Daa(m), 4)
  BY DEF Accumulator
<1> QED
  BY <1>1, <1>2, ExecuteTable

\* The history holds what a DAA would show now.
DecimalInv == CpuOK /\ (dec # NotDecimal => Adjusted(cpu, dec))

\* Every step keeps the history true of the machine.
LEMMA DecimalNext == DecimalInv /\ [Next]_vars => DecimalInv'
<1> SUFFICES ASSUME DecimalInv, [Next]_vars PROVE DecimalInv'
  OBVIOUS
<1>1. CpuOK'
  BY CpuNextOK DEF DecimalInv
<1>2. CASE phase = "run" /\ Optick
  <2>1. dec' # NotDecimal => Adjusted(Execute(Fetched, Opcode), dec')
    BY <1>2, FetchMachine, ResultAdjusted DEF Optick, DecimalInv, CpuOK
  <2> QED
    BY <1>1, <1>2, <2>1 DEF Optick, DecimalInv
<1>3. CASE phase = "run" /\ Wake
  BY <1>1, <1>3 DEF Wake, DecimalInv
<1>4. CASE UNCHANGED <<cpu, dec>>
  BY <1>1, <1>4, AdjustedSame DEF DecimalInv
<1> QED
  BY <1>2, <1>3, <1>4 DEF Next, Run, getaddrmark, MarksDone, bankdis, ListDone, Fault, bankout,
    vars, cpuVars

\* So a DAA shows the result the history holds.
LEMMA DecimalStep ==
  ASSUME DecimalInv, Opcode = \h27, dec # NotDecimal, Optick
  PROVE  /\ cpu'.A = ToBcd(dec[1])
         /\ CSet(cpu') = dec[2]
         /\ ZSet(cpu') = (dec[1] = 0)
<1> DEFINE m == Fetched
           n == Daa(m)
<1>1. Machine(m) /\ Adjusted(m, dec)
  BY FetchMachine, AdjustedSame DEF DecimalInv, CpuOK
<1>2. cpu' = Burn(n, 4)
  BY <1>1, DaaExecuted DEF Optick, DecimalInv, CpuOK
<1> HIDE DEF m
<1>3. /\ n.A = ToBcd(dec[1]) /\ CSet(n) = dec[2] /\ ZSet(n) = (dec[1] = 0)
      /\ Machine(n)
  BY <1>1, DaaShows, DaaMachine
<1> HIDE DEF n
<1>4. cpu'.A = n.A /\ cpu'.F = n.F
  BY <1>2, <1>3, BurnAF
<1>5. CSet(cpu') = CSet(n) /\ ZSet(cpu') = ZSet(n)
  BY <1>4 DEF CSet, ZSet
<1> QED
  BY <1>3, <1>4, <1>5

\* DecimalExact, for every cartridge: after an ADD, ADC, SUB or SBC of two
\* decimal bytes DAA leaves the decimal result and its carry, for any operands
\* and any carry in.
THEOREM DecimalCorrect == Spec => DecimalExact
<1>1. Init => DecimalInv
  BY CpuInitOK DEF Init, CpuInit, DecimalInv
<1>2. DecimalInv /\ [Next]_vars =>
        [Opcode = \h27 /\ dec # NotDecimal /\ Optick
           => /\ cpu'.A = ToBcd(dec[1])
              /\ CSet(cpu') = dec[2]
              /\ ZSet(cpu') = (dec[1] = 0)]_<<rom, cpuVars>>
  BY DecimalStep
<1> QED
  BY <1>1, <1>2, DecimalNext, PTL DEF Spec, DecimalExact

\* The opcodes of the three trackers, as sets.
LEMMA TrackerSets ==
  /\ ToSet(Longs) = JumpOps /\ ToSet(Calls) = CallOps /\ ToSet(Shorts) = ShortOps
<1>1. DOMAIN Longs = 1 .. 5 /\ DOMAIN Calls = 1 .. 5 /\ DOMAIN Shorts = 1 .. 5
  BY DEF Longs, Calls, Shorts
<1>2. /\ ToSet(Longs) = {Longs[1], Longs[2], Longs[3], Longs[4], Longs[5]}
      /\ ToSet(Calls) = {Calls[1], Calls[2], Calls[3], Calls[4], Calls[5]}
      /\ ToSet(Shorts) = {Shorts[1], Shorts[2], Shorts[3], Shorts[4], Shorts[5]}
  BY <1>1 DEF ToSet
<1>3. /\ Longs[1] = \hC3 /\ Longs[2] = \hC2 /\ Longs[3] = \hD2 /\ Longs[4] = \hCA /\ Longs[5] = \hDA
      /\ Calls[1] = \hCD /\ Calls[2] = \hC4 /\ Calls[3] = \hD4 /\ Calls[4] = \hCC /\ Calls[5] = \hDC
      /\ Shorts[1] = \h18 /\ Shorts[2] = \h20 /\ Shorts[3] = \h30 /\ Shorts[4] = \h28
      /\ Shorts[5] = \h38
  BY DEF Longs, Calls, Shorts
<1> QED
  BY <1>2, <1>3 DEF JumpOps, CallOps, ShortOps

Branches == JumpOps \cup CallOps \cup ShortOps
ThreeBytes == {\h01, \h11, \h21, \h31, \h08, \hEA, \hFA}
TwoBytes == {\h10, \hCB, \hE0, \hE2, \hE8, \hF0, \hF2, \hF8}

\* The table cpu_lens, with the trackers as sets.
LEMMA Lens ==
  ASSUME NEW op
  PROVE  cpu_lens(op) = IF op \in ThreeBytes \cup JumpOps \cup CallOps THEN 3
                        ELSE IF \/ op < \h40 /\ Column(op) = 6
                                \/ op > \hBF /\ Column(op) = 6
                                \/ op \in TwoBytes \cup ShortOps
                             THEN 2 ELSE 1
BY TrackerSets DEF cpu_lens, ThreeBytes, TwoBytes

\* An opcode that is no branch, and none of the exceptions the property names,
\* moves PC by its length in cpu_lens.
LEMMA LengthsAgree ==
  ASSUME RomOK, NEW m, Machine(m), NEW op \in Byte,
         op \notin Unlisted \cup DifferentLength \cup Branches
  PROVE  Counter(Execute(m, op)) = Word(Counter(m) + (cpu_lens(op) - 1))
<1>0. op \in Nat /\ op < 256 /\ Word(Counter(m) + 0) = Counter(m)
  BY Fieldwise, ByteIs, WordsIs DEF Word
<1>1. /\ op \notin DifferentLength /\ op \notin Undefined /\ op \notin TransferOps
  <2>1. op \in TransferOps => op \in Unlisted \cup Branches
    BY DEF TransferOps, Unlisted, Branches, Restarts, ReturnOps, Column
  <2> QED
    BY <2>1 DEF Unlisted
<1>2. op \notin JumpOps /\ op \notin CallOps /\ op \notin ShortOps
  BY DEF Branches
<1>3. cpu_lens(op) = IF op \in ThreeBytes THEN 3
                     ELSE IF \/ op < \h40 /\ Column(op) = 6
                             \/ op > \hBF /\ Column(op) = 6
                             \/ op \in TwoBytes
                          THEN 2 ELSE 1
  BY <1>2, Lens
<1>4. CASE op \in {\h00, \h76, \hF3, \hFB}
  <2> DEFINE halted == [m EXCEPT !.halt = TRUE]
             off == [m EXCEPT !.IME = FALSE]
             on == [m EXCEPT !.IME = TRUE]
  <2>1. op \notin LoadOps \cup LoadHighOps \cup ArithmeticOps \cup AccumulatorOps \cup StackOps
    BY <1>4 DEF LoadOps, LoadHighOps, ArithmeticOps, AccumulatorOps, StackOps, Column
  <2>2. Execute(m, op) \in {Burn(m, 4), Burn(halted, 4), Burn(off, 4), Burn(on, 4)}
    BY <1>4, <2>1 DEF Execute, Undefined
  <2>3. Kept(m, halted) /\ Kept(m, off) /\ Kept(m, on)
    <3>1. "halt" \in Switches /\ "IME" \in Switches
      BY DEF Switches
    <3> QED
      BY <3>1, SetSwitch
  <2> HIDE DEF halted, off, on
  <2>4. Counter(Execute(m, op)) = Counter(m)
    BY <2>2, <2>3, SetClks
  <2>5. cpu_lens(op) = 1
    BY <1>3, <1>4 DEF ThreeBytes, TwoBytes, Column
  <2> QED
    BY <1>0, <2>4, <2>5
<1>5. CASE op \in {\h10, \hCB}
  <2> DEFINE past == Past(m, 1)
  <2>1. op \notin LoadOps \cup LoadHighOps \cup ArithmeticOps \cup AccumulatorOps \cup StackOps
    BY <1>5 DEF LoadOps, LoadHighOps, ArithmeticOps, AccumulatorOps, StackOps, Column
  <2>2. Execute(m, op) \in {Stop(m), BitOps(past, Imm8(m))}
    BY <1>5, <2>1 DEF Execute, Undefined
  <2>3. Machine(past) /\ Counter(past) = Word(Counter(m) + 1) /\ Imm8(m) \in Byte
    BY PastMachine, Imm
  <2> HIDE DEF past
  <2>4. Kept(past, BitOps(past, Imm8(m))) /\ Counter(Stop(m)) = Word(Counter(m) + 1)
    BY <2>3, BitOpsMachine, StopMachine
  <2>5. cpu_lens(op) = 2
    BY <1>3, <1>5 DEF ThreeBytes, TwoBytes
  <2> QED
    BY <2>2, <2>3, <2>4, <2>5
<1>6. CASE op \in LoadOps
  <2>1. Execute(m, op) = Load(m, op)
    BY <1>6, ExecuteTable
  <2>2. op < \h80
    BY <1>6 DEF LoadOps
  <2>3. op \notin TwoBytes
    BY <1>6 DEF LoadOps, TwoBytes, Column
  <2>4. op \in ThreeBytes <=> op \in {\h01, \h11, \h21, \h31, \h08}
    BY <2>2 DEF ThreeBytes
  <2> QED
    BY <1>0, <1>3, <1>6, <2>1, <2>2, <2>3, <2>4, LoadMachine
<1>7. CASE op \in LoadHighOps
  <2>1. Execute(m, op) = LoadHigh(m, op)
    BY <1>7, ExecuteTable
  <2>2. op \in {\hE0, \hF0, \hF8, \hEA, \hFA, \hF9}
    BY <1>1, <1>7 DEF LoadHighOps, DifferentLength
  <2>3. /\ op \in {\hE0, \hF0, \hF8} => cpu_lens(op) = 2
        /\ op \in {\hEA, \hFA} => cpu_lens(op) = 3
        /\ op = \hF9 => cpu_lens(op) = 1
    BY <1>3 DEF ThreeBytes, TwoBytes, Column
  <2> QED
    BY <1>0, <1>7, <2>1, <2>2, <2>3, LoadHighMachine
<1>8. CASE op \in ArithmeticOps
  <2>1. Execute(m, op) = Arithmetic(m, op)
    BY <1>8, ExecuteTable
  <2>2. op \notin ThreeBytes
    BY <1>8 DEF ArithmeticOps, ThreeBytes, Column
  <2>3. op > \hBF <=> (op = \hE8 \/ (op > \hBF /\ Column(op) = 6))
    BY <1>0, <1>8 DEF ArithmeticOps
  <2>4. op \in TwoBytes => op = \hE8
    BY <1>8 DEF ArithmeticOps, TwoBytes, Column
  <2>5. ~(op < \h40 /\ Column(op) = 6)
    BY <1>8 DEF ArithmeticOps, Column
  <2>6. cpu_lens(op) = IF op > \hBF THEN 2 ELSE 1
    BY <1>3, <2>2, <2>3, <2>4, <2>5 DEF TwoBytes
  <2> QED
    BY <1>0, <1>8, <2>1, <2>6, ArithmeticMachine
<1>9. CASE op \in AccumulatorOps
  <2>1. Execute(m, op) = Accumulator(m, op)
    BY <1>9, ExecuteTable
  <2>2. cpu_lens(op) = 1
    <3>1. op \in {\h07, \h0F, \h17, \h1F, \h27, \h2F, \h37, \h3F}
      BY <1>0, <1>9 DEF AccumulatorOps, Column
    <3> QED
      BY <1>3, <3>1 DEF ThreeBytes, TwoBytes, Column
  <2> QED
    BY <1>0, <1>9, <2>1, <2>2, AccumulatorMachine
<1>10. CASE op \in StackOps
  <2>1. Execute(m, op) = Stack(m, op)
    BY <1>10, ExecuteTable
  <2>2. cpu_lens(op) = 1
    BY <1>3, <1>10 DEF StackOps, ThreeBytes, TwoBytes, Column
  <2> QED
    BY <1>0, <1>10, <2>1, <2>2, StackMachine
<1> QED
  BY <1>1, <1>4, <1>5, <1>6, <1>7, <1>8, <1>9, <1>10, OpcodeTable

\* The cartridge is addressed without a bank controller: it lies below 0x8000
\* as a whole, in two banks at most.  The listing gives every bank after the
\* first the same base, so of a third bank no address can tell.
Unbanked == promsize <= 2 /\ promsize * BankSize <= 2^15

RomSize == promsize * BankSize

\* The sizes of a cartridge that is addressed without a bank controller.
LEMMA RomSizeIs ==
  ASSUME Unbanked
  PROVE  /\ promsize \in {1, 2} /\ BankSize \in Nat /\ BankSize > 0
         /\ RomSize = IF promsize = 1 THEN BankSize ELSE 2 * BankSize
         /\ RomSize \in Nat /\ RomSize <= 32768
BY DisassemblerAssumption DEF Unbanked, RomSize

\* The CPU reads the cartridge.
LEMMA RomRead ==
  ASSUME RomOK, Unbanked, NEW m, NEW a \in Nat, a < RomSize
  PROVE  MmuRead(m, a) = rom[a] /\ rom[a] \in Byte
<1>1. DOMAIN rom = 0 .. RomSize - 1 /\ rom \in [0 .. RomSize - 1 -> Byte]
  BY DEF RomOK, RomSize
<1>2. a \in 0 .. RomSize - 1 /\ a < 65536 /\ Word(a) = a
  BY RomSizeIs DEF Word
<1> QED
  BY <1>1, <1>2 DEF MmuRead

\* The word at an address.
RomWord(r, a) == r[a] + 256 * r[a + 1]

\* Where the branch op at address a leads.
Target(r, a, op) ==
  IF op \in ShortOps THEN Word(a + 2 + Signed(r[a + 1])) ELSE RomWord(r, a + 1)

\* The operands the CPU reads are the bytes behind the opcode.
LEMMA OperandRead ==
  ASSUME RomOK, Unbanked, NEW m, NEW a \in Nat, Counter(m) = a + 1, a + 2 < RomSize
  PROVE  Imm8(m) = rom[a + 1] /\ Imm16(m) = RomWord(rom, a + 1)
<1>1. m.PC = a + 1
  BY DEF Counter
<1>2. a + 1 \in Nat /\ a + 2 \in Nat /\ a + 1 < RomSize
  BY RomSizeIs
<1>3. /\ MmuRead(m, a + 1) = rom[a + 1]
      /\ MmuRead(m, a + 2) = rom[a + 2]
  BY <1>2, RomRead
<1>4. (a + 1) + 1 = a + 2
  OBVIOUS
<1> QED
  BY <1>1, <1>3, <1>4 DEF Imm8, Imm16, MmuReadWord, RomWord

\* A displacement counts from the byte behind the operand.
LEMMA ShortCounter ==
  ASSUME NEW a \in Nat, NEW d \in Int
  PROVE  Word((a + 1) + (1 + d)) = Word(a + 2 + d)
<1>1. (a + 1) + (1 + d) = a + 2 + d
  OBVIOUS
<1> QED
  BY <1>1

\* A branch goes behind itself, or to the target its operand says.
LEMMA BranchLeads ==
  ASSUME RomOK, Unbanked, NEW m, Machine(m), NEW a \in Nat, Counter(m) = a + 1, a + 2 < RomSize,
         NEW op \in Branches
  PROVE  Counter(Execute(m, op)) \in {Word(Counter(m) + (cpu_lens(op) - 1)), Target(rom, a, op)}
<1>0. op \in Byte /\ op \in TransferOps
  BY ByteIs DEF Branches, TransferOps, JumpOps, CallOps, ShortOps
<1>1. Execute(m, op) = Transfer(m, op)
  BY <1>0, ExecuteTable
<1>2. CASE op \in JumpOps
  <2>1. cpu_lens(op) = 3 /\ op \notin ShortOps
    BY <1>2, Lens DEF JumpOps, ShortOps
  <2>2. Target(rom, a, op) = Imm16(m)
    BY <2>1, OperandRead DEF Target
  <2> QED
    BY <1>0, <1>1, <1>2, <2>1, <2>2, TransferMachine
<1>3. CASE op \in CallOps
  <2> DEFINE v == Word(Counter(m) + 2)
             p == PushWord(m, v)
  <2>1. cpu_lens(op) = 3 /\ op \notin ShortOps
    BY <1>3, Lens DEF CallOps, ShortOps
  <2>2. v \in Int
    <3>1. Counter(m) + 2 \in Int
      OBVIOUS
    <3> QED
      BY <3>1, Widths, WordsIs
  <2> HIDE DEF v
  <2>3. Counter(p) = a + 1
    BY <2>2, PushMachine
  <2> HIDE DEF p
  <2>4. Target(rom, a, op) = Imm16(p)
    BY <2>1, <2>3, OperandRead DEF Target
  <2> QED
    BY <1>0, <1>1, <1>3, <2>1, <2>4, TransferMachine DEF p, v
<1>4. CASE op \in ShortOps
  <2>1. cpu_lens(op) = 2
    BY <1>4, Lens DEF ShortOps, JumpOps, CallOps, ThreeBytes
  <2>2. Imm8(m) = rom[a + 1] /\ Signed(Imm8(m)) \in Int
    BY OperandRead, Imm
  <2> DEFINE d == Signed(Imm8(m))
  <2>3. Target(rom, a, op) = Word(a + 2 + d)
    BY <1>4, <2>2 DEF Target
  <2> HIDE DEF d
  <2>4. Target(rom, a, op) = Word(Counter(m) + (1 + d))
    BY <2>2, <2>3, ShortCounter DEF d
  <2> QED
    BY <1>0, <1>1, <1>4, <2>1, <2>4, TransferMachine DEF d
<1> QED
  BY <1>2, <1>3, <1>4 DEF Branches

\* g_addrb of a bank.
Base(b) == IF b = 0 THEN 0 ELSE BankSize

\* An address less than a bank away from its base gives the offset.
LEMMA ModBank ==
  ASSUME NEW n \in Nat, n > 0, NEW a \in 0 .. n - 1
  PROVE  a % n = a /\ (a + n) % n = a
OBVIOUS

\* The byte at an offset of a bank is that at its base plus the offset.
LEMMA BankRead ==
  ASSUME RomOK, Unbanked, NEW b \in Nat, b < promsize, NEW a \in 0 .. BankSize - 1
  PROVE  /\ b * BankSize + a = a + Base(b)
         /\ a + Base(b) \in Nat /\ a + Base(b) < RomSize
         /\ Base(b) \in Nat /\ Base(b) + BankSize <= RomSize
         /\ rom[a + Base(b)] \in Byte
<1>1. /\ b * BankSize + a = a + Base(b)
      /\ a + Base(b) \in Nat /\ a + Base(b) < RomSize
      /\ Base(b) \in Nat /\ Base(b) + BankSize <= RomSize
  BY RomSizeIs DEF Base
<1> DEFINE x == a + Base(b)
<1> HIDE DEF x
<1>2. x \in Nat /\ x < RomSize
  BY <1>1 DEF x
<1>3. rom[x] \in Byte
  BY <1>2, RomRead
<1> QED
  BY <1>1, <1>3 DEF x

\* No instruction is longer than three bytes.
LEMMA LensRange == ASSUME NEW op PROVE cpu_lens(op) \in 1 .. 3
BY DEF cpu_lens

(***************************************************************************)
(* The scan of a bank: both passes visit the same addresses.  They are     *)
(* those in every set that holds 0 and, with an address, the one behind    *)
(* its instruction: no recursion is needed to say so.                      *)
(***************************************************************************)
LenAt(r, b, a) == cpu_lens(r[a + Base(b)])

\* Sets closed under the step of a scan, and the offsets in all of them.
Closed(r, b, S) == 0 \in S /\ \A a \in S : a < BankSize => a + LenAt(r, b, a) \in S
Reach(r, b, n) == n \in Nat /\ \A S \in SUBSET Nat : Closed(r, b, S) => n \in S
\* No instruction of the scan in front of n reaches past n.
Packed(r, b, n) == \A a \in Nat : Reach(r, b, a) /\ a < n /\ a < BankSize => a + LenAt(r, b, a) <= n
\* A cursor on the scan, and the instructions it has passed.
At(r, b, n) == Reach(r, b, n) /\ Packed(r, b, n)
Below(r, b, n) == {a \in 0 .. BankSize - 1 : Reach(r, b, a) /\ a < n}

\* The scan goes on behind the instruction it is at.
LEMMA ReachNext ==
  ASSUME NEW r, NEW b, NEW n, Reach(r, b, n), n < BankSize
  PROVE  Reach(r, b, n + LenAt(r, b, n))
BY LensRange DEF Reach, Closed, LenAt

\* A scan starts at 0, with nothing behind it.
LEMMA AtZero == ASSUME NEW r, NEW b PROVE At(r, b, 0)
BY DEF At, Reach, Closed, Packed

\* No scan stops inside the instruction at n.
LEMMA NoneBetween ==
  ASSUME Unbanked, NEW r, NEW b, NEW n, At(r, b, n), n < BankSize, NEW x \in Nat, Reach(r, b, x)
  PROVE  x <= n \/ x >= n + LenAt(r, b, n)
<1> DEFINE S == {y \in Nat : Reach(r, b, y) /\ (y <= n \/ y >= n + LenAt(r, b, n))}
<1>1. n \in Nat
  BY DEF At, Reach
<1>2. 0 \in S
  BY <1>1, AtZero DEF At
<1>3. ASSUME NEW y \in S, y < BankSize PROVE y + LenAt(r, b, y) \in S
  <2>1. LenAt(r, b, y) \in 1 .. 3 /\ LenAt(r, b, n) \in 1 .. 3
    BY LensRange DEF LenAt
  <2>2. Reach(r, b, y + LenAt(r, b, y))
    BY <1>3, ReachNext
  <2>3. y < n => y + LenAt(r, b, y) <= n
    BY <1>3 DEF At, Packed
  <2> QED
    BY <1>1, <2>1, <2>2, <2>3
<1>4. Closed(r, b, S)
  BY <1>2, <1>3 DEF Closed
<1>5. x \in S
  <2> HIDE DEF S
  <2>1. S \in SUBSET Nat
    BY DEF S
  <2> QED
    BY <1>4, <2>1 DEF Reach
<1> QED
  BY <1>5

\* One step of a pass: it stays on the scan, and has passed one instruction
\* more.
LEMMA Advance ==
  ASSUME Unbanked, NEW r, NEW b, NEW n, At(r, b, n), n < BankSize
  PROVE  /\ At(r, b, n + LenAt(r, b, n))
         /\ Below(r, b, n + LenAt(r, b, n)) = Below(r, b, n) \cup {n}
         /\ n \in 0 .. BankSize - 1 /\ n \notin Below(r, b, n)
<1> DEFINE m == n + LenAt(r, b, n)
<1>1. n \in Nat /\ LenAt(r, b, n) \in 1 .. 3 /\ Reach(r, b, n) /\ m \in Nat /\ m > n
  BY LensRange DEF At, Reach, LenAt
<1>2. Reach(r, b, m)
  BY <1>1, ReachNext
<1>3. \A x \in Nat : Reach(r, b, x) => x <= n \/ x >= m
  BY NoneBetween
<1> HIDE DEF m
<1>4. ASSUME NEW a \in Nat, Reach(r, b, a), a < m, a < BankSize PROVE a + LenAt(r, b, a) <= m
  <2>1. a <= n
    BY <1>1, <1>3, <1>4
  <2>2. CASE a = n
    BY <1>1, <2>2 DEF m
  <2>3. CASE a < n
    <3>1. a + LenAt(r, b, a) <= n
      BY <1>4, <2>3 DEF At, Packed
    <3>2. LenAt(r, b, a) \in 1 .. 3
      BY LensRange DEF LenAt
    <3> QED
      BY <1>1, <3>1, <3>2
  <2> QED
    BY <1>1, <2>1, <2>2, <2>3
<1>5. At(r, b, m)
  BY <1>2, <1>4 DEF At, Packed
<1>6. n \in 0 .. BankSize - 1
  BY <1>1, RomSizeIs
<1>7. Below(r, b, m) = Below(r, b, n) \cup {n}
  BY <1>1, <1>3, <1>6 DEF Below
<1>8. n \notin Below(r, b, n)
  BY <1>1 DEF Below
<1> QED
  BY <1>5, <1>6, <1>7, <1>8 DEF m

\* Behind the end of the bank there is nothing more to pass.
LEMMA BelowEnd ==
  ASSUME Unbanked, NEW r, NEW b, NEW n \in Nat, n >= BankSize
  PROVE  Below(r, b, n) = Below(r, b, BankSize)
BY RomSizeIs DEF Below

(***************************************************************************)
(* The marks.                                                              *)
(***************************************************************************)
Kinds == {"long", "call", "short"}
OpsOf(kind) == IF kind = "long" THEN JumpOps ELSE IF kind = "call" THEN CallOps ELSE ShortOps
Plain(kind) == IF kind = "long" THEN \hC3 ELSE IF kind = "call" THEN \hCD ELSE \h18

\* The trackers by their kinds.
LEMMA TrackerOps ==
  /\ DOMAIN Trackers = Kinds
  /\ \A kind \in Kinds : ToSet(Trackers[kind]) = OpsOf(kind) /\ Trackers[kind][1] = Plain(kind)
<1>1. /\ DOMAIN Trackers = Kinds
      /\ Trackers["long"] = Longs /\ Trackers["call"] = Calls /\ Trackers["short"] = Shorts
  BY DEF Trackers, Kinds
<1>2. Longs[1] = \hC3 /\ Calls[1] = \hCD /\ Shorts[1] = \h18
  BY DEF Longs, Calls, Shorts
<1>3. ASSUME NEW kind \in Kinds
      PROVE  ToSet(Trackers[kind]) = OpsOf(kind) /\ Trackers[kind][1] = Plain(kind)
  <2>1. CASE kind = "long"
    BY <1>1, <1>2, <2>1, TrackerSets DEF OpsOf, Plain
  <2>2. CASE kind = "call"
    BY <1>1, <1>2, <2>2, TrackerSets DEF OpsOf, Plain
  <2>3. CASE kind = "short"
    BY <1>1, <1>2, <2>3, TrackerSets DEF OpsOf, Plain
  <2> QED
    BY <1>3, <2>1, <2>2, <2>3 DEF Kinds
<1> QED
  BY <1>1, <1>3

\* A branch in a tracker of bank b, and a mark.
Branch(b) == [addr : Base(b) .. Base(b) + BankSize - 1, ccbranch : BOOLEAN]
MarkType(b) == [baddr : Words, long : Seq(Branch(b)), call : Seq(Branch(b)),
                short : Seq(Branch(b))]

\* The marks of bank b; one for each address that may be a line of it.
MarkList(b, s) ==
  /\ s \in Seq(MarkType(b))
  /\ \A i, j \in 1 .. Len(s) : s[i].baddr = s[j].baddr /\ s[i].baddr >= Base(b) => i = j

\* The branch c is among those of a kind at the mark of x.
Marked(s, kind, c, x) ==
  \E i \in 1 .. Len(s) : s[i].baddr = x /\ c \in ToSet(s[i][kind])

\* The fields of a mark.
LEMMA MarkFields ==
  ASSUME NEW b, NEW mk \in MarkType(b), NEW kind \in Kinds
  PROVE  /\ mk.baddr \in Words /\ mk[kind] \in Seq(Branch(b))
         /\ mk = [baddr |-> mk.baddr, long |-> mk.long, call |-> mk.call, short |-> mk.short]
BY DEF MarkType, Kinds

\* A new mark holds no branch.
LEMMA EmptyMark ==
  ASSUME NEW b, NEW x \in Words
  PROVE  /\ Mark(x) \in MarkType(b) /\ Mark(x).baddr = x
         /\ \A kind \in Kinds : ToSet(Mark(x)[kind]) = {}
<1>1. Mark(x) \in MarkType(b) /\ Mark(x).baddr = x
  BY DEF Mark, MarkType
<1>2. \A kind \in Kinds : Mark(x)[kind] = <<>>
  BY DEF Mark, Kinds
<1>3. \A kind \in Kinds : DOMAIN (Mark(x)[kind]) = {}
  BY <1>2
<1> QED
  BY <1>1, <1>3 DEF ToSet

\* The searches look for the least and the greatest index of a set of one.
LEMMA MinOfOne == ASSUME NEW x \in Int PROVE Min({x}) = x /\ Max({x}) = x
BY DEF Min, Max

\* The searches of getaddrmark and bankout.
FirstAt(s, x) == SelectInSeq(s, LAMBDA mk : mk.baddr = x)
LastAt(s, x) == SelectLastInSeq(s, LAMBDA mk : mk.baddr = x)

\* getaddrmark finds the mark of a line from the front and bankout from the
\* back: it is the same one.
LEMMA FindMark ==
  ASSUME NEW b, NEW s, MarkList(b, s), NEW x, x >= Base(b)
  PROVE  /\ \/ FirstAt(s, x) \in 1 .. Len(s) /\ s[FirstAt(s, x)].baddr = x
            \/ FirstAt(s, x) = 0 /\ \A i \in 1 .. Len(s) : s[i].baddr # x
         /\ \/ LastAt(s, x) \in 1 .. Len(s) /\ s[LastAt(s, x)].baddr = x
            \/ LastAt(s, x) = 0 /\ \A i \in 1 .. Len(s) : s[i].baddr # x
<1> DEFINE I == {i \in 1 .. Len(s) : s[i].baddr = x}
<1>1. \A i, j \in I : i = j
  BY DEF MarkList
<1>2. FirstAt(s, x) = IF I # {} THEN Min(I) ELSE 0
  BY DEF FirstAt, SelectInSeq
<1>3. LastAt(s, x) = IF I # {} THEN Max(I) ELSE 0
  BY DEF LastAt, SelectLastInSeq
<1>4. CASE I = {}
  <2>1. \A i \in 1 .. Len(s) : s[i].baddr # x
    BY <1>4
  <2> QED
    BY <1>2, <1>3, <1>4, <2>1
<1>5. ASSUME NEW i \in I PROVE Min(I) = i /\ Max(I) = i
  <2>1. I = {i} /\ i \in Int
    BY <1>1
  <2> QED
    BY <2>1, MinOfOne
<1>6. CASE I # {}
  <2>1. PICK i \in I : TRUE
    BY <1>6
  <2>2. i \in 1 .. Len(s) /\ s[i].baddr = x
    OBVIOUS
  <2>3. Min(I) = i /\ Max(I) = i
    BY <1>5
  <2> HIDE DEF I
  <2> QED
    BY <1>2, <1>3, <1>6, <2>2, <2>3
<1> QED
  BY <1>4, <1>6

\* A mark is made for an address that has none: no branch is lost or added.
LEMMA AppendMark ==
  ASSUME NEW b, NEW s, MarkList(b, s), NEW x \in Words,
         x >= Base(b) => \A i \in 1 .. Len(s) : s[i].baddr # x
  PROVE  /\ MarkList(b, Append(s, Mark(x)))
         /\ Len(Append(s, Mark(x))) = Len(s) + 1
         /\ Append(s, Mark(x))[Len(s) + 1].baddr = x
         /\ \A kind \in Kinds : \A c, y : Marked(Append(s, Mark(x)), kind, c, y) <=> Marked(s, kind, c, y)
<1> DEFINE mk == Mark(x)
           t == Append(s, mk)
<1>1. mk \in MarkType(b) /\ mk.baddr = x /\ \A kind \in Kinds : ToSet(mk[kind]) = {}
  BY EmptyMark
<1>2. s \in Seq(MarkType(b)) /\ Len(s) \in Nat
  BY DEF MarkList
<1> HIDE DEF mk
<1>3. /\ t \in Seq(MarkType(b)) /\ Len(t) = Len(s) + 1
      /\ \A i \in 1 .. Len(s) : t[i] = s[i]
      /\ t[Len(s) + 1] = mk
  BY <1>1, <1>2
<1> HIDE DEF t
<1>4. MarkList(b, t)
  <2> SUFFICES ASSUME NEW i \in 1 .. Len(t), NEW j \in 1 .. Len(t),
                      t[i].baddr = t[j].baddr, t[i].baddr >= Base(b)
               PROVE  i = j
    BY <1>3 DEF MarkList
  <2>1. CASE i \in 1 .. Len(s) /\ j \in 1 .. Len(s)
    BY <1>3, <2>1 DEF MarkList
  <2>2. CASE i = Len(s) + 1 /\ j \in 1 .. Len(s)
    BY <1>1, <1>3, <2>2
  <2>3. CASE j = Len(s) + 1 /\ i \in 1 .. Len(s)
    BY <1>1, <1>3, <2>3
  <2> QED
    BY <1>2, <1>3, <2>1, <2>2, <2>3
<1>5. ASSUME NEW kind \in Kinds, NEW c, NEW y
      PROVE  Marked(t, kind, c, y) <=> Marked(s, kind, c, y)
  <2>1. \A i \in 1 .. Len(t) : i \in 1 .. Len(s) \/ i = Len(s) + 1
    BY <1>2, <1>3
  <2>2. \A i \in 1 .. Len(s) : i \in 1 .. Len(t)
    BY <1>2, <1>3
  <2>3. c \notin ToSet(t[Len(s) + 1][kind])
    BY <1>1, <1>3
  <2> QED
    BY <1>3, <2>1, <2>2, <2>3 DEF Marked
<1> QED
  BY <1>1, <1>3, <1>4, <1>5 DEF t, mk

\* The list with one more branch in a tracker.
WithBranch(s, i, kind, c) == [s EXCEPT ![i][kind] = Append(@, c)]

\* What an appended sequence holds.
LEMMA AppendSet ==
  ASSUME NEW S, NEW q \in Seq(S), NEW e \in S
  PROVE  Append(q, e) \in Seq(S) /\ ToSet(Append(q, e)) = ToSet(q) \cup {e}
<1> DEFINE t == Append(q, e)
<1>1. /\ t \in Seq(S) /\ Len(q) \in Nat /\ Len(t) = Len(q) + 1
      /\ t[Len(q) + 1] = e /\ \A i \in 1 .. Len(q) : t[i] = q[i]
  OBVIOUS
<1> HIDE DEF t
<1>2. DOMAIN q = 1 .. Len(q) /\ DOMAIN t = 1 .. Len(t)
  BY <1>1
<1>3. ASSUME NEW x PROVE x \in ToSet(t) <=> x \in ToSet(q) \/ x = e
  <2>1. x \in ToSet(t) <=> \E i \in 1 .. Len(t) : t[i] = x
    BY <1>2 DEF ToSet
  <2>2. x \in ToSet(q) <=> \E i \in 1 .. Len(q) : q[i] = x
    BY <1>2 DEF ToSet
  <2>3. \A i : i \in 1 .. Len(t) <=> i \in 1 .. Len(q) \/ i = Len(q) + 1
    BY <1>1
  <2> QED
    BY <1>1, <2>1, <2>2, <2>3
<1>4. ToSet(t) = ToSet(q) \cup {e}
  BY <1>3
<1> QED
  BY <1>1, <1>4 DEF t

\* A branch is added to one mark, in one tracker.
LEMMA AddBranch ==
  ASSUME NEW b, NEW s, MarkList(b, s), NEW i \in 1 .. Len(s), NEW kind \in Kinds,
         NEW c \in Branch(b)
  PROVE  /\ MarkList(b, WithBranch(s, i, kind, c))
         /\ \A k \in Kinds : \A d, y :
              Marked(WithBranch(s, i, kind, c), k, d, y) <=>
                \/ Marked(s, k, d, y)
                \/ k = kind /\ d = c /\ y = s[i].baddr
<1> DEFINE t == WithBranch(s, i, kind, c)
           mk == s[i]
           q == Append(mk[kind], c)
           new == [mk EXCEPT ![kind] = q]
<1>1. s \in Seq(MarkType(b)) /\ mk \in MarkType(b) /\ Len(s) \in Nat
  BY DEF MarkList
<1>2. t = [s EXCEPT ![i] = new]
  BY DEF WithBranch
<1>3. q \in Seq(Branch(b)) /\ ToSet(q) = ToSet(mk[kind]) \cup {c}
  <2> HIDE DEF mk
  <2> QED
    BY <1>1, MarkFields, AppendSet
<1> HIDE DEF q, mk
<1>4. /\ new \in MarkType(b) /\ new.baddr = mk.baddr /\ new[kind] = q
      /\ \A k \in Kinds : k # kind => new[k] = mk[k]
  BY <1>1, <1>3 DEF MarkType, Kinds
<1> HIDE DEF new
<1>5. /\ t \in Seq(MarkType(b)) /\ Len(t) = Len(s) /\ t[i] = new
      /\ \A j \in 1 .. Len(s) : j # i => t[j] = s[j]
  BY <1>1, <1>2, <1>4
<1> HIDE DEF t
<1>6. \A j \in 1 .. Len(s) : t[j].baddr = s[j].baddr
  BY <1>4, <1>5 DEF mk
<1>7. MarkList(b, t)
  BY <1>5, <1>6 DEF MarkList
<1>8. ASSUME NEW k \in Kinds, NEW d, NEW y
      PROVE  Marked(t, k, d, y) <=> (Marked(s, k, d, y) \/ (k = kind /\ d = c /\ y = s[i].baddr))
  <2>1. \A j \in 1 .. Len(s) :
          d \in ToSet(t[j][k]) <=> (d \in ToSet(s[j][k]) \/ (j = i /\ k = kind /\ d = c))
    BY <1>3, <1>4, <1>5 DEF mk
  <2> QED
    BY <1>5, <1>6, <2>1 DEF Marked
<1> QED
  BY <1>7, <1>8 DEF t

\* The branch that getaddrmark records for the instruction at the cursor.
Recorded(kind, opcode) ==
  [addr |-> addrcount + g_addrb, ccbranch |-> opcode # Trackers[kind][1]]

\* A branch found is recorded at its target and nowhere else that may be a
\* line.
LEMMA TrackedMarks ==
  ASSUME MarkList(bank, armark_list), Base(bank) \in Nat, Base(bank) <= 32768, NEW kind \in Kinds,
         NEW target \in Words, NEW opcode, Recorded(kind, opcode) \in Branch(bank)
  PROVE  /\ MarkList(bank, Tracked(kind, target, opcode))
         /\ \A k \in Kinds : \A d : \A y \in Words :
              y >= Base(bank) =>
                (Marked(Tracked(kind, target, opcode), k, d, y) <=>
                   \/ Marked(armark_list, k, d, y)
                   \/ k = kind /\ d = Recorded(kind, opcode) /\ y = target + Base(bank))
<1> DEFINE g == Base(bank)
           x == target + g
           w == Word(x)
           c == Recorded(kind, opcode)
           found == FirstAt(armark_list, x)
           place == FoundOrNew(target)
           s == place[1]
           i == place[2]
<1>1. g_addrb = g /\ x \in Nat /\ x >= g /\ target < 65536
  BY WordsIs DEF g_addrb, Base
<1>2. Tracked(kind, target, opcode) = WithBranch(s, i, kind, c)
  BY DEF Tracked, WithBranch, Recorded
<1>3. place = IF found # 0 THEN <<armark_list, found>>
              ELSE <<Append(armark_list, Mark(w)), Len(armark_list) + 1>>
  BY <1>1 DEF FoundOrNew, FirstAt
<1>4. /\ MarkList(bank, s) /\ i \in 1 .. Len(s)
      /\ \A k \in Kinds : \A d, y : Marked(s, k, d, y) <=> Marked(armark_list, k, d, y)
      /\ \A y \in Words : y >= g => (s[i].baddr = y <=> y = x)
  <2>1. \/ found \in 1 .. Len(armark_list) /\ armark_list[found].baddr = x
        \/ found = 0 /\ \A j \in 1 .. Len(armark_list) : armark_list[j].baddr # x
    <3> HIDE DEF x
    <3> QED
      BY <1>1, FindMark
  <2> HIDE DEF found, place
  <2>2. CASE found # 0
    BY <1>3, <2>1, <2>2
  <2>3. CASE found = 0
    <3>1. s = Append(armark_list, Mark(w)) /\ i = Len(armark_list) + 1
      BY <1>3, <2>3
    <3>2. w \in Words
      BY <1>1, Widths
    <3>3. \/ x <= 65535 /\ w = x
          \/ x > 65535 /\ w < g
      <4>1. g \in Nat /\ g <= 32768 /\ target \in Nat
        BY WordsIs
      <4> HIDE DEF g
      <4> QED
        BY <1>1, <4>1 DEF Word
    <3> HIDE DEF x, w
    <3>4. w >= g => \A j \in 1 .. Len(armark_list) : armark_list[j].baddr # w
      <4>1. \A j \in 1 .. Len(armark_list) : armark_list[j].baddr # x
        BY <2>1, <2>3
      <4>2. w \in Nat /\ g \in Nat
        BY <3>2, WordsIs
      <4> HIDE DEF g
      <4> QED
        BY <3>3, <4>1, <4>2
    <3>5. /\ MarkList(bank, s) /\ Len(s) = Len(armark_list) + 1 /\ s[i].baddr = w
          /\ \A k \in Kinds : \A d, y : Marked(s, k, d, y) <=> Marked(armark_list, k, d, y)
      BY <3>1, <3>2, <3>4, AppendMark
    <3>6. Len(armark_list) \in Nat
      BY DEF MarkList
    <3> QED
      BY <1>1, <3>1, <3>3, <3>5, <3>6, WordsIs
  <2> QED
    BY <2>2, <2>3
<1> HIDE DEF s, i, x, c, g
<1>5. /\ MarkList(bank, WithBranch(s, i, kind, c))
      /\ \A k \in Kinds : \A d, y :
           Marked(WithBranch(s, i, kind, c), k, d, y) <=>
             (Marked(s, k, d, y) \/ (k = kind /\ d = c /\ y = s[i].baddr))
  BY <1>4, AddBranch DEF c
<1> QED
  BY <1>2, <1>4, <1>5 DEF c, g, x

(***************************************************************************)
(* Where the CPU goes from a branch.                                       *)
(***************************************************************************)
Clocks(m) == m.clks

\* The clocks are those returned.
LEMMA BurnClocks ==
  ASSUME NEW m, Machine(m), NEW n
  PROVE  Clocks(Burn(m, n)) = n
BY DEF Clocks, Burn, Machine, Fields, Registers

\* A jump that is taken takes longer than one that is not.
LEMMA JPTaken ==
  ASSUME RomOK, NEW m, Machine(m), NEW t
  PROVE  /\ t => Counter(JP(m, t)) = Imm16(m) /\ Clocks(JP(m, t)) = 16
         /\ ~t => Clocks(JP(m, t)) = 12
<1> DEFINE p == WithPC(m, Imm16(m))
           q == Past(m, 2)
<1>1. Machine(p) /\ Counter(p) = Imm16(m) /\ Machine(q)
  <2>1. Imm16(m) \in Words /\ 2 \in Int
    BY Imm
  <2> QED
    BY <2>1, SetPC, PastMachine
<1>2. /\ t => JP(m, t) = Burn(p, 16)
      /\ ~t => JP(m, t) = Burn(q, 12)
  BY DEF JP, WithPC
<1> HIDE DEF p, q
<1> QED
  BY <1>1, <1>2, SetClks, BurnClocks

\* So does a short jump.
LEMMA JRTaken ==
  ASSUME RomOK, NEW m, Machine(m), NEW t
  PROVE  /\ t => /\ Counter(JR(m, t)) = Word(Counter(m) + (1 + Signed(Imm8(m))))
                 /\ Clocks(JR(m, t)) = 12
         /\ ~t => Clocks(JR(m, t)) = 8
<1> DEFINE n == 1 + Signed(Imm8(m))
           p == Past(m, n)
           q == Past(m, 1)
<1>1. n \in Int
  BY Imm
<1>2. /\ t => JR(m, t) = Burn(p, 12)
      /\ ~t => JR(m, t) = Burn(q, 8)
  BY DEF JR
<1> HIDE DEF n
<1>3. Machine(p) /\ Counter(p) = Word(Counter(m) + n) /\ Machine(q)
  BY <1>1, PastMachine
<1> HIDE DEF p, q
<1> QED
  BY <1>2, <1>3, SetClks, BurnClocks DEF n

\* So does a call.
LEMMA CALLTaken ==
  ASSUME RomOK, NEW m, Machine(m), NEW t
  PROVE  /\ t => /\ Counter(CALL(m, t)) = Imm16(PushWord(m, Word(Counter(m) + 2)))
                 /\ Clocks(CALL(m, t)) = 24
         /\ ~t => Clocks(CALL(m, t)) = 12
<1> DEFINE p == PushWord(m, Word(Counter(m) + 2))
           taken == WithPC(p, Imm16(p))
           q == Past(m, 2)
<1>1. Word(Counter(m) + 2) \in Int
  <2>1. Counter(m) + 2 \in Int
    BY Fieldwise, WordsIs
  <2> QED
    BY <2>1, WordsIs, Widths
<1>2. Machine(p)
  BY <1>1, PushMachine
<1>3. /\ t => CALL(m, t) = Burn(taken, 24)
      /\ ~t => CALL(m, t) = Burn(q, 12)
  BY DEF CALL, WithPC, Counter
<1> HIDE DEF p
<1>4. Machine(taken) /\ Counter(taken) = Imm16(p) /\ Machine(q)
  <2>1. Imm16(p) \in Words /\ 2 \in Int
    BY <1>2, Imm
  <2> QED
    BY <1>2, <2>1, SetPC, PastMachine
<1> HIDE DEF taken, q
<1> QED
  BY <1>3, <1>4, SetClks, BurnClocks DEF p

\* The unconditional branches; and whether m leaves by the branch op.
PlainOps == {\hC3, \hCD, \h18}
Condition(m, op) == Holds(m, Row(op) % 4)
Leaves(m, op) == op \in PlainOps \/ Condition(m, op)

\* A branch that leaves gets to its target, and its clocks tell that it left.
LEMMA BranchTaken ==
  ASSUME RomOK, Unbanked, NEW m, Machine(m), NEW a \in Nat, Counter(m) = a + 1, a + 2 < RomSize,
         NEW op \in Branches
  PROVE  /\ Leaves(m, op) =>
              /\ Counter(Execute(m, op)) = Target(rom, a, op)
              /\ Clocks(Execute(m, op)) = IF op \in JumpOps THEN 16
                                          ELSE IF op \in CallOps THEN 24 ELSE 12
         /\ ~Leaves(m, op) =>
              Clocks(Execute(m, op)) = IF op \in ShortOps THEN 8 ELSE 12
<1> DEFINE cc == Condition(m, op)
<1> HIDE DEF cc
<1>0. op \in Byte /\ op \in TransferOps
  BY ByteIs DEF Branches, TransferOps, JumpOps, CallOps, ShortOps
<1>1. Execute(m, op) = Transfer(m, op) /\ Always
  BY <1>0, ExecuteTable DEF Always
<1>2. Leaves(m, op) <=> op \in PlainOps \/ cc
  BY DEF Leaves, cc
<1>3. CASE op \in JumpOps
  <2>1. op \notin ShortOps
    BY <1>3 DEF JumpOps, ShortOps
  <2>2. /\ op \in PlainOps => Transfer(m, op) = JP(m, Always)
        /\ op \notin PlainOps => Transfer(m, op) = JP(m, cc)
    BY <1>3 DEF Transfer, JumpOps, Column, cc, Condition, PlainOps
  <2>3. Target(rom, a, op) = Imm16(m)
    BY <2>1, OperandRead DEF Target
  <2> DEFINE plain == JP(m, Always)
             tested == JP(m, cc)
  <2>4. /\ Always => Counter(plain) = Imm16(m) /\ Clocks(plain) = 16
        /\ cc => Counter(tested) = Imm16(m) /\ Clocks(tested) = 16
        /\ ~cc => Clocks(tested) = 12
    BY JPTaken, Zenon
  <2> HIDE DEF plain, tested
  <2> QED
    BY <1>1, <1>2, <1>3, <2>1, <2>2, <2>3, <2>4 DEF plain, tested
<1>4. CASE op \in CallOps
  <2> DEFINE v == Word(Counter(m) + 2)
             p == PushWord(m, v)
  <2>1. op \notin ShortOps /\ op \notin JumpOps
    BY <1>4 DEF JumpOps, ShortOps, CallOps
  <2>2. /\ op \in PlainOps => Transfer(m, op) = CALL(m, Always)
        /\ op \notin PlainOps => Transfer(m, op) = CALL(m, cc)
    BY <1>4 DEF Transfer, CallOps, Column, cc, Condition, PlainOps
  <2>3. v \in Int
    <3>1. Counter(m) + 2 \in Int
      OBVIOUS
    <3> QED
      BY <3>1, Widths, WordsIs
  <2> HIDE DEF v
  <2>4. Counter(p) = a + 1
    BY <2>3, PushMachine
  <2> HIDE DEF p
  <2>5. Target(rom, a, op) = Imm16(p)
    BY <2>1, <2>4, OperandRead DEF Target
  <2> DEFINE plain == CALL(m, Always)
             tested == CALL(m, cc)
  <2>6. /\ Always => Counter(plain) = Imm16(p) /\ Clocks(plain) = 24
        /\ cc => Counter(tested) = Imm16(p) /\ Clocks(tested) = 24
        /\ ~cc => Clocks(tested) = 12
    BY CALLTaken, Zenon DEF p, v
  <2> HIDE DEF plain, tested
  <2> QED
    BY <1>1, <1>2, <1>4, <2>1, <2>2, <2>5, <2>6 DEF plain, tested
<1>5. CASE op \in ShortOps
  <2> DEFINE d == Signed(Imm8(m))
  <2>1. op \notin JumpOps /\ op \notin CallOps
    BY <1>5 DEF JumpOps, ShortOps, CallOps
  <2>2. /\ op \in PlainOps => Transfer(m, op) = JR(m, Always)
        /\ op \notin PlainOps => Transfer(m, op) = JR(m, cc)
    BY <1>5 DEF Transfer, ShortOps, Column, cc, Condition, PlainOps
  <2>3. Imm8(m) = rom[a + 1] /\ d \in Int
    BY OperandRead, Imm
  <2>4. Target(rom, a, op) = Word(a + 2 + d)
    BY <1>5, <2>3 DEF Target
  <2> HIDE DEF d
  <2>5. Target(rom, a, op) = Word(Counter(m) + (1 + d))
    BY <2>3, <2>4, ShortCounter
  <2> DEFINE plain == JR(m, Always)
             tested == JR(m, cc)
             there == Word(Counter(m) + (1 + d))
  <2>6. /\ Always => Counter(plain) = there /\ Clocks(plain) = 12
        /\ cc => Counter(tested) = there /\ Clocks(tested) = 12
        /\ ~cc => Clocks(tested) = 8
    BY JRTaken, Zenon DEF d
  <2> HIDE DEF plain, tested, there
  <2> QED
    BY <1>1, <1>2, <1>5, <2>1, <2>2, <2>5, <2>6 DEF plain, tested, there
<1> QED
  BY <1>3, <1>4, <1>5 DEF Branches

\* The machine of AfterBranch, in front of the opcode.
Before(a, f) == [Reset EXCEPT !.PC = Word(a + 1), !.F = f]

\* The machine in front of an instruction, with all flags clear or Z and C set.
LEMMA BeforeMachine ==
  ASSUME NEW a \in Nat, a < 40000, NEW f \in {0, 144}
  PROVE  /\ Machine(Before(a, f)) /\ Counter(Before(a, f)) = a + 1
         /\ Before(a, f).F = f
<1> DEFINE m == WithPC(Reset, a + 1)
<1>1. Word(a + 1) = a + 1 /\ a + 1 \in Words
  BY WordsIs DEF Word
<1>2. Machine(m) /\ Counter(m) = a + 1
  BY <1>1, ResetMachine, SetPC
<1>3. Before(a, f) = WithF(m, f)
  <2> DEFINE pc == Word(a + 1)
  <2>1. Before(a, f) = WithF(WithPC(Reset, pc), f)
    <3> HIDE DEF pc
    <3>1. Before(a, f) = [Reset EXCEPT !.PC = pc, !.F = f]
      BY DEF Before, pc
    <3> QED
      BY <3>1 DEF WithF, WithPC
  <2> HIDE DEF pc
  <2> QED
    BY <1>1, <2>1 DEF pc
<1>4. f \in FlagBytes
  BY ByteIs DEF FlagBytes
<1> HIDE DEF m
<1>5. WithF(m, f).F = f
  BY <1>2 DEF WithF, Machine, Fields
<1> QED
  BY <1>2, <1>3, <1>4, <1>5, SetF

\* A condition is met by exactly one of the two.
LEMMA ConditionsOpposed ==
  ASSUME NEW m, NEW n, m.F = 0, n.F = 144, NEW op \in Nat
  PROVE  Condition(m, op) <=> ~Condition(n, op)
<1>1. Row(op) % 4 \in 0 .. 3
  BY DEF Row
<1>2. ~ZSet(m) /\ ~CSet(m) /\ ZSet(n) /\ CSet(n)
  BY DEF ZSet, CSet, Bit
<1> DEFINE cc == Row(op) % 4
<1> HIDE DEF cc
<1>3. cc \in 0 .. 3
  BY <1>1 DEF cc
<1>4. /\ Holds(m, cc) <=> cc \in {0, 2}
      /\ Holds(n, cc) <=> cc \in {1, 3}
  <2>1. CASE cc = 0
    BY <1>2, <2>1 DEF Holds
  <2>2. CASE cc = 1
    BY <1>2, <2>2 DEF Holds
  <2>3. CASE cc = 2
    BY <1>2, <2>3 DEF Holds
  <2>4. CASE cc = 3
    BY <1>2, <2>4 DEF Holds
  <2> QED
    BY <1>3, <2>1, <2>2, <2>3, <2>4
<1> QED
  BY <1>3, <1>4 DEF Condition, cc

\* So the CPU takes every branch to the target of its operand, and the two
\* clocks differ for the conditional ones alone.
LEMMA TakenTarget ==
  ASSUME RomOK, Unbanked, NEW a \in Nat, a + 2 < RomSize, rom[a] \in Branches
  PROVE  /\ TakenFrom(a) = Target(rom, a, rom[a])
         /\ Conditional(a) <=> rom[a] \notin PlainOps
<1> DEFINE op == rom[a]
           m == Before(a, 0)
           n == Before(a, 144)
           p == Execute(m, op)
           q == Execute(n, op)
<1>1. AfterBranch(a, 0) = p /\ AfterBranch(a, 144) = q
  BY DEF AfterBranch, Before
<1>2. /\ Machine(m) /\ Counter(m) = a + 1 /\ m.F = 0
      /\ Machine(n) /\ Counter(n) = a + 1 /\ n.F = 144
  <2>1. a < 40000
    BY RomSizeIs
  <2> QED
    BY <2>1, BeforeMachine
<1>3. op \in Nat /\ op \in Branches
  BY DEF Branches, JumpOps, CallOps, ShortOps
<1> HIDE DEF op, m, n
<1>4. Condition(m, op) <=> ~Condition(n, op)
  BY <1>2, <1>3, ConditionsOpposed
<1>5. /\ Leaves(m, op) => /\ Counter(p) = Target(rom, a, op)
                          /\ Clocks(p) = IF op \in JumpOps THEN 16
                                         ELSE IF op \in CallOps THEN 24 ELSE 12
      /\ ~Leaves(m, op) => Clocks(p) = IF op \in ShortOps THEN 8 ELSE 12
  BY <1>2, <1>3, BranchTaken
<1>6. /\ Leaves(n, op) => /\ Counter(q) = Target(rom, a, op)
                          /\ Clocks(q) = IF op \in JumpOps THEN 16
                                         ELSE IF op \in CallOps THEN 24 ELSE 12
      /\ ~Leaves(n, op) => Clocks(q) = IF op \in ShortOps THEN 8 ELSE 12
  BY <1>2, <1>3, BranchTaken
<1> HIDE DEF p, q
<1>7. /\ TakenFrom(a) = IF Clocks(p) >= Clocks(q) THEN Counter(p) ELSE Counter(q)
      /\ Conditional(a) <=> Clocks(p) # Clocks(q)
  BY <1>1 DEF TakenFrom, Conditional, Clocks, Counter
<1>8. /\ Leaves(m, op) <=> op \in PlainOps \/ Condition(m, op)
      /\ Leaves(n, op) <=> op \in PlainOps \/ Condition(n, op)
  BY DEF Leaves
<1>9. /\ op \in JumpOps => op \notin CallOps /\ op \notin ShortOps
      /\ op \in CallOps => op \notin ShortOps
      /\ op \in JumpOps \/ op \in CallOps \/ op \in ShortOps
  BY <1>3 DEF JumpOps, CallOps, ShortOps, Branches
<1>10. TakenFrom(a) = Target(rom, a, op) /\ (Conditional(a) <=> op \notin PlainOps)
  <2>1. CASE op \in PlainOps
    BY <1>5, <1>6, <1>7, <1>8, <2>1
  <2>2. CASE op \notin PlainOps /\ Condition(m, op)
    BY <1>4, <1>5, <1>6, <1>7, <1>8, <1>9, <2>2
  <2>3. CASE op \notin PlainOps /\ Condition(n, op)
    BY <1>4, <1>5, <1>6, <1>7, <1>8, <1>9, <2>3
  <2> QED
    BY <1>4, <2>1, <2>2, <2>3
<1> QED
  BY <1>10 DEF op

(***************************************************************************)
(* The listing.                                                            *)
(***************************************************************************)
\* The branch at offset a of bank b, and whether it is recorded at x: for a
\* jump or a call the base is added to an address.
BranchAt(r, b, a) == [addr |-> a + Base(b), ccbranch |-> r[a + Base(b)] \notin PlainOps]
Led(r, b, kind, a) ==
  IF kind = "short" THEN Word(a + 2 + Signed(r[(a + 1) + Base(b)])) ELSE RomWord(r, (a + 1) + Base(b))

\* The branches of a kind that the scan up to n records at x.
From(r, b, n, kind, c, x) ==
  \E a \in Below(r, b, n) :
    /\ c = BranchAt(r, b, a) /\ r[a + Base(b)] \in OpsOf(kind)
    /\ Led(r, b, kind, a) + Base(b) = x

\* Branches whose operand is inside the bank.
Whole(b) == {c \in Branch(b) : c.addr <= Base(b) + BankSize - 3}

\* The marks hold the branches of the scan up to n, each where it leads, and
\* no others.
MarksOK(r, b, s, n) ==
  \A kind \in Kinds, c \in Whole(b), x \in Words :
    x >= Base(b) => (Marked(s, kind, c, x) <=> From(r, b, n, kind, c, x))

\* So does the mark that is attached to the line at x.
AttachOK(r, b, x, mk) ==
  \A kind \in Kinds, c \in Whole(b) :
    c \in ToSet(mk[kind]) <=> From(r, b, BankSize, kind, c, x)

\* Lines that show what is in the cartridge at their address.
GoodLine(r, b) ==
  {l \in [addr : Base(b) .. Base(b) + BankSize - 1, opcode : Byte, operand : Int,
          instr_len : 1 .. 3] :
     /\ l.opcode = r[l.addr] /\ l.instr_len = cpu_lens(l.opcode)
     /\ l.addr <= Base(b) + BankSize - 3 /\ l.opcode \in Branches
          => l.operand = Target(r, l.addr, l.opcode)}

\* There is a line for each address of the scan up to n, and for no other.
Listed(r, b, q, n) ==
  \A a \in 0 .. BankSize - 1 :
    (\E k \in 1 .. Len(q) : q[k].addr = a + Base(b)) <=> a \in Below(r, b, n)

\* The printed banks that are true to the cartridge.
Printed(r, b) ==
  {out \in Seq([line : GoodLine(r, b), attach : MarkType(b)]) :
     /\ \A a \in 0 .. BankSize - 1 :
          (\E k \in 1 .. Len(out) : out[k].line.addr = a + Base(b)) <=> a \in Below(r, b, BankSize)
     /\ \A k \in 1 .. Len(out) : AttachOK(r, b, out[k].line.addr, out[k].attach)}

\* What each phase has done so far is true to the cartridge: the marks up to
\* the cursor, the lines up to the cursor, the banks printed.
ListInv ==
  /\ RomOK
  /\ bank \in Nat /\ bank <= promsize /\ addrcount \in Nat
  /\ phase \in {"mark", "dis", "out", "run", "fault"}
  /\ phase \in {"mark", "dis", "out", "fault"} => bank < promsize
  /\ phase \in {"mark", "dis"} => At(rom, bank, addrcount)
  /\ MarkList(bank, armark_list)
  /\ instr_list \in Seq(GoodLine(rom, bank))
  /\ phase = "mark" => MarksOK(rom, bank, armark_list, addrcount) /\ instr_list = <<>>
  /\ phase \in {"dis", "out"} => MarksOK(rom, bank, armark_list, BankSize)
  /\ phase = "dis" => Listed(rom, bank, instr_list, addrcount)
  /\ phase = "out" => Listed(rom, bank, instr_list, BankSize)
  /\ listing \in Seq(Printed(rom, 0) \cup Printed(rom, 1)) /\ Len(listing) = bank
  /\ \A b \in 1 .. Len(listing) : listing[b] \in Printed(rom, b - 1)

\* A bank starts without marks, and none is missing.
LEMMA NoMarks ==
  ASSUME NEW r, NEW b
  PROVE  MarkList(b, <<>>) /\ MarksOK(r, b, <<>>, 0)
<1>1. <<>> \in Seq(MarkType(b)) /\ Len(<<>>) = 0
  OBVIOUS
<1>2. MarkList(b, <<>>)
  BY <1>1 DEF MarkList
<1>3. \A kind, c, x : ~Marked(<<>>, kind, c, x)
  BY <1>1 DEF Marked
<1>4. \A kind, c, x : ~From(r, b, 0, kind, c, x)
  BY DEF From, Below
<1> QED
  BY <1>2, <1>3, <1>4 DEF MarksOK

\* A bank starts without lines, and none is missing.
LEMMA NoLines ==
  ASSUME NEW r, NEW b
  PROVE  <<>> \in Seq(GoodLine(r, b)) /\ Listed(r, b, <<>>, 0)
<1>1. <<>> \in Seq(GoodLine(r, b)) /\ Len(<<>>) = 0
  OBVIOUS
<1>2. \A a : a \notin Below(r, b, 0)
  BY DEF Below
<1> QED
  BY <1>1, <1>2 DEF Listed

\* The listing starts true to the cartridge.
LEMMA ListInit == ASSUME Init PROVE ListInv
<1>1. RomOK
  BY CpuInitOK DEF CpuOK
<1>2. /\ phase = "mark" /\ bank = 0 /\ addrcount = 0
      /\ armark_list = <<>> /\ instr_list = <<>> /\ listing = <<>>
  BY DEF Init
<1>3. promsize \in Nat /\ promsize > 0
  BY DisassemblerAssumption
<1>4. At(rom, 0, 0) /\ MarkList(0, <<>>) /\ MarksOK(rom, 0, <<>>, 0)
  BY AtZero, NoMarks
<1>5. /\ <<>> \in Seq(GoodLine(rom, 0))
      /\ <<>> \in Seq(Printed(rom, 0) \cup Printed(rom, 1)) /\ Len(<<>>) = 0
  OBVIOUS
<1> QED
  BY <1>1, <1>2, <1>3, <1>4, <1>5 DEF ListInv

\* An opcode is in one tracker at most.
LEMMA KindsApart ==
  ASSUME NEW op, NEW j \in Kinds, NEW k \in Kinds, op \in OpsOf(j), op \in OpsOf(k)
  PROVE  j = k
<1>1. JumpOps \cap CallOps = {} /\ JumpOps \cap ShortOps = {} /\ CallOps \cap ShortOps = {}
  BY DEF JumpOps, CallOps, ShortOps
<1> QED
  BY <1>1 DEF Kinds, OpsOf

\* The first opcode of a tracker is the one without a condition.
LEMMA PlainIs ==
  ASSUME NEW kind \in Kinds, NEW op \in OpsOf(kind)
  PROVE  op = Plain(kind) <=> op \in PlainOps
BY DEF Kinds, OpsOf, Plain, PlainOps, JumpOps, CallOps, ShortOps

\* What getaddrmark appends to a tracker is the branch at its cursor.
LEMMA RecordedIs ==
  ASSUME RomOK, Unbanked, bank \in Nat, bank < promsize, addrcount \in 0 .. BankSize - 1,
         NEW kind \in Kinds, rom[addrcount + Base(bank)] \in OpsOf(kind)
  PROVE  /\ Recorded(kind, rom[addrcount + Base(bank)]) = BranchAt(rom, bank, addrcount)
         /\ BranchAt(rom, bank, addrcount) \in Branch(bank)
<1> DEFINE op == rom[addrcount + Base(bank)]
<1>1. g_addrb = Base(bank) /\ Base(bank) \in Nat /\ BankSize \in Nat
  BY BankRead, RomSizeIs DEF g_addrb, Base
<1>2. Trackers[kind][1] = Plain(kind)
  BY TrackerOps
<1>3. op = Plain(kind) <=> op \in PlainOps
  BY PlainIs
<1>4. (op # Plain(kind)) = (op \notin PlainOps)
  BY <1>3
<1> HIDE DEF op
<1>5. Recorded(kind, op) = BranchAt(rom, bank, addrcount)
  BY <1>1, <1>2, <1>4 DEF Recorded, BranchAt, op
<1>6. addrcount + Base(bank) \in Base(bank) .. Base(bank) + BankSize - 1
  BY <1>1
<1>7. BranchAt(rom, bank, addrcount) \in Branch(bank)
  BY <1>6 DEF BranchAt, Branch
<1> QED
  BY <1>5, <1>7 DEF op

\* The branches recorded after one more instruction.
LEMMA FromNext ==
  ASSUME Unbanked, NEW r, NEW b, NEW n, At(r, b, n), n < BankSize,
         NEW kind, NEW c, NEW x
  PROVE  From(r, b, n + LenAt(r, b, n), kind, c, x) <=>
           \/ From(r, b, n, kind, c, x)
           \/ /\ c = BranchAt(r, b, n) /\ r[n + Base(b)] \in OpsOf(kind)
              /\ Led(r, b, kind, n) + Base(b) = x
<1>1. Below(r, b, n + LenAt(r, b, n)) = Below(r, b, n) \cup {n}
  BY Advance
<1> QED
  BY <1>1 DEF From

\* A branch found keeps the marks complete and exact.
LEMMA BranchMarked ==
  ASSUME RomOK, Unbanked, bank \in Nat, bank < promsize, At(rom, bank, addrcount),
         addrcount < BankSize, MarkList(bank, armark_list),
         MarksOK(rom, bank, armark_list, addrcount),
         NEW kind \in Kinds, rom[addrcount + Base(bank)] \in OpsOf(kind), NEW target \in Words,
         addrcount <= BankSize - 3 => target = Led(rom, bank, kind, addrcount)
  PROVE  /\ MarkList(bank, Tracked(kind, target, rom[addrcount + Base(bank)]))
         /\ MarksOK(rom, bank, Tracked(kind, target, rom[addrcount + Base(bank)]),
                    addrcount + LenAt(rom, bank, addrcount))
<1> DEFINE op == rom[addrcount + Base(bank)]
           t == Tracked(kind, target, op)
           br == BranchAt(rom, bank, addrcount)
           n == addrcount + LenAt(rom, bank, addrcount)
<1>1. addrcount \in 0 .. BankSize - 1
  BY Advance
<1>2. Base(bank) \in Nat /\ Base(bank) <= 32768 /\ BankSize \in Nat
  BY <1>1, BankRead, RomSizeIs
<1>3. Recorded(kind, op) = br /\ br \in Branch(bank)
  BY <1>1, RecordedIs
<1>4. /\ MarkList(bank, t)
      /\ \A k \in Kinds : \A d : \A y \in Words :
              y >= Base(bank) =>
                (Marked(t, k, d, y) <=>
                   \/ Marked(armark_list, k, d, y)
                   \/ k = kind /\ d = br /\ y = target + Base(bank))
  <2> HIDE DEF op, br
  <2> QED
    BY <1>2, <1>3, TrackedMarks
<1>5. ASSUME NEW k \in Kinds, NEW c \in Whole(bank), NEW x \in Words, x >= Base(bank)
      PROVE  Marked(t, k, c, x) <=> From(rom, bank, n, k, c, x)
  <2>1. Marked(armark_list, k, c, x) <=> From(rom, bank, addrcount, k, c, x)
    BY <1>5 DEF MarksOK
  <2>2. From(rom, bank, n, k, c, x) <=>
           \/ From(rom, bank, addrcount, k, c, x)
           \/ c = br /\ op \in OpsOf(k) /\ Led(rom, bank, k, addrcount) + Base(bank) = x
    BY FromNext
  <2>3. op \in OpsOf(k) <=> k = kind
    BY <1>5, KindsApart
  <2>4. c = br => addrcount <= BankSize - 3
    <3>1. br.addr = addrcount + Base(bank)
      BY DEF BranchAt
    <3> HIDE DEF br
    <3>2. c.addr <= Base(bank) + BankSize - 3
      BY DEF Whole
    <3> QED
      BY <1>1, <1>2, <3>1, <3>2
  <2> HIDE DEF t, op, br, n
  <2>5. Marked(t, k, c, x) <=>
          \/ Marked(armark_list, k, c, x)
          \/ k = kind /\ c = br /\ x = target + Base(bank)
    BY <1>4, <1>5
  <2> QED
    BY <2>1, <2>2, <2>3, <2>4, <2>5
<1> QED
  BY <1>4, <1>5 DEF MarksOK

\* So does an instruction that is no branch.
LEMMA OtherSkipped ==
  ASSUME Unbanked, At(rom, bank, addrcount), addrcount < BankSize,
         MarksOK(rom, bank, armark_list, addrcount),
         \A kind \in Kinds : rom[addrcount + Base(bank)] \notin OpsOf(kind)
  PROVE  MarksOK(rom, bank, armark_list, addrcount + LenAt(rom, bank, addrcount))
BY FromNext DEF MarksOK

\* addrTemp16 is the word behind the opcode, where it reads one.
LEMMA Addr16 ==
  ASSUME RomOK, Unbanked, bank \in Nat, bank < promsize, NEW a \in 0 .. BankSize - 1
  PROVE  /\ addrTemp16(a) \in Words
         /\ a <= BankSize - 3 =>
              /\ addrTemp16(a) = RomWord(rom, (a + 1) + Base(bank))
              /\ addrTemp16(a) % 256 = rom[(a + 1) + Base(bank)]
         /\ tempBank(a) = rom[a + Base(bank)] /\ tempBank(a) \in Byte
<1>1. tempBank(a) = rom[a + Base(bank)] /\ tempBank(a) \in Byte
  BY BankRead DEF tempBank
<1>2. CASE a <= BankSize - 3
  <2> DEFINE b1 == rom[(a + 1) + Base(bank)]
             b2 == rom[(a + 2) + Base(bank)]
  <2>1. a + 1 \in 0 .. BankSize - 1 /\ a + 2 \in 0 .. BankSize - 1
    BY <1>2, RomSizeIs
  <2>2. tempBank(a + 1) = b1 /\ b1 \in Byte /\ tempBank(a + 2) = b2 /\ b2 \in Byte
    BY <2>1, BankRead DEF tempBank
  <2>3. (a + 2) + Base(bank) = ((a + 1) + Base(bank)) + 1
    BY BankRead
  <2>4. RomWord(rom, (a + 1) + Base(bank)) = b1 + 256 * b2
    BY <2>3 DEF RomWord
  <2> HIDE DEF b1, b2
  <2>5. addrTemp16(a) = b1 + 256 * b2
    BY <1>2, <2>2 DEF addrTemp16
  <2>6. b1 \in Nat /\ b1 < 256 /\ b2 \in Nat /\ b2 < 256
    BY <2>2, ByteIs
  <2>7. b1 + 256 * b2 \in Words /\ (b1 + 256 * b2) % 256 = b1
    BY <2>6, WordsIs
  <2> QED
    BY <1>1, <2>4, <2>5, <2>7 DEF b1
<1>3. CASE ~(a <= BankSize - 3)
  BY <1>1, <1>3, WordsIs DEF addrTemp16
<1> QED
  BY <1>2, <1>3

\* The byte behind the opcode.
LEMMA Beside ==
  ASSUME RomOK, Unbanked, bank \in Nat, bank < promsize, NEW a \in 0 .. BankSize - 1,
         NEW d \in BytesAt(a + 1)
  PROVE  d \in Byte /\ (a <= BankSize - 3 => d = rom[(a + 1) + Base(bank)])
<1>1. DOMAIN rom = 0 .. RomSize - 1 /\ rom \in [0 .. RomSize - 1 -> Byte]
  BY DEF RomOK, RomSize
<1>2. CASE a + 1 <= BankSize - 1
  <2>1. a + 1 \in 0 .. BankSize - 1
    BY <1>2, RomSizeIs
  <2>2. /\ bank * BankSize + (a + 1) = (a + 1) + Base(bank)
        /\ (a + 1) + Base(bank) \in 0 .. RomSize - 1
    BY <2>1, BankRead, RomSizeIs
  <2>3. ~Behind(a + 1) /\ tempBank(a + 1) = rom[(a + 1) + Base(bank)]
    BY <1>1, <2>2 DEF Behind, tempBank
  <2>4. d = rom[(a + 1) + Base(bank)]
    BY <2>3 DEF BytesAt
  <2> QED
    BY <1>1, <2>2, <2>4
<1>3. CASE ~(a + 1 <= BankSize - 1)
  <2>1. CASE Behind(a + 1)
    BY <1>3, <2>1, DisassemblerAssumption, RomSizeIs DEF BytesAt
  <2>2. CASE ~Behind(a + 1)
    <3> DEFINE x == bank * BankSize + (a + 1)
    <3>1. d = rom[x] /\ x \in DOMAIN rom
      BY <2>2 DEF BytesAt, tempBank, Behind
    <3> QED
      BY <1>1, <1>3, <3>1, RomSizeIs
  <2> QED
    BY <2>1, <2>2
<1> QED
  BY <1>2, <1>3

\* A step of getaddrmark keeps the listing true.
LEMMA MarkStep == ASSUME Unbanked, ListInv, getaddrmark PROVE ListInv'
<1> USE DEF ListInv
<1> DEFINE op == rom[addrcount + Base(bank)]
           n == addrcount + LenAt(rom, bank, addrcount)
<1>1. /\ RomOK /\ bank \in Nat /\ bank < promsize /\ At(rom, bank, addrcount)
      /\ addrcount < BankSize /\ addrcount \in 0 .. BankSize - 1
      /\ MarkList(bank, armark_list) /\ MarksOK(rom, bank, armark_list, addrcount)
  BY Advance DEF getaddrmark
<1>2. tempBank(addrcount) = op /\ op \in Byte
  BY <1>1, Addr16
<1>3. addrcount' = n /\ n \in Nat /\ At(rom, bank, n)
  <2>1. addrcount' = n
    BY <1>2 DEF getaddrmark, LenAt
  <2>2. At(rom, bank, n)
    BY <1>1, Advance
  <2> QED
    BY <2>1, <2>2 DEF At, Reach
<1>4. MarkList(bank, armark_list') /\ MarksOK(rom, bank, armark_list', n)
  <2>1. CASE /\ op \in JumpOps
             /\ armark_list' = Tracked("long", addrTemp16(addrcount), op)
    <3>1. "long" \in Kinds /\ op \in OpsOf("long")
      BY <2>1 DEF Kinds, OpsOf
    <3>2. /\ addrTemp16(addrcount) \in Words
          /\ addrcount <= BankSize - 3 => addrTemp16(addrcount) = Led(rom, bank, "long", addrcount)
      BY <1>1, Addr16 DEF Led
    <3> QED
      BY <1>1, <2>1, <3>1, <3>2, BranchMarked
  <2>2. CASE /\ op \in CallOps
             /\ armark_list' = Tracked("call", addrTemp16(addrcount), op)
    <3>1. "call" \in Kinds /\ op \in OpsOf("call")
      BY <2>2 DEF Kinds, OpsOf
    <3>2. /\ addrTemp16(addrcount) \in Words
          /\ addrcount <= BankSize - 3 => addrTemp16(addrcount) = Led(rom, bank, "call", addrcount)
      BY <1>1, Addr16 DEF Led
    <3> QED
      BY <1>1, <2>2, <3>1, <3>2, BranchMarked
  <2>3. ASSUME op \in ShortOps, NEW d \in BytesAt(addrcount + 1),
               armark_list' = Tracked("short", ShortTarget(addrcount, d), op)
        PROVE  MarkList(bank, armark_list') /\ MarksOK(rom, bank, armark_list', n)
    <3>1. "short" \in Kinds /\ op \in OpsOf("short")
      BY <2>3 DEF Kinds, OpsOf
    <3>2. d \in Byte /\ (addrcount <= BankSize - 3 => d = rom[(addrcount + 1) + Base(bank)])
      BY <1>1, Beside
    <3>3. ShortTarget(addrcount, d) \in Words
      <4>1. addrcount + 2 + Signed(d) \in Int
        BY <1>1, <3>2, ByteIs DEF Signed
      <4> QED
        BY <4>1, Widths DEF ShortTarget
    <3>4. addrcount <= BankSize - 3 =>
            ShortTarget(addrcount, d) = Led(rom, bank, "short", addrcount)
      BY <3>2 DEF ShortTarget, Led
    <3> QED
      BY <1>1, <2>3, <3>1, <3>3, <3>4, BranchMarked
  <2>4. CASE /\ \A kind \in DOMAIN Trackers : op \notin ToSet(Trackers[kind])
             /\ UNCHANGED armark_list
    <3>1. \A kind \in Kinds : op \notin OpsOf(kind)
      BY <2>4, TrackerOps
    <3> QED
      BY <1>1, <2>4, <3>1, OtherSkipped
  <2> HIDE DEF op, n, ListInv
  <2> QED
    BY <1>2, <2>1, <2>2, <2>3, <2>4, TrackerSets DEF getaddrmark
<1>5. UNCHANGED <<rom, phase, bank, instr_list, listing>> /\ phase = "mark"
  BY DEF getaddrmark
<1> HIDE DEF n, op
<1> QED
  BY <1>3, <1>4, <1>5 DEF RomOK

\* Its return does: the marks are those of the whole bank.
LEMMA MarksDoneStep == ASSUME Unbanked, ListInv, MarksDone PROVE ListInv'
<1> USE DEF ListInv
<1>1. /\ phase = "mark" /\ addrcount >= BankSize /\ phase' = "dis" /\ addrcount' = 0
      /\ UNCHANGED <<rom, bank, armark_list, instr_list, listing>>
  BY DEF MarksDone
<1>2. MarksOK(rom, bank, armark_list, BankSize)
  <2>1. Below(rom, bank, addrcount) = Below(rom, bank, BankSize)
    BY <1>1, BelowEnd
  <2>2. \A kind, c, x : From(rom, bank, addrcount, kind, c, x) <=>
                          From(rom, bank, BankSize, kind, c, x)
    BY <2>1 DEF From
  <2> QED
    BY <1>1, <2>2 DEF MarksOK
<1>3. At(rom, bank, 0) /\ Listed(rom, bank, <<>>, 0)
  BY AtZero, NoLines
<1> QED
  BY <1>1, <1>2, <1>3 DEF RomOK

\* A sum cut to 16 bits twice is cut once.
LEMMA WordOfWord ==
  ASSUME NEW g \in Nat, NEW x \in Int
  PROVE  Word(g + Word(x)) = Word(g + x)
<1> DEFINE q == x \div 65536
<1>1. q \in Int /\ Word(x) = x - 65536 * q
  BY DEF Word
<1> HIDE DEF q
<1>2. g + Word(x) = (g + x) - 65536 * q
  BY <1>1
<1> QED
  BY <1>1, <1>2 DEF Word

\* The line of a branch shows its target.
LEMMA OperandShown ==
  ASSUME RomOK, Unbanked, bank \in Nat, bank < promsize, NEW a \in 0 .. BankSize - 1,
         NEW op \in Byte
  PROVE  /\ Operand(a, op) \in Int
         /\ a <= BankSize - 3 /\ op \in Branches =>
              Operand(a, op) = Target(rom, a + Base(bank), op)
<1> DEFINE w == addrTemp16(a)
           d == w % 256
           g == Base(bank)
<1>1. /\ w \in Words /\ w \in Nat /\ d \in Byte /\ d \in Nat /\ Signed(d) \in Int
      /\ g \in Nat /\ g_addrb = g
  <2>1. w \in Words /\ w \in Nat
    BY Addr16, WordsIs
  <2>2. d \in Byte /\ d \in Nat
    BY <2>1, Widths, ByteIs
  <2>3. Signed(d) \in Int
    BY <2>2 DEF Signed
  <2> QED
    BY <2>1, <2>2, <2>3, BankRead DEF g_addrb, Base
<1>2. a <= BankSize - 3 => w = RomWord(rom, (a + 1) + g) /\ d = rom[(a + 1) + g]
  BY Addr16
<1>3. (a + 1) + g = (a + g) + 1
  BY <1>1
<1>4. CASE op \in ShortOps
  <2> DEFINE x == a + 2 + Signed(d)
  <2>1. x \in Int /\ g + x = (a + g) + 2 + Signed(d)
    BY <1>1
  <2>2. Operand(a, op) = Word(g + Word(x))
    BY <1>1, <1>4, TrackerSets DEF Operand, ShortTarget
  <2> HIDE DEF x, d
  <2>3. Operand(a, op) = Word((a + g) + 2 + Signed(d))
    BY <1>1, <2>1, <2>2, WordOfWord
  <2>4. Operand(a, op) \in Int
    BY <1>1, <2>1, <2>2, Widths, WordsIs
  <2> HIDE DEF g, w
  <2> QED
    BY <1>2, <1>3, <1>4, <2>3, <2>4 DEF Target, g
<1>5. CASE op \notin ShortOps
  <2>1. Operand(a, op) \in {w, d, NoOperand}
    BY <1>5, TrackerSets DEF Operand
  <2>2. op \in Branches => Operand(a, op) = w
    <3>1. op \in Branches => op \in JumpOps \cup CallOps
      BY <1>5 DEF Branches
    <3>2. op \in JumpOps \cup CallOps => cpu_lens(op) = 3
      BY Lens
    <3>3. cpu_lens(op) = 3 => Operand(a, op) = w
      BY <1>5, TrackerSets DEF Operand
    <3> QED
      BY <3>1, <3>2, <3>3
  <2> HIDE DEF w, d, g
  <2> QED
    BY <1>1, <1>2, <1>3, <1>5, <2>1, <2>2 DEF Target, NoOperand, g
<1> QED
  BY <1>4, <1>5

\* A step of bankdis keeps the listing true.
LEMMA DisStep == ASSUME Unbanked, ListInv, bankdis PROVE ListInv'
<1> USE DEF ListInv
<1> DEFINE op == rom[addrcount + Base(bank)]
           n == addrcount + LenAt(rom, bank, addrcount)
<1>1. /\ RomOK /\ bank \in Nat /\ bank < promsize /\ At(rom, bank, addrcount)
      /\ addrcount < BankSize /\ addrcount \in 0 .. BankSize - 1
      /\ Listed(rom, bank, instr_list, addrcount) /\ phase = "dis"
  BY Advance DEF bankdis
<1>2. /\ tempBank(addrcount) = op /\ op \in Byte
      /\ g_addrb = Base(bank) /\ Base(bank) \in Nat /\ BankSize \in Nat
  BY <1>1, Addr16, BankRead, RomSizeIs DEF g_addrb, Base
<1>3. addrcount' = n /\ n \in Nat /\ At(rom, bank, n)
  <2>1. addrcount' = n
    BY <1>2 DEF bankdis, LenAt
  <2>2. At(rom, bank, n)
    BY <1>1, Advance
  <2> QED
    BY <2>1, <2>2 DEF At, Reach
<1>4. PICK shown \in IF op = \hCB THEN BytesAt(addrcount + 1) ELSE {Operand(addrcount, op)} :
        instr_list' = Append(instr_list,
          [addr |-> addrcount + Base(bank), opcode |-> op, operand |-> shown,
           instr_len |-> cpu_lens(op)])
  <2> HIDE DEF op, ListInv
  <2> QED
    BY <1>2 DEF bankdis
<1> DEFINE l == [addr |-> addrcount + Base(bank), opcode |-> op, operand |-> shown,
                 instr_len |-> cpu_lens(op)]
           q == instr_list'
<1>5. /\ shown \in Int
      /\ addrcount <= BankSize - 3 /\ op \in Branches =>
           shown = Target(rom, addrcount + Base(bank), op)
  <2>1. CASE op = \hCB
    <3>1. op \notin Branches
      BY <2>1 DEF Branches, JumpOps, CallOps, ShortOps
    <3>2. shown \in Byte
      BY <1>1, <2>1, Beside
    <3> QED
      BY <3>1, <3>2, ByteIs
  <2>2. CASE op # \hCB
    <3>1. shown = Operand(addrcount, op)
      BY <2>2
    <3> QED
      BY <1>1, <1>2, <3>1, OperandShown
  <2> QED
    BY <2>1, <2>2
<1>6. l \in GoodLine(rom, bank)
  <2>1. /\ l.addr = addrcount + Base(bank) /\ l.opcode = op /\ l.operand = shown
        /\ l.instr_len = cpu_lens(op)
    OBVIOUS
  <2>2. addrcount + Base(bank) \in Base(bank) .. Base(bank) + BankSize - 1
    BY <1>1, <1>2
  <2>3. l \in [addr : Base(bank) .. Base(bank) + BankSize - 1, opcode : Byte, operand : Int,
               instr_len : 1 .. 3]
    <3> HIDE DEF op
    <3> QED
      BY <1>2, <1>5, <2>2, LensRange
  <2>4. l.opcode = rom[l.addr]
    BY <2>1
  <2>5. l.addr <= Base(bank) + BankSize - 3 => addrcount <= BankSize - 3
    BY <1>1, <1>2, <2>1
  <2>6. l.addr <= Base(bank) + BankSize - 3 /\ l.opcode \in Branches
          => l.operand = Target(rom, l.addr, l.opcode)
    <3> HIDE DEF op, l
    <3> QED
      BY <1>5, <2>1, <2>5
  <2> HIDE DEF l, op
  <2> QED
    BY <2>1, <2>3, <2>4, <2>6 DEF GoodLine
<1>7. /\ q \in Seq(GoodLine(rom, bank)) /\ Len(q) = Len(instr_list) + 1 /\ Len(instr_list) \in Nat
      /\ \A k \in 1 .. Len(instr_list) : q[k] = instr_list[k]
      /\ q[Len(instr_list) + 1].addr = addrcount + Base(bank)
  <2>1. l.addr = addrcount + Base(bank)
    OBVIOUS
  <2> HIDE DEF l
  <2> QED
    BY <1>4, <1>6, <2>1 DEF l
<1> HIDE DEF l, q
<1>8. Listed(rom, bank, q, n)
  <2> SUFFICES ASSUME NEW a \in 0 .. BankSize - 1
               PROVE  (\E k \in 1 .. Len(q) : q[k].addr = a + Base(bank)) <=> a \in Below(rom, bank, n)
    BY DEF Listed
  <2>1. a \in Below(rom, bank, n) <=> a \in Below(rom, bank, addrcount) \/ a = addrcount
    BY <1>1, Advance
  <2>2. a \in Below(rom, bank, addrcount) <=>
          \E k \in 1 .. Len(instr_list) : instr_list[k].addr = a + Base(bank)
    BY <1>1 DEF Listed
  <2>3. \A k : k \in 1 .. Len(q) <=> k \in 1 .. Len(instr_list) \/ k = Len(instr_list) + 1
    BY <1>7
  <2>4. addrcount + Base(bank) = a + Base(bank) <=> addrcount = a
    BY <1>1, <1>2
  <2> HIDE DEF n
  <2>5. (\E k \in 1 .. Len(q) : q[k].addr = a + Base(bank)) <=>
          \/ \E k \in 1 .. Len(instr_list) : q[k].addr = a + Base(bank)
          \/ q[Len(instr_list) + 1].addr = a + Base(bank)
    BY <2>3
  <2>6. (\E k \in 1 .. Len(instr_list) : q[k].addr = a + Base(bank)) <=>
          \E k \in 1 .. Len(instr_list) : instr_list[k].addr = a + Base(bank)
    BY <1>7
  <2> QED
    BY <1>7, <2>1, <2>2, <2>4, <2>5, <2>6
<1>9. UNCHANGED <<rom, phase, bank, armark_list, listing>>
  BY DEF bankdis
<1> HIDE DEF n, op
<1> QED
  BY <1>1, <1>3, <1>7, <1>8, <1>9 DEF RomOK, q

\* The mark bankout attaches is the one of the line's address, or an empty one
\* when no branch leads there.
LEMMA Attached ==
  ASSUME NEW r, MarkList(bank, armark_list), MarksOK(r, bank, armark_list, BankSize),
         NEW l, l.addr \in Words, l.addr >= Base(bank)
  PROVE  Attach(l) \in MarkType(bank) /\ AttachOK(r, bank, l.addr, Attach(l))
<1> DEFINE x == l.addr
           found == LastAt(armark_list, x)
           mk == IF found = 0 THEN Mark(x) ELSE armark_list[found]
<1>1. Attach(l) = mk
  BY DEF Attach, LastAt
<1> HIDE DEF x
<1>2. x \in Words /\ x >= Base(bank)
  BY DEF x
<1>3. \/ found \in 1 .. Len(armark_list) /\ armark_list[found].baddr = x
      \/ found = 0 /\ \A i \in 1 .. Len(armark_list) : armark_list[i].baddr # x
  BY <1>2, FindMark
<1> HIDE DEF found
<1>4. CASE found \in 1 .. Len(armark_list)
  <2>1. found # 0 /\ armark_list[found].baddr = x
    BY <1>3, <1>4
  <2>2. mk = armark_list[found] /\ mk \in MarkType(bank)
    BY <1>4, <2>1 DEF MarkList
  <2>3. \A i \in 1 .. Len(armark_list) : armark_list[i].baddr = x => i = found
    BY <1>2, <1>4, <2>1 DEF MarkList
  <2>4. ASSUME NEW kind \in Kinds, NEW c
        PROVE  c \in ToSet(mk[kind]) <=> Marked(armark_list, kind, c, x)
    BY <1>4, <2>1, <2>2, <2>3 DEF Marked
  <2> HIDE DEF mk
  <2> QED
    BY <1>1, <1>2, <2>2, <2>4 DEF AttachOK, MarksOK, x
<1>5. CASE found = 0 /\ \A i \in 1 .. Len(armark_list) : armark_list[i].baddr # x
  <2>1. mk = Mark(x) /\ mk \in MarkType(bank) /\ \A kind \in Kinds : ToSet(mk[kind]) = {}
    BY <1>2, <1>5, EmptyMark
  <2>2. \A kind, c : ~Marked(armark_list, kind, c, x)
    BY <1>5 DEF Marked
  <2> HIDE DEF mk
  <2> QED
    BY <1>1, <1>2, <2>1, <2>2 DEF AttachOK, MarksOK, x
<1> QED
  BY <1>3, <1>4, <1>5

\* bankout prints a bank that is true to the cartridge.
LEMMA OutStep == ASSUME Unbanked, ListInv, bankout PROVE ListInv'
<1> USE DEF ListInv
<1> DEFINE out == [k \in DOMAIN instr_list |->
                     [line |-> instr_list[k], attach |-> Attach(instr_list[k])]]
           Pages == Printed(rom, 0) \cup Printed(rom, 1)
<1>1. /\ RomOK /\ bank \in Nat /\ bank < promsize /\ bank \in {0, 1}
      /\ MarkList(bank, armark_list) /\ MarksOK(rom, bank, armark_list, BankSize)
      /\ instr_list \in Seq(GoodLine(rom, bank)) /\ Listed(rom, bank, instr_list, BankSize)
  BY RomSizeIs DEF bankout
<1>2. Base(bank) \in Nat /\ Base(bank) + BankSize <= 32768 /\ BankSize \in Nat
  <2>1. 0 \in 0 .. BankSize - 1
    BY RomSizeIs
  <2> QED
    BY <1>1, <2>1, BankRead, RomSizeIs
<1>3. DOMAIN instr_list = 1 .. Len(instr_list) /\ Len(instr_list) \in Nat
  BY <1>1
<1>4. ASSUME NEW k \in 1 .. Len(instr_list)
      PROVE  /\ Attach(instr_list[k]) \in MarkType(bank)
             /\ AttachOK(rom, bank, instr_list[k].addr, Attach(instr_list[k]))
             /\ instr_list[k] \in GoodLine(rom, bank)
  <2> DEFINE l == instr_list[k]
  <2>1. l \in GoodLine(rom, bank)
    BY <1>1
  <2> HIDE DEF l
  <2>2. l.addr \in Base(bank) .. Base(bank) + BankSize - 1
    BY <2>1 DEF GoodLine
  <2>3. l.addr \in Words /\ l.addr >= Base(bank)
    BY <1>2, <2>2, WordsIs
  <2> QED
    BY <1>1, <2>1, <2>3, Attached DEF l
<1>5. /\ out \in Seq([line : GoodLine(rom, bank), attach : MarkType(bank)])
      /\ Len(out) = Len(instr_list)
      /\ \A k \in 1 .. Len(instr_list) : /\ out[k].line = instr_list[k]
                                         /\ out[k].attach = Attach(instr_list[k])
  BY <1>3, <1>4
<1> HIDE DEF out
<1>6. out \in Printed(rom, bank)
  <2>1. 1 .. Len(out) = 1 .. Len(instr_list)
    BY <1>5
  <2>2. \A a \in 0 .. BankSize - 1 :
          (\E k \in 1 .. Len(out) : out[k].line.addr = a + Base(bank))
            <=> a \in Below(rom, bank, BankSize)
    BY <1>1, <1>5, <2>1 DEF Listed
  <2>3. \A k \in 1 .. Len(out) : AttachOK(rom, bank, out[k].line.addr, out[k].attach)
    BY <1>4, <1>5, <2>1
  <2> QED
    BY <1>5, <2>2, <2>3 DEF Printed
<1>7. out \in Pages /\ listing \in Seq(Pages) /\ Len(listing) = bank
  BY <1>1, <1>6
<1>8. listing' = Append(listing, out)
  BY DEF bankout, out
<1> HIDE DEF Pages
<1>9. /\ listing' \in Seq(Pages) /\ Len(listing') = bank + 1
      /\ \A b \in 1 .. bank : listing'[b] = listing[b]
      /\ listing'[bank + 1] = out
  BY <1>7, <1>8
<1>10. ASSUME NEW b \in 1 .. bank + 1 PROVE listing'[b] \in Printed(rom, b - 1)
  <2>1. CASE b = bank + 1
    BY <1>1, <1>6, <1>9, <2>1
  <2>2. CASE b \in 1 .. bank
    BY <1>7, <1>9, <2>2
  <2> QED
    BY <1>1, <2>1, <2>2
<1>11. /\ MarkList(bank + 1, <<>>) /\ MarksOK(rom, bank + 1, <<>>, 0)
       /\ At(rom, bank + 1, 0) /\ <<>> \in Seq(GoodLine(rom, bank + 1))
  BY NoMarks, NoLines, AtZero
<1>12. /\ armark_list' = <<>> /\ instr_list' = <<>> /\ addrcount' = 0 /\ bank' = bank + 1
       /\ rom' = rom /\ phase' = IF bank + 1 = promsize THEN "run" ELSE "mark"
  BY DEF bankout
<1>13. bank + 1 <= promsize /\ (phase' = "mark" => bank + 1 < promsize)
  BY <1>1, <1>12, RomSizeIs
<1>14. CASE phase' = "run"
  BY <1>1, <1>9, <1>10, <1>11, <1>12, <1>13, <1>14 DEF RomOK, Pages
<1>15. CASE phase' = "mark"
  BY <1>1, <1>9, <1>10, <1>11, <1>12, <1>13, <1>15 DEF RomOK, Pages
<1> QED
  BY <1>12, <1>14, <1>15

\* Every step keeps the listing true to the cartridge.
LEMMA ListNext == Unbanked /\ ListInv /\ [Next]_vars => ListInv'
<1> SUFFICES ASSUME Unbanked, ListInv, [Next]_vars PROVE ListInv'
  OBVIOUS
<1>1. CASE ListDone
  <2>1. /\ phase = "dis" /\ addrcount >= BankSize /\ phase' = "out"
        /\ UNCHANGED <<rom, bank, addrcount, armark_list, instr_list, listing>>
    BY <1>1 DEF ListDone
  <2>2. Listed(rom, bank, instr_list, BankSize)
    <3>1. Below(rom, bank, addrcount) = Below(rom, bank, BankSize)
      BY <2>1, BelowEnd DEF ListInv
    <3> QED
      BY <2>1, <3>1 DEF ListInv, Listed
  <2> QED
    BY <2>1, <2>2 DEF ListInv, RomOK
<1>2. CASE Fault
  <2>1. /\ phase' = "fault" /\ phase \in {"mark", "dis"}
        /\ UNCHANGED <<rom, bank, addrcount, armark_list, instr_list, listing>>
    BY <1>2 DEF Fault
  <2> QED
    BY <2>1 DEF ListInv, RomOK
<1>3. CASE UNCHANGED <<rom, disVars>>
  BY <1>3 DEF ListInv, RomOK, disVars
<1> QED
  BY <1>1, <1>2, <1>3, MarkStep, MarksDoneStep, DisStep, OutStep
     DEF Next, Run, Optick, Wake, vars

\* The offset of an address in the first or the second bank.
LEMMA Offset ==
  ASSUME Unbanked, NEW b \in {0, 1}, NEW x \in Base(b) .. Base(b) + BankSize - 1
  PROVE  /\ x \in Nat /\ x - Base(b) \in 0 .. BankSize - 1 /\ (x - Base(b)) + Base(b) = x
         /\ x % BankSize <= BankSize - 3 <=> x <= Base(b) + BankSize - 3
         /\ x % BankSize <= BankSize - 3 <=> x - Base(b) <= BankSize - 3
<1> DEFINE g == Base(b)
           a == x - g
<1>1. BankSize \in Nat /\ BankSize > 0 /\ g \in {0, BankSize} /\ g \in Nat
  BY RomSizeIs DEF Base
<1> HIDE DEF g
<1>2. x \in Nat /\ a \in 0 .. BankSize - 1 /\ x = a + g
  BY <1>1 DEF g
<1> HIDE DEF a
<1>3. x % BankSize = a
  <2>1. a % BankSize = a /\ (a + BankSize) % BankSize = a
    BY <1>1, <1>2, ModBank
  <2>2. x = a \/ x = a + BankSize
    BY <1>1, <1>2
  <2> QED
    BY <2>1, <2>2
<1>4. x % BankSize <= BankSize - 3 <=> x <= g + BankSize - 3
  BY <1>1, <1>2, <1>3
<1> QED
  BY <1>1, <1>2, <1>3, <1>4 DEF g, a

\* What is known of a printed line and its mark.
LEMMA LineOf ==
  ASSUME Unbanked, ListInv, NEW b \in DOMAIN listing, NEW e \in Lines(b)
  PROVE  /\ b - 1 \in {0, 1} /\ b - 1 \in Nat /\ b - 1 < promsize
         /\ e.line \in GoodLine(rom, b - 1) /\ e.attach \in MarkType(b - 1)
         /\ AttachOK(rom, b - 1, e.line.addr, e.attach)
         /\ e.line.addr \in Base(b - 1) .. Base(b - 1) + BankSize - 1
         /\ e \in WholeLines(b) <=> e.line.addr <= Base(b - 1) + BankSize - 3
<1>1. b \in 1 .. Len(listing) /\ Len(listing) = bank /\ bank \in Nat /\ bank <= promsize
  BY DEF ListInv
<1>2. b - 1 \in {0, 1} /\ b - 1 \in Nat /\ b - 1 < promsize
  BY <1>1, RomSizeIs
<1> DEFINE out == listing[b]
<1>3. out \in Printed(rom, b - 1)
  BY <1>1 DEF ListInv
<1>4. PICK k \in DOMAIN out : e = out[k]
  BY DEF Lines
<1> HIDE DEF out
<1>5. /\ out \in Seq([line : GoodLine(rom, b - 1), attach : MarkType(b - 1)])
      /\ \A j \in 1 .. Len(out) : AttachOK(rom, b - 1, out[j].line.addr, out[j].attach)
  BY <1>3 DEF Printed
<1>6. k \in 1 .. Len(out)
  BY <1>5
<1>7. /\ e.line \in GoodLine(rom, b - 1) /\ e.attach \in MarkType(b - 1)
      /\ AttachOK(rom, b - 1, e.line.addr, e.attach)
  <2> DEFINE Entries == [line : GoodLine(rom, b - 1), attach : MarkType(b - 1)]
  <2>1. out \in Seq(Entries)
    BY <1>5
  <2>2. e \in Entries
    <3> HIDE DEF Entries
    <3> QED
      BY <1>4, <1>6, <2>1
  <2>3. e.line \in GoodLine(rom, b - 1) /\ e.attach \in MarkType(b - 1)
    BY <2>2
  <2> QED
    BY <1>4, <1>5, <1>6, <2>3
<1>8. e.line.addr \in Base(b - 1) .. Base(b - 1) + BankSize - 1
  BY <1>7 DEF GoodLine
<1>9. e.line.addr % BankSize <= BankSize - 3 <=> e.line.addr <= Base(b - 1) + BankSize - 3
  BY <1>2, <1>8, Offset
<1> QED
  BY <1>2, <1>7, <1>8, <1>9 DEF WholeLines

\* A line whose instruction is inside the bank shows it.
LEMMA WholeLine ==
  ASSUME Unbanked, ListInv, NEW b \in DOMAIN listing, NEW e \in WholeLines(b)
  PROVE  /\ e.line.addr \in Nat /\ e.line.addr + 2 < RomSize
         /\ e.line.opcode = rom[e.line.addr] /\ e.line.opcode \in Byte
         /\ e.line.instr_len = cpu_lens(e.line.opcode)
         /\ e.line.opcode \in Branches
              => e.line.operand = Target(rom, e.line.addr, e.line.opcode)
<1> DEFINE l == e.line
<1>1. e \in Lines(b)
  BY DEF WholeLines
<1>2. /\ b - 1 \in {0, 1} /\ b - 1 \in Nat /\ b - 1 < promsize
      /\ l \in GoodLine(rom, b - 1) /\ l.addr \in Base(b - 1) .. Base(b - 1) + BankSize - 1
      /\ l.addr <= Base(b - 1) + BankSize - 3
  BY <1>1, LineOf
<1> HIDE DEF l
<1>3. /\ l.opcode = rom[l.addr] /\ l.opcode \in Byte /\ l.instr_len = cpu_lens(l.opcode)
      /\ l.opcode \in Branches => l.operand = Target(rom, l.addr, l.opcode)
  BY <1>2 DEF GoodLine
<1>4. l.addr \in Nat
  BY <1>2, Offset
<1>5. Base(b - 1) \in Nat /\ Base(b - 1) + BankSize <= RomSize
  <2>1. 0 \in 0 .. BankSize - 1 /\ RomOK
    BY RomSizeIs DEF ListInv
  <2> QED
    BY <1>2, <2>1, BankRead
<1>6. l.addr + 2 < RomSize
  BY <1>2, <1>4, <1>5, RomSizeIs
<1> QED
  BY <1>3, <1>4, <1>6 DEF l

\* From such a line the CPU goes to the next, or where the line says.
LEMMA FollowStep ==
  ASSUME Unbanked, ListInv, CpuOK, ~cpu.backup, Optick, NEW e \in LinesHere,
         e.line.opcode \notin Unlisted \cup DifferentLength
  PROVE  \/ cpu'.PC = e.line.addr + e.line.instr_len
         \/ /\ \E kind \in DOMAIN Trackers : e.line.opcode \in ToSet(Trackers[kind])
            /\ cpu'.PC = e.line.operand
<1> DEFINE a == e.line.addr
           op == e.line.opcode
           m == Fetched
<1>1. PICK b \in DOMAIN listing : e \in WholeLines(b)
  BY DEF LinesHere
<1>2. /\ a \in Nat /\ a + 2 < RomSize /\ op = rom[a] /\ op \in Byte
      /\ e.line.instr_len = cpu_lens(op)
      /\ op \in Branches => e.line.operand = Target(rom, a, op)
  BY <1>1, WholeLine
<1>3. a = cpu.PC
  BY DEF LinesHere
<1>4. /\ Machine(m) /\ Opcode = op /\ Counter(m) = Word(a + 1)
  <2>1. Counter(cpu) + 1 - One(cpu.backup) = a + 1
    BY <1>2, <1>3 DEF One, Counter
  <2>2. MmuRead(cpu, a) = rom[a]
    <3>1. a < RomSize
      BY <1>2, RomSizeIs
    <3> QED
      BY <1>2, <3>1, RomRead DEF CpuOK
  <2> HIDE DEF a
  <2> QED
    BY <1>2, <1>3, <2>1, <2>2, FetchMachine DEF CpuOK, Opcode
<1>5. cpu' = Execute(m, op)
  BY <1>4 DEF Optick
<1>6. cpu'.PC = Counter(Execute(m, op))
  BY <1>5 DEF Counter
<1> HIDE DEF a, op, m
<1>7. Word(a + 1) = a + 1 /\ a < 32766
  BY <1>2, RomSizeIs DEF Word
<1>8. cpu_lens(op) \in 1 .. 3
  BY LensRange
<1>9. Word(Counter(m) + (cpu_lens(op) - 1)) = a + cpu_lens(op)
  BY <1>2, <1>4, <1>7, <1>8 DEF Word
<1>10. CASE op \notin Branches
  <2>1. Counter(Execute(m, op)) = Word(Counter(m) + (cpu_lens(op) - 1))
    <3>1. op \notin Unlisted \cup DifferentLength \cup Branches
      BY <1>10 DEF op
    <3> QED
      BY <1>2, <1>4, <3>1, LengthsAgree DEF CpuOK
  <2> QED
    BY <1>2, <1>6, <1>9, <2>1 DEF a
<1>11. CASE op \in Branches
  <2>1. Counter(Execute(m, op)) \in {Word(Counter(m) + (cpu_lens(op) - 1)), Target(rom, a, op)}
    BY <1>2, <1>4, <1>7, <1>11, BranchLeads DEF CpuOK
  <2>2. \E kind \in DOMAIN Trackers : op \in ToSet(Trackers[kind])
    BY <1>11, TrackerOps DEF Branches, Kinds, OpsOf
  <2> QED
    BY <1>2, <1>6, <1>9, <1>11, <2>1, <2>2 DEF a, op
<1> QED
  BY <1>10, <1>11

\* FollowsListing, for every cartridge addressed without a bank controller:
\* cpu_lens and the table of the CPU agree on where each instruction ends, and
\* the text of a branch says where it leads.
THEOREM FollowsCorrect == ASSUME Unbanked PROVE Spec => FollowsListing
<1>1. Init => ListInv /\ CpuOK
  BY ListInit, CpuInitOK
<1>2. ListInv /\ CpuOK /\ [Next]_vars => (ListInv /\ CpuOK)'
  BY ListNext, CpuNextOK
<1>3. ListInv /\ CpuOK /\ [Next]_vars =>
        [phase = "run" /\ ~cpu.backup /\ Optick
           => \A e \in LinesHere :
                e.line.opcode \notin Unlisted \cup DifferentLength
                  => \/ cpu'.PC = e.line.addr + e.line.instr_len
                     \/ /\ \E kind \in DOMAIN Trackers :
                              e.line.opcode \in ToSet(Trackers[kind])
                        /\ cpu'.PC = e.line.operand]_vars
  BY FollowStep
<1> QED
  BY <1>1, <1>2, <1>3, PTL DEF Spec, FollowsListing

\* The address a branch is recorded at is its target, for the first bank, and
\* for the short jumps of the second.
LEMMA LedIs ==
  ASSUME RomOK, Unbanked, NEW b \in {0, 1}, b < promsize, NEW a \in 0 .. BankSize - 1,
         a <= BankSize - 3, NEW kind \in Kinds, rom[a + Base(b)] \in OpsOf(kind),
         b = 0 \/ kind = "short", NEW x \in Base(b) .. Base(b) + BankSize - 1
  PROVE  Led(rom, b, kind, a) + Base(b) = x <=> Target(rom, a + Base(b), rom[a + Base(b)]) = x
<1> DEFINE g == Base(b)
           op == rom[a + g]
           d == rom[(a + 1) + g]
<1>1. b \in Nat /\ a + 1 \in 0 .. BankSize - 1
  BY RomSizeIs
<1>2. g \in Nat /\ g + BankSize <= RomSize /\ d \in Byte
  BY <1>1, BankRead
<1>3. (a + 1) + g = (a + g) + 1
  BY <1>2
<1>4. op \in OpsOf(kind)
  OBVIOUS
<1>5. CASE kind = "short"
  <2>1. Led(rom, b, kind, a) = Word(a + 2 + Signed(d))
    BY <1>5 DEF Led
  <2>2. Target(rom, a + g, op) = Word((a + g) + 2 + Signed(d))
    <3>1. op \in ShortOps
      BY <1>4, <1>5 DEF OpsOf
    <3> HIDE DEF op, g
    <3> QED
      BY <1>3, <3>1 DEF Target
  <2> DEFINE s == Signed(d)
  <2>3. s \in Int /\ s >= -128 /\ s <= 127
    BY <1>2, ByteIs DEF Signed
  <2> HIDE DEF s, d, op, g
  <2>4. g + BankSize <= 32768 /\ x \in Nat /\ x >= g /\ x < g + BankSize /\ a \in Nat
        /\ BankSize \in Nat /\ a < BankSize
    BY <1>2, RomSizeIs DEF g
  <2> DEFINE u == a + 2 + s
  <2>5. u \in Int /\ u >= -126 /\ u + g < 40000 /\ (a + g) + 2 + s = u + g
    BY <1>2, <2>3, <2>4
  <2> HIDE DEF u
  <2>6. CASE u >= 0
    <3>1. Word(u) = u /\ Word(u + g) = u + g
      BY <1>2, <2>5, <2>6 DEF Word
    <3> QED
      BY <2>1, <2>2, <2>5, <3>1 DEF s, u, op, g
  <2>7. CASE u < 0
    <3>1. Word(u) = u + 65536
      BY <2>5, <2>7 DEF Word
    <3>2. Word(u) + g # x
      BY <1>2, <2>4, <2>5, <3>1
    <3>3. Word(u + g) # x
      <4>1. CASE u + g >= 0
        <5>1. Word(u + g) = u + g
          BY <1>2, <2>5, <4>1 DEF Word
        <5> QED
          BY <1>2, <2>4, <2>5, <2>7, <5>1
      <4>2. CASE u + g < 0
        <5>1. Word(u + g) = u + g + 65536
          BY <1>2, <2>5, <4>2 DEF Word
        <5> QED
          BY <1>2, <2>4, <2>5, <5>1
      <4> QED
        BY <1>2, <2>5, <4>1, <4>2
    <3> QED
      BY <2>1, <2>2, <2>5, <3>2, <3>3 DEF s, u, op, g
  <2> QED
    BY <2>5, <2>6, <2>7
<1>6. CASE kind # "short"
  <2>1. g = 0
    BY <1>6 DEF Base
  <2>2. op \notin ShortOps
    BY <1>4, <1>6 DEF Kinds, OpsOf, JumpOps, CallOps, ShortOps
  <2>3. Led(rom, b, kind, a) = RomWord(rom, (a + 1) + g)
    BY <1>6 DEF Led
  <2>4. Target(rom, a + g, op) = RomWord(rom, (a + g) + 1)
    <3> HIDE DEF op, g
    <3> QED
      BY <2>2 DEF Target
  <2>5. RomWord(rom, (a + 1) + g) \in Int
    <3>1. a + 2 \in 0 .. BankSize - 1 /\ (a + 2) + g = ((a + 1) + g) + 1
      BY <1>2, RomSizeIs
    <3>2. d \in Nat /\ rom[(a + 2) + g] \in Nat
      BY <1>1, <1>2, <3>1, BankRead, ByteIs
    <3> QED
      BY <3>1, <3>2 DEF RomWord
  <2> HIDE DEF op, d
  <2> QED
    BY <1>3, <2>1, <2>3, <2>4, <2>5 DEF op
<1> QED
  BY <1>5, <1>6

\* The lines of a bank are at the addresses of the scan, and at no others.
LEMMA LinesBelow ==
  ASSUME Unbanked, ListInv, NEW b \in DOMAIN listing
  PROVE  /\ \A e \in Lines(b) : e.line.addr - Base(b - 1) \in Below(rom, b - 1, BankSize)
         /\ \A a \in Below(rom, b - 1, BankSize) : \E e \in Lines(b) : e.line.addr = a + Base(b - 1)
<1> DEFINE out == listing[b]
<1>1. out \in Printed(rom, b - 1)
  BY DEF ListInv
<1> HIDE DEF out
<1>2. /\ DOMAIN out = 1 .. Len(out)
      /\ \A a \in 0 .. BankSize - 1 :
           (\E k \in 1 .. Len(out) : out[k].line.addr = a + Base(b - 1))
             <=> a \in Below(rom, b - 1, BankSize)
  BY <1>1 DEF Printed
<1>3. ASSUME NEW e \in Lines(b) PROVE e.line.addr - Base(b - 1) \in Below(rom, b - 1, BankSize)
  <2> DEFINE a == e.line.addr - Base(b - 1)
  <2>1. PICK k \in DOMAIN out : e = out[k]
    BY <1>3 DEF Lines, out
  <2>2. b - 1 \in {0, 1} /\ e.line.addr \in Base(b - 1) .. Base(b - 1) + BankSize - 1
    BY LineOf
  <2>3. a \in 0 .. BankSize - 1 /\ e.line.addr = a + Base(b - 1)
    BY <2>2, Offset
  <2> HIDE DEF a
  <2> QED
    BY <1>2, <2>1, <2>3 DEF a
<1>4. ASSUME NEW a \in Below(rom, b - 1, BankSize)
      PROVE  \E e \in Lines(b) : e.line.addr = a + Base(b - 1)
  <2>1. a \in 0 .. BankSize - 1
    BY <1>4 DEF Below
  <2>2. PICK k \in 1 .. Len(out) : out[k].line.addr = a + Base(b - 1)
    BY <1>2, <1>4, <2>1
  <2>3. out[k] \in Lines(b)
    BY <1>2 DEF Lines, out
  <2> QED
    BY <2>2, <2>3
<1> QED
  BY <1>3, <1>4

\* A printed branch is the one of the scan at its offset.
LEMMA BranchLine ==
  ASSUME Unbanked, ListInv, NEW b \in DOMAIN listing, NEW e \in WholeLines(b),
         NEW kind \in Kinds, b = 1 \/ kind = "short", e.line.opcode \in OpsOf(kind),
         NEW x \in Base(b - 1) .. Base(b - 1) + BankSize - 1,
         NEW a, a = e.line.addr - Base(b - 1)
  PROVE  /\ a \in Below(rom, b - 1, BankSize) /\ e.line.addr = a + Base(b - 1)
         /\ rom[a + Base(b - 1)] \in OpsOf(kind)
         /\ [addr |-> e.line.addr, ccbranch |-> Conditional(e.line.addr)]
              = BranchAt(rom, b - 1, a)
         /\ TakenFrom(e.line.addr) = x <=> Led(rom, b - 1, kind, a) + Base(b - 1) = x
<1> DEFINE y == e.line.addr
           op == e.line.opcode
<1>1. e \in Lines(b) /\ RomOK
  BY DEF WholeLines, ListInv
<1>2. /\ b - 1 \in {0, 1} /\ b - 1 < promsize
      /\ y \in Base(b - 1) .. Base(b - 1) + BankSize - 1
      /\ y <= Base(b - 1) + BankSize - 3
  BY <1>1, LineOf
<1>3. /\ y \in Nat /\ y + 2 < RomSize /\ op = rom[y]
  BY WholeLine
<1>4. a \in Below(rom, b - 1, BankSize)
  BY <1>1, LinesBelow
<1>5. a \in 0 .. BankSize - 1 /\ y = a + Base(b - 1) /\ a <= BankSize - 3
  BY <1>2, Offset
<1>6. op \in Branches
  BY DEF Kinds, OpsOf, Branches
<1> HIDE DEF y, op
<1>7. TakenFrom(y) = Target(rom, y, op) /\ (Conditional(y) <=> op \notin PlainOps)
  BY <1>1, <1>3, <1>6, TakenTarget
<1>8. rom[a + Base(b - 1)] = op /\ op \in OpsOf(kind)
  BY <1>3, <1>5 DEF op
<1>9. Led(rom, b - 1, kind, a) + Base(b - 1) = x <=> Target(rom, y, op) = x
  <2>1. b - 1 = 0 \/ kind = "short"
    BY <1>2
  <2> DEFINE p == b - 1
  <2>2. /\ p \in {0, 1} /\ p < promsize /\ (p = 0 \/ kind = "short")
        /\ x \in Base(p) .. Base(p) + BankSize - 1 /\ rom[a + Base(p)] \in OpsOf(kind)
    BY <1>2, <1>8, <2>1
  <2> HIDE DEF p
  <2>3. Led(rom, p, kind, a) + Base(p) = x <=> Target(rom, a + Base(p), rom[a + Base(p)]) = x
    BY <1>1, <1>2, <1>5, <2>1, <2>2, LedIs DEF p
  <2> QED
    BY <1>5, <1>8, <2>3 DEF p
<1>10. [addr |-> y, ccbranch |-> Conditional(y)] = BranchAt(rom, b - 1, a)
  <2>1. Conditional(y) = (op \notin PlainOps)
    BY <1>7 DEF Conditional
  <2> QED
    BY <1>5, <1>8, <2>1 DEF BranchAt
<1> QED
  BY <1>4, <1>5, <1>7, <1>8, <1>9, <1>10 DEF y, op

\* The label above a line names a branch when the CPU gets to the line by it.
LEMMA LabelOf ==
  ASSUME Unbanked, ListInv, NEW b \in DOMAIN listing, NEW e \in Lines(b),
         NEW kind \in Kinds, b = 1 \/ kind = "short", NEW c
  PROVE  c \in Inside(b, ToSet(e.attach[kind])) <=> c \in BranchesTo(b, e.line.addr, kind)
<1> DEFINE p == b - 1
           x == e.line.addr
           mk == e.attach
<1>1. /\ p \in {0, 1} /\ p < promsize /\ mk \in MarkType(p) /\ AttachOK(rom, p, x, mk)
      /\ x \in Base(p) .. Base(p) + BankSize - 1
  BY LineOf
<1>2. /\ \A l \in Lines(b) : l.line.addr - Base(p) \in Below(rom, p, BankSize)
      /\ \A a \in Below(rom, p, BankSize) : \E l \in Lines(b) : l.line.addr = a + Base(p)
  BY LinesBelow
<1>3. ToSet(Trackers[kind]) = OpsOf(kind)
  BY TrackerOps
<1>4. c \in BranchesTo(b, x, kind) <=>
        \E l \in WholeLines(b) :
          /\ l.line.opcode \in OpsOf(kind) /\ TakenFrom(l.line.addr) = x
          /\ c = [addr |-> l.line.addr, ccbranch |-> Conditional(l.line.addr)]
  <2> HIDE DEF x
  <2> QED
    BY <1>3 DEF BranchesTo
<1>5. c \in Inside(b, ToSet(mk[kind])) <=> c \in ToSet(mk[kind]) /\ c.addr % BankSize <= BankSize - 3
  BY DEF Inside
<1>6. c \in ToSet(mk[kind]) => c \in Branch(p)
  <2>1. mk[kind] \in Seq(Branch(p))
    BY <1>1, MarkFields
  <2> QED
    BY <2>1 DEF ToSet
<1> HIDE DEF p, x, mk
<1>7. ASSUME c \in ToSet(mk[kind]), c.addr % BankSize <= BankSize - 3
      PROVE  c \in BranchesTo(b, x, kind)
  <2>1. c.addr \in Base(p) .. Base(p) + BankSize - 1
    BY <1>6, <1>7 DEF Branch
  <2>2. c \in Whole(p) /\ c.addr <= Base(p) + BankSize - 3
    BY <1>1, <1>6, <1>7, <2>1, Offset DEF Whole
  <2>3. From(rom, p, BankSize, kind, c, x)
    BY <1>1, <1>7, <2>2 DEF AttachOK
  <2>4. PICK a \in Below(rom, p, BankSize) :
          /\ c = BranchAt(rom, p, a) /\ rom[a + Base(p)] \in OpsOf(kind)
          /\ Led(rom, p, kind, a) + Base(p) = x
    BY <2>3 DEF From
  <2>5. PICK l \in Lines(b) : l.line.addr = a + Base(p)
    BY <1>2
  <2>6. c.addr = l.line.addr
    BY <2>4, <2>5 DEF BranchAt
  <2>7. l \in WholeLines(b)
    BY <2>2, <2>6, LineOf DEF p
  <2>8. l.line.opcode \in OpsOf(kind)
    BY <2>4, <2>5, <2>7, WholeLine
  <2>9. a = l.line.addr - Base(p)
    <3>1. a \in Nat /\ Base(p) \in Nat
      BY RomSizeIs DEF Below, Base
    <3> QED
      BY <2>5, <3>1
  <2>10. /\ [addr |-> l.line.addr, ccbranch |-> Conditional(l.line.addr)] = BranchAt(rom, p, a)
         /\ TakenFrom(l.line.addr) = x <=> Led(rom, p, kind, a) + Base(p) = x
    BY <1>1, <2>7, <2>8, <2>9, BranchLine DEF p
  <2> QED
    BY <1>4, <2>4, <2>7, <2>8, <2>10
<1>8. ASSUME c \in BranchesTo(b, x, kind)
      PROVE  c \in ToSet(mk[kind]) /\ c.addr % BankSize <= BankSize - 3
  <2>1. PICK l \in WholeLines(b) :
          /\ l.line.opcode \in OpsOf(kind) /\ TakenFrom(l.line.addr) = x
          /\ c = [addr |-> l.line.addr, ccbranch |-> Conditional(l.line.addr)]
    BY <1>4, <1>8
  <2> DEFINE a == l.line.addr - Base(p)
  <2> HIDE DEF a
  <2>2. /\ a \in Below(rom, p, BankSize) /\ rom[a + Base(p)] \in OpsOf(kind)
        /\ c = BranchAt(rom, p, a) /\ Led(rom, p, kind, a) + Base(p) = x
    BY <1>1, <2>1, BranchLine DEF p, a
  <2>3. From(rom, p, BankSize, kind, c, x)
    BY <2>2 DEF From
  <2>4. /\ l \in Lines(b) /\ l.line.addr % BankSize <= BankSize - 3
        /\ l.line.addr \in Base(p) .. Base(p) + BankSize - 1
        /\ l.line.addr <= Base(p) + BankSize - 3
    BY LineOf DEF WholeLines, p
  <2>5. c \in Whole(p)
    BY <2>1, <2>4 DEF Whole, Branch, Conditional
  <2> QED
    BY <1>1, <2>1, <2>3, <2>4, <2>5 DEF AttachOK
<1> QED
  BY <1>5, <1>7, <1>8 DEF mk, x

\* So the labels are true.
LEMMA LabelsHold == Unbanked /\ ListInv => LabelsTrue
<1> SUFFICES ASSUME Unbanked, ListInv, NEW b \in DOMAIN listing, NEW e \in Lines(b),
                    NEW kind \in IF b = 1 THEN DOMAIN Trackers ELSE {"short"}
             PROVE  Inside(b, ToSet(e.attach[kind])) = BranchesTo(b, e.line.addr, kind)
  BY DEF LabelsTrue
<1>1. kind \in Kinds /\ (b = 1 \/ kind = "short")
  BY TrackerOps DEF Kinds
<1> DEFINE left == Inside(b, ToSet(e.attach[kind]))
           right == BranchesTo(b, e.line.addr, kind)
<1>2. \A c : c \in left <=> c \in right
  BY <1>1, LabelOf
<1> HIDE DEF left, right
<1>3. left = right
  BY <1>2
<1> QED
  BY <1>3 DEF left, right

\* LabelsTrue, for every such cartridge: each label names exactly the branches by
\* which the CPU gets to its line, the recorded jump, call or short jump of the
\* two passes being the one the CPU takes.
THEOREM LabelsCorrect == ASSUME Unbanked PROVE Spec => []LabelsTrue
<1> QED
  BY ListInit, ListNext, LabelsHold, PTL DEF Spec

=============================================================================
