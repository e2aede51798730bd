------------------------------ MODULE Lr35902 ------------------------------
(***************************************************************************)
(* _cpu_optick (dmgdraft/core/cpu_optick2.asm): one opcode of the CPU of   *)
(* the Game Boy, for every opcode of its two tables.                       *)
(*                                                                         *)
(* A machine is a record: the registers and flags of struct cpu, what was  *)
(* written to memory, and the clocks the last opcode returned.  Operators  *)
(* named after a macro take the machine after the fetch and return it as   *)
(* the macro leaves it.  The CPU loads PC, F and its registers into those  *)
(* of the host and stores them at the end: both are one step.              *)
(*                                                                         *)
(* dec is history: what the A register and the carry should be after a DAA *)
(* now, when the last opcode added or subtracted two decimal bytes.        *)
(***************************************************************************)
EXTENDS Integers, Sequences

Byte == 0 .. 2^8 - 1
Words == 0 .. 2^16 - 1

CONSTANTS
  Entry,               \* the PC of cpu_reset
  StackTop,            \* its SP
  MaxOps               \* bound: opcodes run

ASSUME Lr35902Assumption == Entry \in Words /\ StackTop \in Words /\ MaxOps \in Nat

VARIABLES
  rom,                 \* the cartridge: a function from addresses to bytes
  cpu,                 \* the machine
  ops,                 \* bound
  dec                  \* history

cpuVars == <<cpu, ops, dec>>

Word(x) == x % 65536
Bit(x, k) == (x \div 2^k) % 2 = 1
One(b) == IF b THEN 1 ELSE 0
\* The byte of eight bits, and the instructions "and", "xor" and "or".
ByteOf(bits) == 128 * One(bits[7]) + 64 * One(bits[6]) + 32 * One(bits[5]) + 16 * One(bits[4])
                + 8 * One(bits[3]) + 4 * One(bits[2]) + 2 * One(bits[1]) + One(bits[0])
And(a, v) == ByteOf([k \in 0 .. 7 |-> Bit(a, k) /\ Bit(v, k)])
Xor(a, v) == ByteOf([k \in 0 .. 7 |-> Bit(a, k) # Bit(v, k)])
Or(a, v)  == ByteOf([k \in 0 .. 7 |-> Bit(a, k) \/ Bit(v, k)])
Signed(v) == IF v > 127 THEN v - 256 ELSE v

\* Z_FLAG, N_FLAG, H_FLAG and C_FLAG.
Flags(z, n, h, c) == 128 * One(z) + 64 * One(n) + 32 * One(h) + 16 * One(c)
ZSet(m) == Bit(m.F, 7)
NSet(m) == Bit(m.F, 6)
HSet(m) == Bit(m.F, 5)
CSet(m) == Bit(m.F, 4)

(***************************************************************************)
(* Memory.  The cartridge is read-only (mbc0); the rest of the address     *)
(* space, KEY1 in it, is taken for plain memory that starts as zero.       *)
(***************************************************************************)
MmuRead(m, address) ==
  LET a == Word(address)
  IN  IF a \in DOMAIN rom THEN rom[a]
      ELSE IF a \in DOMAIN m.ram THEN m.ram[a] ELSE 0

MmuWrite(m, address, value) ==
  LET a == Word(address)
  IN  IF a \in DOMAIN rom THEN m
      ELSE [m EXCEPT !.ram = [x \in {a} \cup DOMAIN @ |->
                                 IF x = a THEN value % 256 ELSE @[x]]]

MmuReadWord(m, address) == MmuRead(m, address) + 256 * MmuRead(m, address + 1)

MmuWriteWord(m, address, value) ==
  MmuWrite(MmuWrite(m, address, value), address + 1, value \div 256)

(***************************************************************************)
(* Operands                                                                *)
(***************************************************************************)
R8 == <<"B", "C", "D", "E", "H", "L", "(HL)", "A">>

Pair(m, i) ==
  CASE i = 0 -> m.B * 256 + m.C
    [] i = 1 -> m.D * 256 + m.E
    [] i = 2 -> m.H * 256 + m.L
    [] i = 3 -> m.SP

SetPair(m, i, v) ==
  LET hi == Word(v) \div 256
      lo == v % 256
  IN  CASE i = 0 -> [m EXCEPT !.B = hi, !.C = lo]
        [] i = 1 -> [m EXCEPT !.D = hi, !.E = lo]
        [] i = 2 -> [m EXCEPT !.H = hi, !.L = lo]
        [] i = 3 -> [m EXCEPT !.SP = Word(v)]

\* B_Read .. A_Read and xHL_Read, and their writes, by the bits of the opcode.
R(m, i) == IF i = 6 THEN MmuRead(m, Pair(m, 2)) ELSE m[R8[i + 1]]

SetR(m, i, v) ==
  IF i = 6 THEN MmuWrite(m, Pair(m, 2), v) ELSE [m EXCEPT ![R8[i + 1]] = v % 256]

Imm8(m) == MmuRead(m, m.PC)
Imm16(m) == MmuReadWord(m, m.PC)
Past(m, n) == [m EXCEPT !.PC = Word(@ + n)]

\* SetCyclesAndRet and SetCyclesRetP.
Burn(m, n) == [m EXCEPT !.clks = n]

(***************************************************************************)
(* Arithmetic                                                              *)
(***************************************************************************)
\* The bit k in which a, v and the result r disagree is the carry into it.
CarryInto(k, a, v, r) == (Bit(a, k) # Bit(v, k)) # Bit(r, k)

\* OP_Add$c_xHLrToA; carry is 0 for ADD.
Add(m, v, carry) ==
  LET r == m.A + v + carry
  IN  [m EXCEPT !.A = r % 256,
                !.F = Flags(r % 256 = 0, FALSE, CarryInto(4, m.A, v, r), Bit(r, 8))]

\* OP_CmpSub$bc_xHLrToA: the result and the flags; CMP drops the result.
Sub(m, v, carry) ==
  LET r == m.A - v - carry
  IN  [m EXCEPT !.A = r % 256,
                !.F = Flags(r % 256 = 0, TRUE, CarryInto(4, m.A, v, r), Bit(r, 15))]

Cmp(m, v) == [m EXCEPT !.F = Sub(m, v, 0).F]

\* OP_Logic_T.
Logic(m, r, h) == [m EXCEPT !.A = r, !.F = Flags(r = 0, FALSE, h, FALSE)]

\* The eight operations on A, in the order of their opcodes.
Alu(m, y, v) ==
  CASE y = 0 -> Add(m, v, 0)
    [] y = 1 -> Add(m, v, One(CSet(m)))
    [] y = 2 -> Sub(m, v, 0)
    [] y = 3 -> Sub(m, v, One(CSet(m)))
    [] y = 4 -> Logic(m, And(m.A, v), TRUE)
    [] y = 5 -> Logic(m, Xor(m.A, v), FALSE)
    [] y = 6 -> Logic(m, Or(m.A, v), FALSE)
    [] y = 7 -> Cmp(m, v)

\* Inc_ and Dec_ keep C.
Inc(m, y) ==
  LET r == (R(m, y) + 1) % 256
  IN  [SetR(m, y, r) EXCEPT !.F = Flags(r = 0, FALSE, r % 16 = 0, CSet(m))]

Dec(m, y) ==
  LET r == (R(m, y) - 1) % 256
  IN  [SetR(m, y, r) EXCEPT !.F = Flags(r = 0, TRUE, r % 16 = 15, CSet(m))]

\* AddWord_ keeps Z.
AddHL(m, v) ==
  LET r == Pair(m, 2) + v
  IN  [SetPair(m, 2, r) EXCEPT
         !.F = Flags(ZSet(m), FALSE, CarryInto(12, Pair(m, 2), v, r), Bit(r, 16))]

\* AddWord2_ and LD HL, SP+n: the carries are those of the low byte.
AddSP(m, pair) ==
  LET n == Word(Signed(Imm8(m)))
      r == m.SP + n
  IN  [SetPair(Past(m, 1), pair, r) EXCEPT
         !.F = Flags(FALSE, FALSE, CarryInto(4, m.SP, n, r), CarryInto(8, m.SP, n, r))]

\* Mutant of Daa: the low digit is corrected on H alone.
DaaOnHOnly(m) ==
  LET low  == IF HSet(m) THEN m.A + 6 ELSE m.A
      high == IF CSet(m) \/ low > 159 THEN low + 96 ELSE low
      lowN  == IF HSet(m) THEN (m.A - 6) % 256 ELSE m.A
      highN == IF CSet(m) THEN lowN - 96 ELSE lowN
      r    == IF NSet(m) THEN highN ELSE high
  IN  [m EXCEPT !.A = r % 256,
                !.F = Flags(r % 256 = 0, NSet(m), FALSE, CSet(m) \/ Bit(r, 8))]

\* BCD Adjust: DAA after an addition, DAS after a subtraction.
Daa(m) ==
  LET low  == IF HSet(m) \/ m.A % 16 > 9 THEN m.A + 6 ELSE m.A
      high == IF CSet(m) \/ low > 159 THEN low + 96 ELSE low
      lowN  == IF HSet(m) THEN (m.A - 6) % 256 ELSE m.A
      highN == IF CSet(m) THEN lowN - 96 ELSE lowN
      r    == IF NSet(m) THEN highN ELSE high
  IN  [m EXCEPT !.A = r % 256,
                !.F = Flags(r % 256 = 0, NSet(m), FALSE, CSet(m) \/ Bit(r, 8))]

\* The shifts and rotations of the CB table: the result and the new carry.
Shifted(y, v, carry) ==
  CASE y = 0 -> <<(2 * v + One(v > 127)) % 256, v > 127>>              \* RLC_
    [] y = 1 -> <<v \div 2 + 128 * (v % 2), v % 2 = 1>>                \* RRC_
    [] y = 2 -> <<(2 * v + One(carry)) % 256, v > 127>>                \* RL_
    [] y = 3 -> <<v \div 2 + 128 * One(carry), v % 2 = 1>>             \* RR_
    [] y = 4 -> <<(2 * v) % 256, v > 127>>                             \* RL_N_
    [] y = 5 -> <<v \div 2 + 128 * One(v > 127), v % 2 = 1>>           \* RRS_N_
    [] y = 6 -> <<v \div 16 + 16 * (v % 16), FALSE>>                   \* SWAP_
    [] y = 7 -> <<v \div 2, v % 2 = 1>>                                \* RR_N_

(***************************************************************************)
(* Control                                                                 *)
(***************************************************************************)
\* OP_PushWord and OP_PopWord.
PushWord(m, v) ==
  LET sp == Word(m.SP - 2)
  IN  MmuWriteWord([m EXCEPT !.SP = sp], sp, v)

Popped(m) == MmuReadWord(m, m.SP)
PopWord(m) == [m EXCEPT !.SP = Word(@ + 2)]

\* No condition; and NZ, Z, NC, C by the bits of the opcode.
Always == TRUE
Holds(m, cc) ==
  CASE cc = 0 -> ~ZSet(m) [] cc = 1 -> ZSet(m) [] cc = 2 -> ~CSet(m) [] cc = 3 -> CSet(m)

JP(m, taken) ==
  IF taken THEN Burn([m EXCEPT !.PC = Imm16(m)], 16) ELSE Burn(Past(m, 2), 12)

JR(m, taken) ==
  IF taken THEN Burn(Past(m, 1 + Signed(Imm8(m))), 12) ELSE Burn(Past(m, 1), 8)

\* The return address is pushed before the operand is read.
CALL(m, taken) ==
  LET p == PushWord(m, Word(m.PC + 2))
  IN  IF taken THEN Burn([p EXCEPT !.PC = Imm16(p)], 24) ELSE Burn(Past(m, 2), 12)

RET(m, taken, clks) ==
  IF taken THEN Burn([PopWord(m) EXCEPT !.PC = Popped(m)], clks) ELSE Burn(m, 8)

RETI(m) == [RET(m, Always, 16) EXCEPT !.IME = TRUE]

Rst(m, vector) == Burn([PushWord(m, m.PC) EXCEPT !.PC = vector], 16)

KEY1 == \hFF4D

\* OP10: STOP, or the switch of speed that KEY1 asks for.
Stop(m) ==
  LET key1 == MmuRead(m, KEY1)
      skip == Burn(Past(m, 1), 4)
  IN  IF Bit(key1, 0) THEN MmuWrite(skip, KEY1, ((key1 + 128) % 256) - 1)
                      ELSE [skip EXCEPT !.stop = TRUE]

(***************************************************************************)
(* The two tables                                                          *)
(***************************************************************************)
Column(op) == op % 8
Row(op) == (op \div 8) % 8

\* The opcodes that end in int 3.
Undefined == {\hD3, \hDB, \hDD, \hE3, \hE4, \hEB, \hEC, \hED, \hF4, \hFC, \hFD}

\* LD r, r and the loads of the first quarter.
Load(m, op) ==
  LET pair == op \div 16
  IN  CASE op \in \h40 .. \h7F ->
             Burn(SetR(m, Row(op), R(m, Column(op))),
                  IF 6 \in {Row(op), Column(op)} THEN 8 ELSE 4)
        [] op < \h40 /\ Column(op) = 6 ->
             Burn(SetR(Past(m, 1), Row(op), Imm8(m)), IF Row(op) = 6 THEN 12 ELSE 8)
        [] op \in {\h01, \h11, \h21, \h31} -> Burn(SetPair(Past(m, 2), pair, Imm16(m)), 12)
        [] op \in {\h02, \h12} -> Burn(MmuWrite(m, Pair(m, pair), m.A), 8)
        [] op \in {\h22, \h32} ->
             Burn(SetPair(MmuWrite(m, Pair(m, 2), m.A), 2,
                          Pair(m, 2) + (IF op = \h22 THEN 1 ELSE -1)), 8)
        [] op \in {\h0A, \h1A} ->
             Burn([m EXCEPT !.A = MmuRead(m, Pair(m, pair))], 8)
        [] op \in {\h2A, \h3A} ->
             Burn([SetPair(m, 2, Pair(m, 2) + (IF op = \h2A THEN 1 ELSE -1)) EXCEPT
                     !.A = MmuRead(m, Pair(m, 2))], 8)
        [] op = \h08 -> Burn(MmuWriteWord(Past(m, 2), Imm16(m), m.SP), 20)

\* The loads of the last quarter.
LoadHigh(m, op) ==
  CASE op = \hE0 -> Burn(MmuWrite(Past(m, 1), \hFF00 + Imm8(m), m.A), 12)
    [] op = \hE2 -> Burn(MmuWrite(m, \hFF00 + m.C, m.A), 8)
    [] op = \hEA -> Burn(MmuWrite(Past(m, 2), Imm16(m), m.A), 16)
    [] op = \hF0 -> Burn([Past(m, 1) EXCEPT !.A = MmuRead(m, \hFF00 + Imm8(m))], 12)
    [] op = \hF2 -> Burn([m EXCEPT !.A = MmuRead(m, \hFF00 + m.C)], 8)
    [] op = \hFA -> Burn([Past(m, 2) EXCEPT !.A = MmuRead(m, Imm16(m))], 16)
    [] op = \hF8 -> Burn(AddSP(m, 2), 12)
    [] op = \hF9 -> Burn([m EXCEPT !.SP = Pair(m, 2)], 8)

\* ADD .. CP, INC, DEC and the 16-bit forms.  The clocks of INC and DEC are
\* those of the table, which gives L what (HL) should take.
Arithmetic(m, op) ==
  LET pair == op \div 16
      clks == CASE Row(op) = 5 -> 12 [] OTHER -> 4
  IN  CASE op \in \h80 .. \hBF ->
             Burn(Alu(m, Row(op), R(m, Column(op))), IF Column(op) = 6 THEN 8 ELSE 4)
        [] op > \hBF /\ Column(op) = 6 -> Burn(Alu(Past(m, 1), Row(op), Imm8(m)), 8)
        [] op < \h40 /\ Column(op) = 4 -> Burn(Inc(m, Row(op)), clks)
        [] op < \h40 /\ Column(op) = 5 -> Burn(Dec(m, Row(op)), clks)
        [] op \in {\h03, \h13, \h23, \h33} -> Burn(SetPair(m, pair, Pair(m, pair) + 1), 8)
        [] op \in {\h0B, \h1B, \h2B, \h3B} -> Burn(SetPair(m, pair, Pair(m, pair) - 1), 8)
        [] op \in {\h09, \h19, \h29, \h39} -> Burn(AddHL(m, Pair(m, pair)), 8)
        [] op = \hE8 -> Burn(AddSP(m, 3), 16)

\* RLCA, RRCA, RLA, RRA clear Z; DAA, CPL, SCF, CCF.
Accumulator(m, op) ==
  LET s == Shifted(Row(op), m.A, CSet(m))
  IN  Burn(CASE op \in {\h07, \h0F, \h17, \h1F} ->
                  [m EXCEPT !.A = s[1], !.F = Flags(FALSE, FALSE, FALSE, s[2])]
             [] op = \h27 -> Daa(m)
             [] op = \h2F -> [m EXCEPT !.A = 255 - @, !.F = Flags(ZSet(m), TRUE, TRUE, CSet(m))]
             [] op = \h37 -> [m EXCEPT !.F = Flags(ZSet(m), FALSE, FALSE, TRUE)]
             [] op = \h3F -> [m EXCEPT !.F = Flags(ZSet(m), FALSE, FALSE, ~CSet(m))], 4)

\* PUSH and POP; AF takes the place of SP, and POP AF drops four bits.
Stack(m, op) ==
  LET pair == Row(op) \div 2
      af   == pair = 3
  IN  IF Column(op) = 5
      THEN Burn(PushWord(m, IF af THEN m.A * 256 + m.F ELSE Pair(m, pair)), 16)
      ELSE Burn(IF af THEN [PopWord(m) EXCEPT !.A = Popped(m) \div 256,
                                              !.F = 16 * ((Popped(m) % 256) \div 16)]
                      ELSE SetPair(PopWord(m), pair, Popped(m)), 12)

\* The CB table.
BitOps(m, cb) ==
  LET y == Row(cb)
      v == R(m, Column(cb))
      s == Shifted(y, v, CSet(m))
      r == CASE cb < \h40 -> [SetR(m, Column(cb), s[1]) EXCEPT
                                !.F = Flags(s[1] = 0, FALSE, FALSE, s[2])]
             [] cb \in \h40 .. \h7F -> [m EXCEPT
                                !.F = Flags(~Bit(v, y), FALSE, TRUE, CSet(m))]
             [] cb \in \h80 .. \hBF -> SetR(m, Column(cb), IF Bit(v, y) THEN v - 2^y ELSE v)
             [] cb > \hBF -> SetR(m, Column(cb), IF Bit(v, y) THEN v ELSE v + 2^y)
  IN  Burn(r, IF Column(cb) = 6 THEN 16 ELSE 8)

LoadOps == ((\h40 .. \h7F) \ {\h76})
             \cup {op \in \h00 .. \h3F : Column(op) \in {2, 6}}
             \cup {\h01, \h11, \h21, \h31, \h08}
LoadHighOps == {\hE0, \hE2, \hEA, \hF0, \hF2, \hFA, \hF8, \hF9}
ArithmeticOps == (\h80 .. \hBF) \cup {op \in \hC0 .. \hFF : Column(op) = 6}
             \cup {op \in \h00 .. \h3F : Column(op) \in {3, 4, 5}}
             \cup {\h09, \h19, \h29, \h39, \hE8}
AccumulatorOps == {op \in \h00 .. \h3F : Column(op) = 7}
StackOps == {\hC1, \hC5, \hD1, \hD5, \hE1, \hE5, \hF1, \hF5}

Transfer(m, op) ==
  LET cc == Holds(m, Row(op) % 4)
  IN  CASE op = \hC3 -> JP(m, Always)
        [] op \in {\hC2, \hCA, \hD2, \hDA} -> JP(m, cc)
        [] op = \hE9 -> Burn([m EXCEPT !.PC = Pair(m, 2)], 4)
        [] op = \h18 -> JR(m, Always)
        [] op \in {\h20, \h28, \h30, \h38} -> JR(m, cc)
        [] op = \hCD -> CALL(m, Always)
        [] op \in {\hC4, \hCC, \hD4, \hDC} -> CALL(m, cc)
        [] op = \hC9 -> RET(m, Always, 16)
        [] op \in {\hC0, \hC8, \hD0, \hD8} -> RET(m, cc, 20)
        [] op = \hD9 -> RETI(m)
        [] op > \hBF /\ Column(op) = 7 -> Rst(m, 8 * Row(op))

\* OPTAB.
Execute(m, op) ==
  CASE op = \h00 -> Burn(m, 4)
    [] op = \h10 -> Stop(m)
    [] op = \h76 -> Burn([m EXCEPT !.halt = TRUE], 4)
    [] op = \hF3 -> Burn([m EXCEPT !.IME = FALSE], 4)
    [] op = \hFB -> Burn([m EXCEPT !.IME = TRUE], 4)
    [] op = \hCB -> BitOps(Past(m, 1), Imm8(m))
    [] op \in LoadOps -> Load(m, op)
    [] op \in LoadHighOps -> LoadHigh(m, op)
    [] op \in ArithmeticOps -> Arithmetic(m, op)
    [] op \in AccumulatorOps -> Accumulator(m, op)
    [] op \in StackOps -> Stack(m, op)
    [] op \in Undefined -> [m EXCEPT !.trap = TRUE]
    [] OTHER -> Transfer(m, op)

(***************************************************************************)
(* Decimal arithmetic, for the history                                     *)
(***************************************************************************)
NotDecimal == <<>>
Decimal(v) == v % 16 < 10 /\ v < 160
FromBcd(v) == 10 * (v \div 16) + (v % 16)
ToBcd(n) == 16 * (n \div 10) + (n % 10)

\* ADD, ADC, SUB and SBC of two decimal bytes.
DecimalResult(m, op) ==
  LET v     == IF op < \hC0 THEN R(m, Column(op)) ELSE Imm8(m)
      carry == One(Row(op) \in {1, 3} /\ CSet(m))
      sum   == IF Row(op) < 2 THEN FromBcd(m.A) + FromBcd(v) + carry
                              ELSE FromBcd(m.A) - FromBcd(v) - carry
  IN  IF op \in \h80 .. \h9F \cup {\hC6, \hCE, \hD6, \hDE} /\ Decimal(m.A) /\ Decimal(v)
      THEN <<sum % 100, sum \notin 0 .. 99>>
      ELSE NotDecimal

(***************************************************************************)
(* The machine                                                             *)
(***************************************************************************)
\* cpu_init clears the structure, and cpu_reset sets AF, BC, HL, SP and PC.
Reset ==
  [A |-> 1, F |-> \hB0, B |-> 0, C |-> \h13, D |-> 0, E |-> 0, H |-> 1, L |-> \h4D,
   SP |-> StackTop, PC |-> Entry, IME |-> FALSE, halt |-> FALSE, stop |-> FALSE,
   backup |-> FALSE, trap |-> FALSE, ram |-> <<>>, clks |-> 0]

CpuInit == cpu = Reset /\ ops = 0 /\ dec = NotDecimal

Opcode == MmuRead(cpu, cpu.PC)
Fetched == [cpu EXCEPT !.PC = Word(@ + 1 - One(cpu.backup)), !.backup = FALSE]

\* One call of cpu_optick.
Optick ==
  /\ ops < MaxOps
  /\ ~cpu.halt /\ ~cpu.stop /\ ~cpu.trap
  /\ cpu' = Execute(Fetched, Opcode)
  /\ dec' = DecimalResult(Fetched, Opcode)
  /\ ops' = ops + 1
  /\ UNCHANGED rom

\* A request ends HALT while IME is off: the next byte is read twice.
Wake ==
  /\ ops < MaxOps
  /\ cpu.halt /\ ~cpu.IME
  /\ cpu' = [cpu EXCEPT !.halt = FALSE, !.backup = TRUE]
  /\ dec' = NotDecimal
  /\ UNCHANGED <<rom, ops>>

-----------------------------------------------------------------------------
(* A DAA after an addition or a subtraction of two decimal bytes leaves    *)
(* the decimal result in A, and the decimal carry or borrow in C: the      *)
(* flags H, N and C of the arithmetic are what DAA needs, for every carry  *)
(* in.                                                                     *)
DecimalExact ==
  [][Opcode = \h27 /\ dec # NotDecimal /\ Optick
       => /\ cpu'.A = ToBcd(dec[1])
          /\ CSet(cpu') = dec[2]
          /\ ZSet(cpu') = (dec[1] = 0)]_<<rom, cpuVars>>
=============================================================================
