--------------------------- MODULE MCDisassembler ---------------------------
(***************************************************************************)
(* Cartridges of two banks with the same five bytes: every bank made of a  *)
(* few bytes that are branches, conditional or not, and short targets      *)
(* forwards and backwards; every opcode, alone, behind the prefix and      *)
(* behind HALT; programs that load A, add or subtract a decimal byte and   *)
(* adjust.                                                                 *)
(***************************************************************************)
EXTENDS Disassembler

\* As opcodes NOP, LD (BC) A, JR, JR NZ, JP NZ, CALL and CP; as operands also
\* the distances +2 and -2.
BranchBytes == {\h00, \h02, \h18, \h20, \hC2, \hCD, \hFE}
DecimalOps == {\hC6, \hCE, \hD6, \hDE}
DecimalBytes == {v \in Byte : Decimal(v)}
Operands == {\h00, \h01, \h05, \h09, \h10, \h45, \h50, \h90, \h95, \h99}

Banks == [1 .. BankSize -> BranchBytes]
         \cup {<<op, 2, 0, 0, 0>> : op \in Byte}
         \cup {<<first, op, 2, 0, 0>> : first \in {\hCB, \h76}, op \in Byte}
         \cup {<<\h3E, a, op, b, \h27>> :
                 a \in DecimalBytes, op \in DecimalOps, b \in Operands}

MCRomImages ==
  {[a \in 0 .. promsize * BankSize - 1 |-> b[(a % BankSize) + 1]] : b \in Banks}
=============================================================================
