------------------------------- MODULE Decode -------------------------------
(***************************************************************************)
(* The decode table (uarchsim/decode.cc): what the payload buffer records  *)
(* of an instruction.  An encoding is reduced to what the table's switches *)
(* tell apart: the opcode (those with equal rows have one name), the minor *)
(* fields f3 and f5 (funct3; funct5, funct7 or funct12), and whether rd is *)
(* x0.  An opcode that the table does not know is left out: its row leaves *)
(* flags and fu as the last instruction in the payload entry had them, and *)
(* it is fetched on wrong paths only.                                      *)
(***************************************************************************)
EXTENDS Integers

CONSTANT SPLIT_STORES

ASSUME DecodeAssumption == SPLIT_STORES \in BOOLEAN

(* OP, OP_IMM, LUI and MADD stand for their 32-bit, AUIPC and fused kin.   *)
Minor(op) ==
  CASE op = "OP"     -> [f3 : {""}, f5 : {"", "MULDIV"}]
    [] op = "OP_IMM" -> [f3 : {""}, f5 : {"", "NOP"}]
    [] op = "OP_FP"  -> [f3 : {""}, f5 : {"arithmetic", "compare", "sqrt", "from_int", "to_int"}]
    [] op = "SYSTEM" -> [f3 : {"CSR", "CSR_IMM", "SC_SB", "other"},
                         f5 : {"SRET", "SCALL", "SBREAK", "other"}]
    [] op = "AMO"    -> [f3 : {"AMO_W", "AMO_D", "other"}, f5 : {"LR", "SC", "RMW", "other"}]
    [] OTHER         -> [f3 : {""}, f5 : {""}]

Opcodes == {"JAL", "JALR", "BRANCH", "LOAD", "STORE", "OP", "OP_IMM", "LUI", "LOAD_FP",
            "STORE_FP", "OP_FP", "MADD", "SYSTEM", "MISC_MEM", "AMO"}

Encoding(op, f3, f5, rd0) == [op |-> op, f3 |-> f3, f5 |-> f5, rd0 |-> rd0]
Encodings ==
  UNION {{Encoding(op, m.f3, m.f5, rd0) : m \in Minor(op), rd0 \in BOOLEAN} : op \in Opcodes}

Branches == {"JAL", "JALR", "BRANCH"}
checkpoint(i) == i.op \in Branches

(* The flags and the function unit.                                        *)
MemoryFlags(i) ==
  CASE i.f5 = "LR" -> {"F_MEM", "F_LOAD", "F_DISP"}
    [] i.f5 = "SC" -> {"F_MEM", "F_STORE", "F_DISP"}
    [] OTHER       -> {}
AMOFlagsMemory(i) == MemoryFlags(i)   \* a mutant: an AMO is no more than its access
AMOFlags(i) == MemoryFlags(i) \cup {"F_AMO"}
flags(i) ==
  CASE i.op \in {"JAL", "JALR"}  -> {"F_CTRL", "F_UNCOND"}
    [] i.op = "BRANCH"           -> {"F_CTRL", "F_COND"}
    [] i.op = "LOAD"             -> {"F_MEM", "F_LOAD", "F_DISP"}
    [] i.op = "STORE"            -> {"F_MEM", "F_STORE", "F_DISP"}
    [] i.op = "LOAD_FP"          -> {"F_MEM", "F_FMEM", "F_LOAD", "F_DISP"}
    [] i.op = "STORE_FP"         -> {"F_MEM", "F_FMEM", "F_STORE", "F_DISP"}
    [] i.op \in {"OP_FP", "MADD"} -> {"F_FCOMP"}
    [] i.op = "SYSTEM"           -> {"F_TRAP", "F_CSR"}
    [] i.op = "MISC_MEM"         -> {"F_TRAP"}
    [] i.op = "AMO"              -> AMOFlags(i)
    [] i.op \in {"OP", "OP_IMM", "LUI"} ->
         IF i.f5 = "MULDIV" THEN {"F_ICOMP", "F_LONGLAT"} ELSE {"F_ICOMP"}

fu(i) ==
  LET f == flags(i)
  IN  CASE "F_CTRL" \in f    -> "FU_BR"
        [] "F_FMEM" \in f    -> "FU_LS_FP"
        [] "F_MEM" \in f /\ "F_FMEM" \notin f -> "FU_LS"
        [] "F_FCOMP" \in f   -> "FU_ALU_FP"
        [] "F_LONGLAT" \in f -> "FU_ALU_C"
        [] OTHER             -> "FU_ALU_S"

(* The register operands: "" none, "x" an integer, "f" a floating-point    *)
(* register; A is rs1, B rs2, D rs3 and C rd.  Of a split store the upper  *)
(* half has the address as its A, and the lower half the value as its A.   *)
split(i) == SPLIT_STORES /\ i.op \in {"STORE", "STORE_FP"}

Implemented(i) == i.f3 \in {"AMO_W", "AMO_D"} /\ i.f5 # "other"

A(i) ==
  CASE i.op \in {"JALR", "BRANCH", "LOAD", "LOAD_FP", "STORE", "STORE_FP", "OP", "OP_IMM"} -> "x"
    [] i.op = "OP_FP"  -> IF i.f5 = "from_int" THEN "x" ELSE "f"
    [] i.op = "MADD"   -> "f"
    [] i.op = "SYSTEM" -> IF i.f3 = "CSR" THEN "x" ELSE ""
    [] i.op = "AMO"    -> IF Implemented(i) THEN "x" ELSE ""
    [] OTHER           -> ""

B(i) ==
  CASE i.op \in {"BRANCH", "OP"} -> "x"
    [] i.op = "STORE"    -> IF split(i) THEN "" ELSE "x"
    [] i.op = "STORE_FP" -> IF split(i) THEN "" ELSE "f"
    [] i.op = "OP_FP"    -> IF i.f5 \in {"arithmetic", "compare"} THEN "f" ELSE ""
    [] i.op = "MADD"     -> "f"
    [] i.op = "AMO"      -> IF Implemented(i) /\ i.f5 # "LR" THEN "x" ELSE ""
    [] OTHER             -> ""

D(i) == IF i.op = "MADD" THEN "f" ELSE ""

LowerA(i) == IF i.op = "STORE_FP" THEN "f" ELSE "x"

(* x0 is never a destination; f0 is one.                                   *)
Destination(i) ==
  CASE i.op \in {"JAL", "JALR", "LOAD", "OP", "LUI"} -> "x"
    [] i.op = "OP_IMM"  -> IF i.f5 = "NOP" THEN "" ELSE "x"
    [] i.op = "LOAD_FP" -> "f"
    [] i.op = "OP_FP"   -> IF i.f5 \in {"compare", "to_int"} THEN "x" ELSE "f"
    [] i.op = "MADD"    -> "f"
    [] i.op = "SYSTEM"  -> IF i.f3 \in {"CSR", "CSR_IMM"} THEN "x" ELSE ""
    [] i.op = "AMO"     -> IF Implemented(i) THEN "x" ELSE ""
    [] OTHER            -> ""
C(i) == IF Destination(i) = "x" /\ i.rd0 THEN "" ELSE Destination(i)

(* A trap that is posted, and what skips the issue queue.                  *)
trap(i) ==
  \/ i.op = "SYSTEM" /\ (i.f3 = "other" \/ (i.f3 = "SC_SB" /\ i.f5 # "SRET"))
  \/ i.op = "AMO" /\ ~Implemented(i)

iq(i) ==
  IF trap(i) \/ i.op = "MISC_MEM" \/ (i.op = "OP_IMM" /\ i.f5 = "NOP")
  THEN "SEL_IQ_NONE" ELSE "SEL_IQ"

(* The destination's value may be predicted (rename.cc).                   *)
eligible(i) ==
  C(i) # "" /\ (fu(i) \in {"FU_ALU_S", "FU_ALU_C", "FU_ALU_FP"} \/ "F_LOAD" \in flags(i))

(* Fetch2 stops behind these (fetchunit.cc).                               *)
Serializing(i) == i.op \in {"AMO", "SYSTEM"}

-----------------------------------------------------------------------------
(* The other stages take the table at its word.  Fetch2 stops at exactly   *)
(* the instructions that make retirement resume it; a trap posted here is  *)
(* seen, as dispatch looks for one only outside the issue queue; the       *)
(* assertions of execute_amo and execute_csr hold, which handle no other   *)
(* encodings; and every operand whose value agen, the store port and they  *)
(* use is one that Register Read reads.                                    *)
TableAgrees ==
  \A i \in Encodings :
    LET f == flags(i)
        atHead == ~trap(i) /\ f \cap {"F_LOAD", "F_STORE"} = {}
    IN  /\ Serializing(i) <=> f \cap {"F_AMO", "F_CSR"} # {}
        /\ trap(i) => iq(i) = "SEL_IQ_NONE"
        /\ "F_AMO" \in f /\ atHead =>
             i.f3 \in {"AMO_W", "AMO_D"} /\ i.f5 = "RMW" /\ A(i) = "x" /\ B(i) = "x"
        /\ "F_CSR" \in f /\ atHead =>
             i.f3 \in {"CSR", "CSR_IMM"} \/ (i.f3 = "SC_SB" /\ i.f5 = "SRET")
        /\ "F_CSR" \in f /\ i.f3 = "CSR" => A(i) = "x"
        /\ "F_MEM" \in f /\ iq(i) = "SEL_IQ" => A(i) = "x"
        /\ "F_STORE" \in f /\ iq(i) = "SEL_IQ" =>
             (IF split(i) THEN LowerA(i) ELSE B(i)) = IF "F_FMEM" \in f THEN "f" ELSE "x"

=============================================================================
