---------------------------- MODULE MCRv32Cpu ----------------------------
(* A four-bit machine: one-bit bytes, memory at 4..11, one host function at 0, the sentinel at 12. *)
EXTENDS Rv32Cpu, FiniteSets

I(op, rd, rs1, rs2, imm) ==
    [op |-> op, rd |-> rd, rs1 |-> rs1, rs2 |-> rs2, imm |-> imm,
     csr |-> "none", high |-> FALSE, writes |-> FALSE]
Csr(rd, csr, high, writes) ==
    [I("CSRR", rd, 0, 0, 0) EXCEPT !.csr = csr, !.high = high, !.writes = writes]

MCProgram ==
    { I("LR.W", 0, 10, 0, 0), I("SC.W", 10, 10, 1, 0), I("SC.W", 10, 2, 1, 0),
      I("AMOADD", 0, 10, 1, 0), I("SB", 0, 10, 1, 0), I("SH", 0, 2, 1, 2), I("LH", 10, 10, 0, 5),
      I("LW", 1, 10, 0, 0), I("ADDI", 2, 2, 0, 4), I("JALR", 1, 0, 0, 0), I("DIV", 10, 10, 1, 0),
      I("ECALL", 0, 0, 0, 0), Csr(10, "cycle", FALSE, FALSE), Csr(0, "time", TRUE, TRUE),
      I("C_SW", 0, 10, 10, 0), I("C_LW", 10, 10, 0, 4), I("C_JALR", 0, 1, 0, 0),
      I("C_JALR", 0, 10, 0, 0), I("C_SLLI", 10, 0, 0, 5), I("C_SRAI", 10, 0, 0, 1),
      I("C_SUB", 10, 0, 1, 0), I("C_BNEZ", 0, 10, 0, 4), I("C_SWSP", 0, 0, 10, 0),
      I("C_ADDI4SPN", 10, 0, 0, 4), I("C_JR", 0, 1, 0, 0), I("C_MV", 0, 0, 10, 0) }
MCHostStores == {[addr |-> 4, n |-> 1, v |-> 0]}
============================================================================
