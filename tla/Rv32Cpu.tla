------------------------------ MODULE Rv32Cpu ------------------------------
(***************************************************************************)
(* The guest processor of Rv32Cpu.cpp: the memory bounds checks, the       *)
(* 32-bit and the compressed instructions, LR/SC, the interception of      *)
(* host calls, the counters the guest reads and the ring of recent         *)
(* instruction addresses.                                                  *)
(*                                                                         *)
(* An instruction is a decoded record (operation, registers, immediate):   *)
(* the bit layout of the encodings is left out.  The guest's program is    *)
(* any program over Program, so each step fetches any of its instructions. *)
(***************************************************************************)
EXTENDS Integers, Sequences

CONSTANTS
    ByteSize,    \* number of values of a byte (256); a word is four bytes
    Xlen,        \* bits of a word (32)
    Reg,         \* register numbers (0..31)
    Base,        \* base_: guest address of memory offset 0
    MemSize,     \* mem_->size()
    StackAlign,  \* alignment of the initial stack pointer (16)
    HostBase,    \* hostBase_: first synthetic host address
    HostCount,   \* hostCount_: number of host functions
    TraceSize,   \* instructionTrace_.size() (64)
    NoAddr,      \* no reservation
    Program,     \* the decoded instructions a guest program may hold
    Entries,     \* entry points the runtime calls
    Args,        \* values of a0 the runtime passes
    HostStores,  \* stores a host function makes: [addr, n, v]
    AbiCycles,   \* cycles a host call is charged (esp32C6AbiCycles)
    Budget,      \* instruction budget of one call
    MaxRetired   \* bound: instructions after which the runtime calls no more

\* Units[k]: weight of byte k of a word; Pow2[k]: weight of bit k.
Units == [k \in 0 .. 3 |-> <<1, ByteSize, ByteSize * ByteSize, ByteSize * ByteSize * ByteSize>>[k + 1]]
Pow2[k \in 0 .. Xlen] == IF k = 0 THEN 1 ELSE 2 * Pow2[k - 1]
WordSize == ByteSize * ByteSize * ByteSize * ByteSize
Word == 0 .. WordSize - 1
Byte == 0 .. ByteSize - 1

ASSUME CpuAssumption ==
    /\ ByteSize \in Nat /\ ByteSize > 1
    /\ Xlen \in Nat \ {0} /\ WordSize = Pow2[Xlen]
    /\ Reg \subseteq 0 .. 31 /\ {0, 1, 2, 10} \subseteq Reg
    /\ Base \in Word \ {0} /\ MemSize \in Nat \ {0}
    /\ StackAlign \in Nat \ {0}
    /\ HostBase \in Word /\ HostCount \in Nat
    /\ TraceSize \in Nat \ {0}
    /\ NoAddr \notin Word
    /\ Entries \subseteq Word /\ Args \subseteq Word
    /\ \A s \in HostStores : s.addr \in Word /\ s.n \in {1, 2, 4} /\ s.v \in Word
    /\ \A i \in Program : /\ {i.rd, i.rs1, i.rs2} \subseteq Reg /\ i.imm \in Int
                          /\ i.op \in {"C_SLLI", "C_SRLI", "C_SRAI"} => i.imm \in Nat
    /\ AbiCycles \in Nat /\ Budget \in Nat \ {0} /\ MaxRetired \in Nat

\* ReturnSentinel: the last aligned address, 0xfffffffc.
ReturnSentinel == WordSize - 4

VARIABLES
    m,         \* x_, pc_, *mem_, reservation_ (NoAddr without hasReservation_)
    count,     \* retired_ and clock_.cycles()
    mode,      \* performanceMode_: "accurate" or "optimal"
    ring,      \* instructionTrace_ with its next slot and count
    budget,    \* steps the current call may still take
    outcome,   \* how the last call stands: none, running, returned, trapped, exhausted
    lr,        \* history: address of the last LR.W with no store since
    recent,    \* history: the last TraceSize addresses stepped at
    last       \* history: operation, address and rd of the last step

vars == <<m, count, mode, ring, budget, outcome, lr, recent, last>>

----------------------------------------------------------------------------
(* Words *)

W(n) == n % WordSize
Signed(v) == IF 2 * v >= WordSize THEN v - WordSize ELSE v
Sext(v, size) == W(IF 2 * v >= size THEN v - size ELSE v)
Truth(b) == IF b THEN 1 ELSE 0
Abs(n) == IF n < 0 THEN -n ELSE n

\* Bitwise operations, bit by bit from the lowest.
Bit(v, k) == (v \div Pow2[k]) % 2
FromBits(bits) ==
    LET f[k \in 0 .. Xlen] == IF k = 0 THEN 0 ELSE f[k - 1] + bits[k - 1] * Pow2[k - 1]
    IN  f[Xlen]
And(a, b) == FromBits([k \in 0 .. Xlen - 1 |-> IF Bit(a, k) = 1 /\ Bit(b, k) = 1 THEN 1 ELSE 0])
Or(a, b) == FromBits([k \in 0 .. Xlen - 1 |-> IF Bit(a, k) = 1 \/ Bit(b, k) = 1 THEN 1 ELSE 0])
Xor(a, b) == FromBits([k \in 0 .. Xlen - 1 |-> IF Bit(a, k) # Bit(b, k) THEN 1 ELSE 0])

Sll(a, n) == W(a * Pow2[n])
Srl(a, n) == a \div Pow2[n]
Sra(a, n) == W(Signed(a) \div Pow2[n])

----------------------------------------------------------------------------
(* Memory *)

Mapped(a) == a >= Base /\ a - Base < MemSize
ByteAt(mem, a) == IF Mapped(a) THEN mem[a - Base] ELSE 0
Half(mem, a) == ByteAt(mem, a) + ByteSize * ByteAt(mem, W(a + 1))
Load(mem, a, n) ==
    IF n = 1 THEN ByteAt(mem, a)
    ELSE IF n = 2 THEN Half(mem, a)
    ELSE Half(mem, a) + ByteSize * ByteSize * Half(mem, W(a + 2))
LoadOk(a, n) == \A k \in 0 .. n - 1 : Mapped(W(a + k))

StoreOk(a, n) == a >= Base /\ a - Base + n <= MemSize
Written(mem, a, n, v) ==
    [o \in DOMAIN mem |->
        IF o \in a - Base .. a - Base + n - 1
        THEN (v \div Units[o - (a - Base)]) % ByteSize ELSE mem[o]]
\* Mutant: a byte store leaves the reservation alone.
StoreByteKeepsReservation(s, a, n, v) ==
    IF StoreOk(a, n) THEN [s EXCEPT !.mem = Written(@, a, n, v),
                                    !.resv = IF n = 1 THEN @ ELSE NoAddr]
    ELSE s

\* store8, store16, store32: a store that fits clears any reservation.
Store(s, a, n, v) ==
    IF StoreOk(a, n) THEN [s EXCEPT !.mem = Written(@, a, n, v), !.resv = NoAddr] ELSE s

----------------------------------------------------------------------------
(* Instructions: what one does to the machine s, with the sequential pc   *)
(* next and the counters c.  A result carries the machine, whether the    *)
(* step trapped and the timing class it is charged by.                    *)

Set(s, r, v) == IF r = 0 THEN s ELSE [s EXCEPT !.x[r] = v]
Done(s, pc, class) == [m |-> [s EXCEPT !.pc = pc, !.x[0] = 0], trap |-> FALSE, class |-> class]
Trap(s) == [m |-> s, trap |-> TRUE, class |-> "None"]

\* esp32C6InstructionCycles
InstructionCycles ==
    [Alu |-> 1, Shift |-> 2, BranchNotTaken |-> 1, BranchTaken |-> 3, Jump |-> 3, Load |-> 3,
     Store |-> 2, Multiply |-> 4, Divide |-> 16, Atomic |-> 8, Csr |-> 2, Fence |-> 1]

Alu(op, a, b) ==
    CASE op = "ADD" -> W(a + b)
      [] op = "SUB" -> W(a - b)
      [] op = "XOR" -> Xor(a, b)
      [] op = "OR" -> Or(a, b)
      [] op = "AND" -> And(a, b)
      [] op = "SLT" -> Truth(Signed(a) < Signed(b))
      [] op = "SLTU" -> Truth(a < b)
      [] op = "SLL" -> Sll(a, b % Xlen)
      [] op = "SRL" -> Srl(a, b % Xlen)
      [] op = "SRA" -> Sra(a, b % Xlen)
AluOps == {"ADD", "SUB", "XOR", "OR", "AND", "SLT", "SLTU", "SLL", "SRL", "SRA"}
AluClass(op) == IF op \in {"SLL", "SRL", "SRA"} THEN "Shift" ELSE "Alu"
ImmOp == [ADDI |-> "ADD", SLTI |-> "SLT", SLTIU |-> "SLTU", XORI |-> "XOR", ORI |-> "OR",
          ANDI |-> "AND", SLLI |-> "SLL", SRLI |-> "SRL", SRAI |-> "SRA"]

\* Mutant: the quotient is rounded down.
QuotientFloored(a, b) == IF b > 0 THEN a \div b ELSE (-a) \div (-b)

\* C++ division truncates; zero divisors and the one overflow are answered first.
Quotient(a, b) == IF (a < 0) = (b < 0) THEN Abs(a) \div Abs(b) ELSE -(Abs(a) \div Abs(b))
SignedDivide(a, b) ==
    IF b = 0 THEN [q |-> -1, r |-> a]
    ELSE IF a = -(WordSize \div 2) /\ b = -1 THEN [q |-> a, r |-> 0]
    ELSE [q |-> Quotient(a, b), r |-> a - b * Quotient(a, b)]
MulDiv(a, b) ==
    LET sa == Signed(a)
        sb == Signed(b)
        d == SignedDivide(sa, sb)
    IN [MUL |-> W(a * b), MULH |-> W((sa * sb) \div WordSize),
        MULHSU |-> W((sa * b) \div WordSize), MULHU |-> (a * b) \div WordSize,
        DIV |-> W(d.q), REM |-> W(d.r),
        DIVU |-> IF b = 0 THEN WordSize - 1 ELSE a \div b, REMU |-> IF b = 0 THEN a ELSE a % b]
MulOps == {"MUL", "MULH", "MULHSU", "MULHU"}
DivOps == {"DIV", "DIVU", "REM", "REMU"}

Branch(a, b) ==
    [BEQ |-> a = b, BNE |-> a # b, BLT |-> Signed(a) < Signed(b), BGE |-> Signed(a) >= Signed(b),
     BLTU |-> a < b, BGEU |-> a >= b]
BranchOps == {"BEQ", "BNE", "BLT", "BGE", "BLTU", "BGEU"}
ExecBranch(s, i, next) ==
    IF Branch(s.x[i.rs1], s.x[i.rs2])[i.op]
    THEN Done(s, W(s.pc + i.imm), "BranchTaken") ELSE Done(s, next, "BranchNotTaken")

LoadSize == [LB |-> 1, LBU |-> 1, LH |-> 2, LHU |-> 2, LW |-> 4]

\* Mutant: a load writes its register before it finds that it traps.
ExecLoadClobbers(s, i, next) ==
    LET a == W(s.x[i.rs1] + i.imm)
        n == LoadSize[i.op]
        t == Set(s, i.rd, Load(s.mem, a, n))
    IN  IF LoadOk(a, n) THEN Done(t, next, "Load") ELSE Trap(t)

ExecLoad(s, i, next) ==
    LET a == W(s.x[i.rs1] + i.imm)
        n == LoadSize[i.op]
        v == Load(s.mem, a, n)
    IN  IF ~LoadOk(a, n) THEN Trap(s)
        ELSE Done(Set(s, i.rd, IF i.op \in {"LB", "LH"} THEN Sext(v, Units[n]) ELSE v),
                  next, "Load")

StoreSize == [SB |-> 1, SH |-> 2, SW |-> 4]
ExecStore(s, i, next) ==
    LET a == W(s.x[i.rs1] + i.imm)
        n == StoreSize[i.op]
    IN  IF StoreOk(a, n) THEN Done(Store(s, a, n, s.x[i.rs2]), next, "Store") ELSE Trap(s)

\* The value an AMO leaves in memory.
Amo(op, old, b) ==
    CASE op = "AMOSWAP" -> b
      [] op = "AMOADD" -> W(old + b)
      [] op = "AMOXOR" -> Xor(old, b)
      [] op = "AMOAND" -> And(old, b)
      [] op = "AMOOR" -> Or(old, b)
      [] op = "AMOMIN" -> IF Signed(old) < Signed(b) THEN old ELSE b
      [] op = "AMOMAX" -> IF Signed(old) > Signed(b) THEN old ELSE b
      [] op = "AMOMINU" -> IF old < b THEN old ELSE b
      [] op = "AMOMAXU" -> IF old > b THEN old ELSE b
AmoOps == {"AMOSWAP", "AMOADD", "AMOXOR", "AMOAND", "AMOOR",
           "AMOMIN", "AMOMAX", "AMOMINU", "AMOMAXU"}

\* LR.W reserves its address; SC.W stores only while it is reserved and ends the reservation.
LoadReserved(s, rd, a) == Set([s EXCEPT !.resv = a], rd, Load(s.mem, a, 4))
\* Mutant: any reservation lets SC.W store.
StoreConditionalAnyAddress(s, rd, a, v) ==
    LET stored == IF s.resv # NoAddr THEN Set(Store(s, a, 4, v), rd, 0) ELSE Set(s, rd, 1)
    IN  [stored EXCEPT !.resv = NoAddr]

Holds(s, a) == s.resv # NoAddr /\ s.resv = a
StoreConditional(s, rd, a, v) ==
    LET stored == IF Holds(s, a) THEN Set(Store(s, a, 4, v), rd, 0) ELSE Set(s, rd, 1)
    IN  [stored EXCEPT !.resv = NoAddr]
ExecAtomic(s, i, next) ==
    LET a == s.x[i.rs1]
        b == s.x[i.rs2]
        old == Load(s.mem, a, 4)
        t == IF i.op = "LR.W" THEN LoadReserved(s, i.rd, a)
             ELSE IF i.op = "SC.W" THEN StoreConditional(s, i.rd, a, b)
             ELSE Set(Store(s, a, 4, Amo(i.op, old, b)), i.rd, old)
        stores == i.op \in AmoOps \/ (i.op = "SC.W" /\ Holds(s, a))
    IN  IF ~LoadOk(a, 4) THEN Trap(s)
        ELSE IF stores /\ ~StoreOk(a, 4) THEN Trap(t)
        ELSE Done(t, next, "Atomic")

\* The counters: cycles and nanoseconds are virtual in accurate mode only.
Nanoseconds(cycles) == (cycles * 25) \div 4
Counter(c, csr) ==
    IF mode = "accurate" /\ csr = "cycle" THEN c.cycles
    ELSE IF mode = "accurate" /\ csr = "time" THEN Nanoseconds(c.cycles)
    ELSE c.retired
ExecSystem(s, i, next, c) ==
    LET v == IF i.high THEN W(Counter(c, i.csr) \div WordSize) ELSE W(Counter(c, i.csr))
    IN  IF i.op = "ECALL" THEN Done(s, ReturnSentinel, "Csr")
        ELSE IF i.op = "EBREAK" \/ i.csr = "other" \/ i.writes THEN Trap(s)
        ELSE Done(Set(s, i.rd, v), next, "Csr")

Exec32(s, i, next, c) ==
    LET a == s.x[i.rs1]
    IN  CASE i.op = "LUI" -> Done(Set(s, i.rd, W(i.imm)), next, "Alu")
          [] i.op = "AUIPC" -> Done(Set(s, i.rd, W(s.pc + i.imm)), next, "Alu")
          [] i.op = "JAL" -> Done(Set(s, i.rd, next), W(s.pc + i.imm), "Jump")
          [] i.op = "JALR" -> Done(Set(s, i.rd, next), (W(a + i.imm) \div 2) * 2, "Jump")
          [] i.op \in BranchOps -> ExecBranch(s, i, next)
          [] i.op \in DOMAIN LoadSize -> ExecLoad(s, i, next)
          [] i.op \in DOMAIN StoreSize -> ExecStore(s, i, next)
          [] i.op \in DOMAIN ImmOp ->
               Done(Set(s, i.rd, Alu(ImmOp[i.op], a, W(i.imm))), next, AluClass(ImmOp[i.op]))
          [] i.op \in AluOps ->
               Done(Set(s, i.rd, Alu(i.op, a, s.x[i.rs2])), next, AluClass(i.op))
          [] i.op \in MulOps -> Done(Set(s, i.rd, MulDiv(a, s.x[i.rs2])[i.op]), next, "Multiply")
          [] i.op \in DivOps -> Done(Set(s, i.rd, MulDiv(a, s.x[i.rs2])[i.op]), next, "Divide")
          [] i.op \in {"LR.W", "SC.W"} \cup AmoOps -> ExecAtomic(s, i, next)
          [] i.op = "FENCE" -> Done(s, next, "Fence")
          [] i.op \in {"ECALL", "EBREAK", "CSRR"} -> ExecSystem(s, i, next, c)
          [] OTHER -> Trap(s)

\* exec16.  A shift by Xlen or more is undefined in C++: u is whatever the build makes of it.
Shift(shifted, sh, u) == IF sh < Xlen THEN shifted ELSE u
CLoad(s, rd, a, next) ==
    LET t == Set(s, rd, Load(s.mem, a, 4))
    IN  IF LoadOk(a, 4) THEN Done(t, next, "Load") ELSE Trap(t)
\* Mutant: a compressed store writes the low half only.
CStoreHalf(s, a, v, next) ==
    IF StoreOk(a, 4) THEN Done(Store(s, a, 2, v), next, "Store") ELSE Trap(s)

CStore(s, a, v, next) ==
    IF StoreOk(a, 4) THEN Done(Store(s, a, 4, v), next, "Store") ELSE Trap(s)
Exec16Q0(s, i, next) ==
    CASE i.op = "C_ADDI4SPN" ->
           IF i.imm = 0 THEN Trap(s) ELSE Done(Set(s, i.rd, W(s.x[2] + i.imm)), next, "Alu")
      [] i.op = "C_LW" -> CLoad(s, i.rd, W(s.x[i.rs1] + i.imm), next)
      [] i.op = "C_SW" -> CStore(s, W(s.x[i.rs1] + i.imm), s.x[i.rs2], next)
CAluOps == [C_SUB |-> "SUB", C_XOR |-> "XOR", C_OR |-> "OR", C_AND |-> "AND"]
CBranch(s, i, next, taken) ==
    IF taken THEN Done(s, W(s.pc + i.imm), "BranchTaken") ELSE Done(s, next, "BranchNotTaken")
Exec16Q1(s, i, next, u) ==
    LET d == s.x[i.rd]
    IN  CASE i.op = "C_ADDI" -> Done(Set(s, i.rd, W(d + i.imm)), next, "Alu")
          [] i.op = "C_JAL" -> Done(Set(s, 1, next), W(s.pc + i.imm), "Jump")
          [] i.op = "C_J" -> Done(s, W(s.pc + i.imm), "Jump")
          [] i.op \in {"C_LI", "C_LUI"} -> Done(Set(s, i.rd, W(i.imm)), next, "Alu")
          [] i.op = "C_ADDI16SP" -> Done(Set(s, 2, W(s.x[2] + i.imm)), next, "Alu")
          [] i.op = "C_SRLI" -> Done(Set(s, i.rd, Shift(Srl(d, i.imm), i.imm, u)), next, "Shift")
          [] i.op = "C_SRAI" -> Done(Set(s, i.rd, Shift(Sra(d, i.imm), i.imm, u)), next, "Shift")
          [] i.op = "C_ANDI" -> Done(Set(s, i.rd, And(d, W(i.imm))), next, "Alu")
          [] i.op \in DOMAIN CAluOps ->
               Done(Set(s, i.rd, Alu(CAluOps[i.op], d, s.x[i.rs2])), next, "Alu")
          [] i.op = "C_BEQZ" -> CBranch(s, i, next, s.x[i.rs1] = 0)
          [] i.op = "C_BNEZ" -> CBranch(s, i, next, s.x[i.rs1] # 0)
Exec16Q2(s, i, next, u) ==
    LET linked == Set(s, 1, next)
    IN  CASE i.op = "C_SLLI" ->
               Done(Set(s, i.rd, Shift(Sll(s.x[i.rd], i.imm), i.imm, u)), next, "Shift")
          [] i.op = "C_LWSP" -> CLoad(s, i.rd, W(s.x[2] + i.imm), next)
          [] i.op = "C_JR" -> Done(s, (s.x[i.rs1] \div 2) * 2, "Jump")
          [] i.op = "C_MV" -> Done(Set(s, i.rd, s.x[i.rs2]), next, "Alu")
          [] i.op = "C_EBREAK" -> Trap(s)
          [] i.op = "C_JALR" -> Done(linked, (linked.x[i.rs1] \div 2) * 2, "Jump")
          [] i.op = "C_ADD" -> Done(Set(s, i.rd, W(s.x[i.rd] + s.x[i.rs2])), next, "Alu")
          [] i.op = "C_SWSP" -> CStore(s, W(s.x[2] + i.imm), s.x[i.rs2], next)
Q0Ops == {"C_ADDI4SPN", "C_LW", "C_SW"}
Q1Ops == {"C_ADDI", "C_JAL", "C_J", "C_LI", "C_LUI", "C_ADDI16SP", "C_SRLI", "C_SRAI", "C_ANDI",
          "C_BEQZ", "C_BNEZ"} \cup DOMAIN CAluOps
Q2Ops == {"C_SLLI", "C_LWSP", "C_JR", "C_MV", "C_EBREAK", "C_JALR", "C_ADD", "C_SWSP"}
Exec16(s, i, next, u) ==
    CASE i.op \in Q0Ops -> Exec16Q0(s, i, next)
      [] i.op \in Q1Ops -> Exec16Q1(s, i, next, u)
      [] i.op \in Q2Ops -> Exec16Q2(s, i, next, u)
      [] OTHER -> Trap(s)

Compressed(i) == i.op \in Q0Ops \cup Q1Ops \cup Q2Ops \cup {"C_ILLEGAL"}

----------------------------------------------------------------------------
(* The processor *)

Init ==
    /\ m = [x |-> [r \in Reg |-> 0], pc |-> Base, mem |-> [o \in 0 .. MemSize - 1 |-> 0],
            resv |-> NoAddr]
    /\ count = [retired |-> 0, cycles |-> 0]
    /\ mode \in {"accurate", "optimal"}
    /\ ring = [slots |-> [k \in 0 .. TraceSize - 1 |-> 0], next |-> 0, n |-> 0]
    /\ budget = 0 /\ outcome = "none"
    /\ lr = NoAddr /\ recent = <<>>
    /\ last = [op |-> "none", addr |-> NoAddr, rd |-> 0]

\* call, first part: the runtime calls a guest function.
BeginCall(entry, a0) ==
    /\ outcome \in {"none", "returned"} /\ count.retired < MaxRetired
    /\ m' = [m EXCEPT !.pc = entry, !.x[1] = ReturnSentinel, !.x[10] = a0,
                      !.x[2] = W(Base + MemSize - (MemSize % StackAlign))]
    /\ budget' = Budget /\ outcome' = "running"
    /\ last' = [op |-> "call", addr |-> NoAddr, rd |-> 0]
    /\ UNCHANGED <<count, mode, ring, lr, recent>>

\* The loop of call: it ends at the sentinel, and short of it when the budget is spent.
Running == outcome = "running" /\ m.pc # ReturnSentinel /\ budget > 0
CallEnds(o) ==
    /\ outcome = "running" /\ outcome' = o
    /\ last' = [op |-> "end", addr |-> NoAddr, rd |-> 0]
    /\ UNCHANGED <<m, count, mode, ring, budget, lr, recent>>
Returns == m.pc = ReturnSentinel /\ CallEnds("returned")

InHostRange(pc) == /\ pc >= HostBase /\ pc < HostBase + 4 * HostCount
                   /\ (pc - HostBase) % 4 = 0

\* Mutant: the budget is looked at between host calls only.
ExhaustsAtHostCall == m.pc # ReturnSentinel /\ InHostRange(m.pc) /\ budget = 0 /\ CallEnds("exhausted")

Exhausts == m.pc # ReturnSentinel /\ budget = 0 /\ CallEnds("exhausted")

\* step at a host address: the host function runs - it may store to guest memory and set a0 - and
\* the guest continues at its return address.
HostStep ==
    /\ Running /\ InHostRange(m.pc)
    /\ \E a0 \in Args \cup {m.x[10]}, stores \in {{}} \cup {{s} : s \in HostStores} :
         LET after == IF stores = {} THEN m
                      ELSE LET s == CHOOSE s \in stores : TRUE IN Store(m, s.addr, s.n, s.v)
         IN  /\ m' = [after EXCEPT !.x[10] = a0, !.pc = m.x[1], !.x[0] = 0]
             /\ lr' = IF \E s \in stores : StoreOk(s.addr, s.n) THEN NoAddr ELSE lr
    /\ count' = [count EXCEPT !.cycles = @ + IF mode = "accurate" THEN AbiCycles ELSE 0]
    /\ budget' = budget - 1
    /\ last' = [op |-> "host", addr |-> NoAddr, rd |-> 0]
    /\ UNCHANGED <<mode, ring, outcome, recent>>

Record(pc) ==
    [slots |-> [ring.slots EXCEPT ![ring.next] = pc], next |-> (ring.next + 1) % TraceSize,
     n |-> IF ring.n < TraceSize THEN ring.n + 1 ELSE ring.n]
LastOf(seq) == IF Len(seq) > TraceSize THEN Tail(seq) ELSE seq

\* Instructions that store to memory when they retire.
Stores(i) == i.op \in DOMAIN StoreSize \cup AmoOps \cup {"SC.W", "C_SW", "C_SWSP"}

\* step at a guest address: fetch and execute.  A trap ends the call where it is.
Fetched(i) == LoadOk(m.pc, IF Compressed(i) THEN 2 ELSE 4)
Result(i, u) ==
    IF ~Fetched(i) THEN Trap(m)
    ELSE IF Compressed(i) THEN Exec16(m, i, W(m.pc + 2), u)
    ELSE Exec32(m, i, W(m.pc + 4), count)
Charge(class) == IF mode = "accurate" THEN InstructionCycles[class] ELSE 1
Step(i) ==
    /\ Running /\ ~InHostRange(m.pc)
    /\ \E u \in Word :
         LET r == Result(i, u)
         IN  /\ (Compressed(i) /\ i.imm >= Xlen /\ i.op \in {"C_SLLI", "C_SRLI", "C_SRAI"}) \/ u = 0
             /\ m' = r.m
             /\ outcome' = IF r.trap THEN "trapped" ELSE outcome
             /\ count' = IF r.trap THEN count
                         ELSE [retired |-> count.retired + 1,
                               cycles |-> count.cycles + Charge(r.class)]
             /\ lr' = IF r.trap THEN lr
                      ELSE IF i.op = "LR.W" THEN m.x[i.rs1]
                      ELSE IF Stores(i) THEN NoAddr ELSE lr
    /\ ring' = Record(m.pc) /\ recent' = LastOf(Append(recent, m.pc))
    /\ budget' = budget - 1
    /\ last' = [op |-> i.op, addr |-> m.x[i.rs1], rd |-> i.rd]
    /\ UNCHANGED mode

Next ==
    \/ \E entry \in Entries, a0 \in Args : BeginCall(entry, a0)
    \/ Returns
    \/ Exhausts
    \/ HostStep
    \/ \E i \in Program : Step(i)

\* call is one synchronous loop: it goes on until it ends.
Fairness == WF_vars(Returns \/ Exhausts \/ HostStep \/ \E i \in Program : Step(i))
Spec == Init /\ [][Next]_vars /\ Fairness

----------------------------------------------------------------------------
(* Properties *)

\* Every component keeps its type and x0 reads 0.
TypeOK ==
    /\ m.x \in [Reg -> Word] /\ m.x[0] = 0
    /\ m.pc \in Word /\ m.mem \in [0 .. MemSize - 1 -> Byte] /\ m.resv \in Word \cup {NoAddr}
    /\ count.retired \in Nat /\ count.cycles \in Nat
    /\ mode \in {"accurate", "optimal"}
    /\ ring.slots \in [0 .. TraceSize - 1 -> Word]
    /\ ring.next \in 0 .. TraceSize - 1 /\ ring.n \in 0 .. TraceSize
    /\ budget \in 0 .. Budget
    /\ outcome \in {"none", "running", "returned", "trapped", "exhausted"}

\* A reservation never outlives a store, whoever made it: the one held is that of an LR.W since
\* which neither the guest (by a 32-bit, compressed or atomic store) nor a host function wrote.
ReservationIntact == m.resv # NoAddr => m.resv = lr

\* SC.W reports success, in a register that holds it, only for the intact reservation of its own
\* address, and one that fails leaves memory alone.
ScNeedsReservation ==
    [][last'.op = "SC.W" /\ last'.rd # 0 /\ outcome' = "running" =>
          IF m'.x[last'.rd] = 0 THEN lr = last'.addr ELSE m'.mem = m.mem]_vars

\* A step that traps leaves memory, reservation, counters and pc as they were, and the registers
\* too - but for the destination of a compressed load, which the code has already written.
TrapIsPrecise ==
    [][outcome = "running" /\ outcome' = "trapped" =>
          /\ m'.mem = m.mem /\ m'.resv = m.resv /\ m'.pc = m.pc /\ count' = count
          /\ \A r \in Reg : m'.x[r] # m.x[r] => last'.op \in {"C_LW", "C_LWSP"} /\ r = last'.rd]_vars

\* The 32-bit instruction a compressed one stands for in the ISA.
Expanded(i) ==
    LET To(op, rd, rs1, rs2) ==
            [op |-> op, rd |-> rd, rs1 |-> rs1, rs2 |-> rs2, imm |-> i.imm]
    IN  CASE i.op = "C_ADDI4SPN" -> To("ADDI", i.rd, 2, 0)
          [] i.op = "C_LW" -> To("LW", i.rd, i.rs1, 0)
          [] i.op = "C_SW" -> To("SW", 0, i.rs1, i.rs2)
          [] i.op = "C_ADDI" -> To("ADDI", i.rd, i.rd, 0)
          [] i.op = "C_JAL" -> To("JAL", 1, 0, 0)
          [] i.op = "C_J" -> To("JAL", 0, 0, 0)
          [] i.op = "C_LI" -> To("ADDI", i.rd, 0, 0)
          [] i.op = "C_LUI" -> To("LUI", i.rd, 0, 0)
          [] i.op = "C_ADDI16SP" -> To("ADDI", 2, 2, 0)
          [] i.op = "C_SRLI" -> To("SRLI", i.rd, i.rd, 0)
          [] i.op = "C_SRAI" -> To("SRAI", i.rd, i.rd, 0)
          [] i.op = "C_ANDI" -> To("ANDI", i.rd, i.rd, 0)
          [] i.op \in DOMAIN CAluOps -> To(CAluOps[i.op], i.rd, i.rd, i.rs2)
          [] i.op = "C_BEQZ" -> To("BEQ", 0, i.rs1, 0)
          [] i.op = "C_BNEZ" -> To("BNE", 0, i.rs1, 0)
          [] i.op = "C_SLLI" -> To("SLLI", i.rd, i.rd, 0)
          [] i.op = "C_LWSP" -> To("LW", i.rd, 2, 0)
          [] i.op = "C_JR" -> [To("JALR", 0, i.rs1, 0) EXCEPT !.imm = 0]
          [] i.op = "C_MV" -> To("ADD", i.rd, 0, i.rs2)
          [] i.op = "C_EBREAK" -> To("EBREAK", 0, 0, 0)
          [] i.op = "C_JALR" -> [To("JALR", 1, i.rs1, 0) EXCEPT !.imm = 0]
          [] i.op = "C_ADD" -> To("ADD", i.rd, i.rd, i.rs2)
          [] i.op = "C_SWSP" -> To("SW", 0, 2, i.rs2)
          [] OTHER -> i
\* Encodings RV32 reserves have no expansion to agree with.
Reserved(i) == \/ i.op \in {"C_SLLI", "C_SRLI", "C_SRAI"} /\ i.imm >= Xlen
               \/ i.op = "C_ADDI4SPN" /\ i.imm = 0
SameAsExpanded(i) ==
    Exec16(m, i, W(m.pc + 2), 0) = Exec32(m, Expanded(i), W(m.pc + 2), count)

TrapsEitherWay(i) == /\ Exec16(m, i, W(m.pc + 2), 0).trap
                     /\ Exec32(m, Expanded(i), W(m.pc + 2), count).trap

\* "Interprets the RV32I base ISA and the M, A, and C extensions": a compressed instruction that
\* does not trap does to registers, memory, reservation, pc and timing what its 32-bit expansion does.
CompressedIsExpansion ==
    outcome = "running" =>
        \A i \in Program :
            Compressed(i) /\ ~Reserved(i) => SameAsExpanded(i) \/ TrapsEitherWay(i)

\* Trap or not, a compressed instruction does what its expansion does, but for the two cases where
\* the decoder differs: C.JALR through its own link register, and the destination of a compressed
\* load that traps.
CompressedAgrees ==
    outcome = "running" =>
        \A i \in Program :
            Compressed(i) /\ ~Reserved(i) =>
                \/ SameAsExpanded(i)
                \/ i.op = "C_JALR" /\ i.rs1 = 1
                \/ i.op \in {"C_LW", "C_LWSP"} /\ TrapsEitherWay(i)

\* Multiplication halves join to the exact product, and a division's quotient and remainder to its
\* dividend with a remainder of the dividend's sign, also for a zero divisor and the one overflow.
ArithmeticExact ==
    outcome = "running" =>
        \A b \in Word :
            LET a == m.x[10]
                r == MulDiv(a, b)
                sb == Signed(b)
                q == Signed(r.DIV)
                rem == Signed(r.REM)
            IN  /\ Signed(r.MULH) * WordSize + r.MUL = Signed(a) * sb
                /\ Signed(r.MULHSU) * WordSize + r.MUL = Signed(a) * b
                /\ r.MULHU * WordSize + r.MUL = a * b
                /\ W(q * sb + rem) = a
                /\ sb # 0 => Abs(rem) < Abs(sb) /\ (rem = 0 \/ (rem < 0) = (Signed(a) < 0))
                /\ b # 0 => r.DIVU * b + r.REMU = a /\ r.REMU < b

\* The addresses the debugger is shown are those of the last steps, oldest first, with none missing.
Oldest == (ring.next + TraceSize - ring.n) % TraceSize
RecentInstructionAddresses == [k \in 1 .. ring.n |-> ring.slots[(Oldest + k - 1) % TraceSize]]
TraceIsRecent == RecentInstructionAddresses = recent

\* The cycle counter is charged for every retired instruction; without virtual timing it is the
\* instruction counter, host calls included.
CountersAgree == IF mode = "accurate" THEN count.cycles >= count.retired
                 ELSE count.cycles = count.retired

\* A call the runtime makes ends, whatever the guest does: by its return, a trap or its budget.
CallsEnd == [](outcome = "running" => <>(outcome # "running"))

\* After any program and host writes the machine is well formed and what the runtime and the
\* debugger read off it - reservation, counters, instruction trace - is what really happened.
MachineConsistent == TypeOK /\ ReservationIntact /\ CountersAgree /\ TraceIsRecent
=============================================================================
