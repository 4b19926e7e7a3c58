------------------------------ MODULE CpuProofs ------------------------------
(***************************************************************************)
(* What the guest processor promises for every program, memory, register   *)
(* file, word size and host function: reservations, types, counters and     *)
(* trace, traps, compressed instructions, products and quotients.           *)
(***************************************************************************)
EXTENDS Rv32Cpu, TLAPS, WellFoundedInduction

(* A machine is a record of registers, pc, memory and reservation. *)
Machine(s) == DOMAIN s = {"x", "pc", "mem", "resv"} /\ DOMAIN s.x = Reg

(* Setting a register touches nothing else. *)
LEMMA SetProperties ==
    ASSUME NEW s, Machine(s), NEW r \in Reg, NEW v
    PROVE  /\ Machine(Set(s, r, v))
           /\ Set(s, r, v).resv = s.resv /\ Set(s, r, v).mem = s.mem
           /\ r # 0 => Set(s, r, v).x[r] = v
BY DEF Set, Machine

(* A store that fits ends any reservation, one that does not changes nothing. *)
LEMMA StoreProperties ==
    ASSUME NEW s, Machine(s), NEW a, NEW n, NEW v
    PROVE  /\ Machine(Store(s, a, n, v))
           /\ Store(s, a, n, v).resv = IF StoreOk(a, n) THEN NoAddr ELSE s.resv
           /\ ~StoreOk(a, n) => Store(s, a, n, v) = s
BY DEF Store, Machine

(* An instruction that retires changes the pc only. *)
LEMMA DoneProperties ==
    ASSUME NEW s, Machine(s), NEW pc, NEW class
    PROVE  /\ Machine(Done(s, pc, class).m) /\ ~Done(s, pc, class).trap
           /\ Done(s, pc, class).m.resv = s.resv /\ Done(s, pc, class).m.mem = s.mem
           /\ \A r \in Reg \ {0} : Done(s, pc, class).m.x[r] = s.x[r]
BY CpuAssumption DEF Done, Machine

(* One that traps changes nothing. *)
LEMMA TrapProperties ==
    ASSUME NEW s, Machine(s)
    PROVE  /\ Machine(Trap(s).m) /\ Trap(s).trap /\ Trap(s).m = s
BY DEF Trap, Machine

(* What a step does to memory and reservation: nothing, a store, or what     *)
(* LR.W and SC.W do.                                                         *)
Kept(s, r) == Machine(r.m) /\ r.m.resv = s.resv /\ r.m.mem = s.mem
Stored(s, r) == Machine(r.m) /\ IF r.trap THEN r.m.resv = s.resv ELSE r.m.resv = NoAddr
Effect(s, i, r) ==
    /\ Machine(r.m)
    /\ r.trap => r.m.resv \in {s.resv, NoAddr}
    /\ ~r.trap => r.m.resv = IF Stores(i) THEN NoAddr
                             ELSE IF i.op = "LR.W" THEN s.x[i.rs1] ELSE s.resv
    /\ (~r.trap /\ i.op = "SC.W" /\ i.rd # 0) =>
          IF r.m.x[i.rd] = 0 THEN Holds(s, s.x[i.rs1]) ELSE r.m.mem = s.mem

(* Results of the shapes instructions have. *)
LEMMA SetDone ==
    ASSUME NEW s, Machine(s), NEW r \in Reg, NEW v, NEW pc, NEW class
    PROVE  Kept(s, Done(Set(s, r, v), pc, class))
BY SetProperties, DoneProperties DEF Kept
(* Retiring keeps memory and reservation. *)
LEMMA JustDone ==
    ASSUME NEW s, Machine(s), NEW pc, NEW class
    PROVE  Kept(s, Done(s, pc, class))
BY DoneProperties DEF Kept
(* A trap keeps them too. *)
LEMMA JustTrap ==
    ASSUME NEW s, Machine(s)
    PROVE  Kept(s, Trap(s)) /\ Stored(s, Trap(s))
BY TrapProperties DEF Kept, Stored
(* A store that retires is a store. *)
LEMMA StoreDone ==
    ASSUME NEW s, Machine(s), NEW a, NEW n, StoreOk(a, n), NEW v, NEW pc, NEW class
    PROVE  Stored(s, Done(Store(s, a, n, v), pc, class))
BY StoreProperties, DoneProperties DEF Stored

(* The operations that store when they retire. *)
StoringOps == {"SB", "SH", "SW", "AMOSWAP", "AMOADD", "AMOXOR", "AMOAND", "AMOOR", "AMOMIN",
               "AMOMAX", "AMOMINU", "AMOMAXU", "SC.W", "C_SW", "C_SWSP"}
(* These are the operations of Stores. *)
LEMMA StoresIff ==
    ASSUME NEW i
    PROVE  Stores(i) <=> i.op \in StoringOps
BY DEF Stores, StoreSize, AmoOps, StoringOps

(* LR.W, SC.W and the AMOs. *)
LEMMA AtomicEffect ==
    ASSUME NEW s, Machine(s), NEW i, {i.rd, i.rs1, i.rs2} \subseteq Reg, NEW next,
           i.op \in {"LR.W", "SC.W"} \cup AmoOps
    PROVE  Effect(s, i, ExecAtomic(s, i, next))
<1> DEFINE a == s.x[i.rs1]
           b == s.x[i.rs2]
           old == Load(s.mem, a, 4)
           reserved == LoadReserved(s, i.rd, a)
           conditional == StoreConditional(s, i.rd, a, b)
           swapped == Set(Store(s, a, 4, Amo(i.op, old, b)), i.rd, old)
           r == ExecAtomic(s, i, next)
<1> HIDE DEF old
<1>1. Machine(reserved) /\ reserved.resv = a
  <2>1. Machine([s EXCEPT !.resv = a]) /\ [s EXCEPT !.resv = a].resv = a
    BY DEF Machine
  <2>2. QED  BY <2>1, SetProperties DEF LoadReserved
<1>2. /\ Machine(conditional) /\ conditional.resv = NoAddr
      /\ i.rd # 0 => IF conditional.x[i.rd] = 0 THEN Holds(s, a) ELSE conditional.mem = s.mem
  <2> DEFINE done == Set(Store(s, a, 4, b), i.rd, 0)
             failed == Set(s, i.rd, 1)
             which == IF Holds(s, a) THEN done ELSE failed
  <2>1. Machine(done) /\ Machine(failed) /\ failed.mem = s.mem
        /\ (i.rd # 0 => done.x[i.rd] = 0 /\ failed.x[i.rd] = 1)
    BY SetProperties, StoreProperties
  <2> HIDE DEF done, failed
  <2>2. conditional = [which EXCEPT !.resv = NoAddr]
    BY DEF StoreConditional, done, failed
  <2>3. Machine(which)
    BY <2>1
  <2>4. Machine(conditional) /\ conditional.resv = NoAddr
        /\ conditional.mem = which.mem /\ conditional.x = which.x
    BY <2>2, <2>3 DEF Machine
  <2>5. QED  BY <2>1, <2>4
<1>3. Machine(swapped) /\ swapped.resv = IF StoreOk(a, 4) THEN NoAddr ELSE s.resv
  BY SetProperties, StoreProperties
<1> HIDE DEF reserved, conditional, swapped
<1>4. CASE ~LoadOk(a, 4)
  <2>1. r = Trap(s)
    BY <1>4 DEF ExecAtomic
  <2>2. QED  BY <2>1, TrapProperties DEF Effect
<1>5. CASE LoadOk(a, 4) /\ i.op = "LR.W"
  <2>1. r = Done(reserved, next, "Atomic")
    BY <1>5 DEF ExecAtomic, AmoOps, reserved
  <2>2. ~Stores(i)
    BY <1>5, StoresIff DEF StoringOps
  <2>3. QED  BY <1>1, <1>5, <2>1, <2>2, DoneProperties DEF Effect
<1>6. CASE LoadOk(a, 4) /\ i.op = "SC.W"
  <2>1. r = IF Holds(s, a) /\ ~StoreOk(a, 4) THEN Trap(conditional)
            ELSE Done(conditional, next, "Atomic")
    BY <1>6 DEF ExecAtomic, AmoOps, conditional
  <2>2. Stores(i)
    BY <1>6, StoresIff DEF StoringOps
  <2>3. CASE Holds(s, a) /\ ~StoreOk(a, 4)
    BY <1>2, <2>1, <2>3, TrapProperties DEF Effect
  <2>4. CASE ~(Holds(s, a) /\ ~StoreOk(a, 4))
    BY <1>2, <1>6, <2>1, <2>2, <2>4, DoneProperties DEF Effect
  <2>5. QED  BY <2>3, <2>4
<1>7. CASE LoadOk(a, 4) /\ i.op \in AmoOps
  <2>1. i.op \notin {"LR.W", "SC.W"}
    BY <1>7 DEF AmoOps
  <2>2. r = IF ~StoreOk(a, 4) THEN Trap(swapped) ELSE Done(swapped, next, "Atomic")
    BY <1>7, <2>1 DEF ExecAtomic, swapped, old
  <2>3. Stores(i)
    BY <1>7 DEF Stores
  <2>4. CASE StoreOk(a, 4)
    BY <1>3, <2>1, <2>2, <2>3, <2>4, DoneProperties DEF Effect
  <2>5. CASE ~StoreOk(a, 4)
    BY <1>3, <2>2, <2>5, TrapProperties DEF Effect
  <2>6. QED  BY <2>4, <2>5
<1>8. QED  BY <1>4, <1>5, <1>6, <1>7

(* An instruction that keeps memory and reservation, or stores, has its effect. *)
LEMMA KeptEffect ==
    ASSUME NEW s, NEW i, NEW r, Kept(s, r), i.op \notin StoringOps \cup {"LR.W"}
    PROVE  Effect(s, i, r)
<1>1. ~Stores(i) /\ i.op # "LR.W" /\ i.op # "SC.W"
  BY StoresIff DEF StoringOps
<1>2. QED  BY <1>1 DEF Kept, Effect
(* An instruction that stores has its effect. *)
LEMMA StoredEffect ==
    ASSUME NEW s, NEW i, NEW r, Stored(s, r), i.op \in StoringOps \ {"SC.W"}
    PROVE  Effect(s, i, r)
<1>1. Stores(i) /\ i.op # "LR.W" /\ i.op # "SC.W"
  BY StoresIff DEF StoringOps
<1>2. QED  BY <1>1 DEF Stored, Effect

(* The 32-bit instructions. *)
LEMMA Effect32 ==
    ASSUME NEW s, Machine(s), NEW i, {i.rd, i.rs1, i.rs2} \subseteq Reg, NEW next, NEW c
    PROVE  Effect(s, i, Exec32(s, i, next, c))
<1> DEFINE r == Exec32(s, i, next, c)
<1>1. CASE i.op \in {"LR.W", "SC.W"} \cup AmoOps
  <2>1. r = ExecAtomic(s, i, next)
    BY <1>1 DEF Exec32, AmoOps, BranchOps, LoadSize, StoreSize, ImmOp, AluOps, MulOps, DivOps
  <2>2. QED  BY <1>1, <2>1, AtomicEffect
<1>2. CASE i.op \in {"SB", "SH", "SW"}
  <2>1. r = ExecStore(s, i, next)
    BY <1>2 DEF Exec32, AmoOps, BranchOps, LoadSize, StoreSize, ImmOp, AluOps, MulOps, DivOps
  <2>2. Stored(s, ExecStore(s, i, next))
    BY StoreDone, JustTrap DEF ExecStore
  <2>3. QED  BY <1>2, <2>1, <2>2, StoredEffect DEF StoringOps
<1>3. CASE i.op \notin {"LR.W", "SC.W", "SB", "SH", "SW"} \cup AmoOps
  <2>1. i.op \notin DOMAIN StoreSize
    BY <1>3 DEF StoreSize
  <2>2. Kept(s, ExecBranch(s, i, next))
    BY JustDone DEF ExecBranch
  <2>3. Kept(s, ExecLoad(s, i, next))
    BY SetDone, JustTrap DEF ExecLoad
  <2>4. Kept(s, ExecSystem(s, i, next, c))
    BY SetDone, JustDone, JustTrap DEF ExecSystem
  <2>5. \A v, pc, class : Kept(s, Done(Set(s, i.rd, v), pc, class))
    BY SetDone
  <2>6. Kept(s, Trap(s)) /\ Kept(s, Done(s, next, "Fence"))
    BY JustTrap, JustDone
  <2>7. Kept(s, r) \/ i.op \in {"C_SW", "C_SWSP"}
    BY <1>3, <2>1, <2>2, <2>3, <2>4, <2>5, <2>6 DEF Exec32
  <2>8. i.op \in {"C_SW", "C_SWSP"} => r = Trap(s)
    BY DEF Exec32, AmoOps, BranchOps, LoadSize, StoreSize, ImmOp, AluOps, MulOps, DivOps
  <2>9. i.op \in {"C_SW", "C_SWSP"} => Stored(s, r)
    BY <2>8, JustTrap
  <2>10. i.op \notin {"C_SW", "C_SWSP"} => i.op \notin StoringOps \cup {"LR.W"}
    BY <1>3 DEF StoringOps, AmoOps
  <2>11. i.op \in {"C_SW", "C_SWSP"} => i.op \in StoringOps \ {"SC.W"}
    BY DEF StoringOps
  <2>12. QED  BY <2>7, <2>9, <2>10, <2>11, KeptEffect, StoredEffect
<1>4. QED  BY <1>1, <1>2, <1>3

(* The compressed instructions. *)
LEMMA Effect16 ==
    ASSUME NEW s, Machine(s), NEW i, {i.rd, i.rs1, i.rs2} \subseteq Reg, NEW next, NEW u,
           Compressed(i)
    PROVE  Effect(s, i, Exec16(s, i, next, u))
<1> DEFINE r == Exec16(s, i, next, u)
<1>0. {0, 1, 2, 10} \subseteq Reg
  BY CpuAssumption
<1>1. \A reg \in Reg : \A a, v : Kept(s, CLoad(s, reg, a, v))
  <2> SUFFICES ASSUME NEW reg \in Reg, NEW a, NEW v
               PROVE  Kept(s, CLoad(s, reg, a, v))
    OBVIOUS
  <2> DEFINE t == Set(s, reg, Load(s.mem, a, 4))
  <2>1. Machine(t) /\ t.resv = s.resv /\ t.mem = s.mem
    BY SetProperties
  <2>2. Kept(s, Done(t, v, "Load")) /\ Kept(s, Trap(t))
    BY <2>1, DoneProperties, TrapProperties DEF Kept
  <2>3. QED  BY <2>2 DEF CLoad
<1>2. \A a, v, pc : Stored(s, CStore(s, a, v, pc))
  BY StoreDone, JustTrap DEF CStore
<1>3. \A reg \in Reg : \A v, pc, class : Kept(s, Done(Set(s, reg, v), pc, class))
  BY SetDone
<1>4. \A pc, class : Kept(s, Done(s, pc, class))
  BY JustDone
<1>5. \A taken : Kept(s, CBranch(s, i, next, taken))
  BY <1>4 DEF CBranch
<1>6. Kept(s, Trap(s))
  BY JustTrap
<1>7. CASE i.op = "C_SW"
  <2>1. r = CStore(s, W(s.x[i.rs1] + i.imm), s.x[i.rs2], next)
    BY <1>7 DEF Exec16, Exec16Q0, Q0Ops, Q1Ops, Q2Ops, CAluOps
  <2>2. QED  BY <1>2, <1>7, <2>1, StoredEffect DEF StoringOps
<1>8. CASE i.op = "C_SWSP"
  <2>1. r = CStore(s, W(s.x[2] + i.imm), s.x[i.rs2], next)
    BY <1>8 DEF Exec16, Exec16Q2, Q0Ops, Q1Ops, Q2Ops, CAluOps
  <2>2. QED  BY <1>2, <1>8, <2>1, StoredEffect DEF StoringOps
<1>9. CASE i.op \notin {"C_SW", "C_SWSP"}
  <2>1. CASE i.op \in Q0Ops
    <3>1. r = Exec16Q0(s, i, next)
      BY <2>1 DEF Exec16, Q0Ops, Q1Ops, Q2Ops, CAluOps
    <3>2. i.op \in {"C_ADDI4SPN", "C_LW"}
      BY <1>9, <2>1 DEF Q0Ops
    <3>3. Kept(s, r)
      BY <1>1, <1>3, <1>6, <3>1, <3>2 DEF Exec16Q0
    <3>4. QED  BY <3>2, <3>3, KeptEffect DEF StoringOps
  <2>2. CASE i.op \in Q1Ops
    <3>1. r = Exec16Q1(s, i, next, u)
      BY <2>2 DEF Exec16, Q0Ops, Q1Ops, Q2Ops, CAluOps
    <3>2. Kept(s, r)
      BY <1>0, <1>3, <1>4, <1>5, <2>2, <3>1 DEF Exec16Q1, Q1Ops
    <3>3. i.op \notin StoringOps \cup {"LR.W"}
      BY <2>2 DEF Q1Ops, StoringOps, CAluOps
    <3>4. QED  BY <3>2, <3>3, KeptEffect
  <2>3. CASE i.op \in Q2Ops
    <3>1. r = Exec16Q2(s, i, next, u)
      BY <2>3 DEF Exec16, Q0Ops, Q1Ops, Q2Ops, CAluOps
    <3>2. i.op \in Q2Ops \ {"C_SWSP"}
      BY <1>9, <2>3
    <3>3. Kept(s, r)
      BY <1>0, <1>1, <1>3, <1>4, <1>6, <3>1, <3>2 DEF Exec16Q2, Q2Ops
    <3>4. i.op \notin StoringOps \cup {"LR.W"}
      BY <3>2 DEF Q2Ops, StoringOps
    <3>5. QED  BY <3>3, <3>4, KeptEffect
  <2>4. CASE i.op = "C_ILLEGAL"
    <3>1. r = Trap(s)
      BY <2>4 DEF Exec16, Q0Ops, Q1Ops, Q2Ops, CAluOps
    <3>2. QED  BY <1>6, <2>4, <3>1, KeptEffect DEF StoringOps
  <2>5. QED  BY <2>1, <2>2, <2>3, <2>4 DEF Compressed
<1>10. QED  BY <1>7, <1>8, <1>9
-----------------------------------------------------------------------------
(* Steps of the processor. *)

(* What a step of the guest does to the reservation and its history. *)
LEMMA StepEffect ==
    ASSUME Machine(m), NEW i \in Program, NEW u
    PROVE  Effect(m, i, Result(i, u)) \/ Result(i, u) = Trap(m)
<1>1. {i.rd, i.rs1, i.rs2} \subseteq Reg
  BY CpuAssumption
<1>2. CASE ~Fetched(i)
  BY <1>2 DEF Result
<1>3. CASE Fetched(i) /\ Compressed(i)
  BY <1>1, <1>3, Effect16 DEF Result
<1>4. CASE Fetched(i) /\ ~Compressed(i)
  BY <1>1, <1>4, Effect32 DEF Result
<1>5. QED  BY <1>2, <1>3, <1>4

ReservationInv == Machine(m) /\ ReservationIntact

(* A step of the guest keeps the reservation what the history says. *)
LEMMA GuestStep ==
    ASSUME ReservationInv, NEW i \in Program, Step(i)
    PROVE  /\ ReservationInv'
           /\ (i.op = "SC.W" /\ i.rd # 0 /\ outcome' = "running") =>
                 IF m'.x[i.rd] = 0 THEN lr = m.x[i.rs1] ELSE m'.mem = m.mem
<1>1. PICK u \in Word :
        LET r == Result(i, u)
        IN  /\ m' = r.m
            /\ outcome' = IF r.trap THEN "trapped" ELSE outcome
            /\ lr' = IF r.trap THEN lr
                     ELSE IF i.op = "LR.W" THEN m.x[i.rs1]
                     ELSE IF Stores(i) THEN NoAddr ELSE lr
  BY DEF Step
<1> DEFINE r == Result(i, u)
<1>2. r = Trap(m) => r.trap /\ r.m = m
  BY DEF Trap
<1>3. Effect(m, i, r) \/ r = Trap(m)
  BY StepEffect DEF ReservationInv
<1>4. "trapped" # "running"
  OBVIOUS
<1> HIDE DEF r
<1>5. /\ m' = r.m
      /\ outcome' = IF r.trap THEN "trapped" ELSE outcome
      /\ lr' = IF r.trap THEN lr ELSE IF i.op = "LR.W" THEN m.x[i.rs1]
               ELSE IF Stores(i) THEN NoAddr ELSE lr
  BY <1>1 DEF r
<1>6. CASE r.trap
  <2>1. Machine(r.m) /\ r.m.resv \in {m.resv, NoAddr}
    BY <1>2, <1>3, <1>6 DEF Effect, ReservationInv
  <2>2. QED  BY <1>4, <1>5, <1>6, <2>1 DEF ReservationInv, ReservationIntact
<1>7. CASE ~r.trap
  <2>1. Effect(m, i, r)
    BY <1>2, <1>3, <1>7
  <2>2. Stores(i) => i.op # "LR.W"
    BY StoresIff DEF StoringOps
  <2>3. ReservationInv'
    BY <1>5, <1>7, <2>1, <2>2 DEF Effect, ReservationInv, ReservationIntact
  <2>4. Holds(m, m.x[i.rs1]) => lr = m.x[i.rs1]
    BY DEF Holds, ReservationInv, ReservationIntact
  <2>5. QED  BY <1>5, <1>7, <2>1, <2>3, <2>4 DEF Effect
<1>8. QED  BY <1>6, <1>7

(* So does a host function, whether it stores or not. *)
LEMMA HostFunctionStep ==
    ASSUME ReservationInv, HostStep
    PROVE  ReservationInv'
<1> USE CpuAssumption DEF ReservationInv
<1>1. PICK a0 \in Args \cup {m.x[10]}, stores \in {{}} \cup {{s} : s \in HostStores} :
        LET after == IF stores = {} THEN m
                     ELSE LET s == CHOOSE s \in stores : TRUE IN Store(m, s.addr, s.n, s.v)
        IN  /\ m' = [after EXCEPT !.x[10] = a0, !.pc = m.x[1], !.x[0] = 0]
            /\ lr' = IF \E s \in stores : StoreOk(s.addr, s.n) THEN NoAddr ELSE lr
  BY DEF HostStep
<1>2. ASSUME NEW after, Machine(after),
             m' = [after EXCEPT !.x[10] = a0, !.pc = m.x[1], !.x[0] = 0]
      PROVE  Machine(m') /\ m'.resv = after.resv
  BY <1>2 DEF Machine
<1>3. CASE stores = {}
  <2>1. m' = [m EXCEPT !.x[10] = a0, !.pc = m.x[1], !.x[0] = 0] /\ lr' = lr
    BY <1>1, <1>3
  <2>2. Machine(m') /\ m'.resv = m.resv
    BY <1>2, <2>1
  <2>3. QED  BY <2>1, <2>2 DEF ReservationIntact
<1>4. ASSUME NEW s \in HostStores, stores = {s}
      PROVE  ReservationInv'
  <2>1. (CHOOSE t \in stores : TRUE) = s
    BY <1>4
  <2> DEFINE after == Store(m, s.addr, s.n, s.v)
  <2>2. /\ m' = [after EXCEPT !.x[10] = a0, !.pc = m.x[1], !.x[0] = 0]
        /\ lr' = IF StoreOk(s.addr, s.n) THEN NoAddr ELSE lr
    BY <1>1, <1>4, <2>1
  <2>3. Machine(after) /\ after.resv = IF StoreOk(s.addr, s.n) THEN NoAddr ELSE m.resv
    BY StoreProperties
  <2> HIDE DEF after
  <2>4. Machine(m') /\ m'.resv = after.resv
    BY <1>2, <2>2, <2>3
  <2>5. QED  BY <2>2, <2>3, <2>4 DEF ReservationIntact
<1>5. QED  BY <1>3, <1>4

(* So does every step. *)
LEMMA ReservationStep ==
    ASSUME ReservationInv, [Next]_vars
    PROVE  ReservationInv'
<1>1. ASSUME NEW entry \in Entries, NEW a0 \in Args, BeginCall(entry, a0)
      PROVE  ReservationInv'
  BY <1>1, CpuAssumption DEF BeginCall, ReservationInv, ReservationIntact, Machine
<1>2. CASE Returns \/ Exhausts
  BY <1>2 DEF Returns, Exhausts, CallEnds, ReservationInv, ReservationIntact
<1>3. CASE UNCHANGED vars
  BY <1>3 DEF vars, ReservationInv, ReservationIntact
<1>4. QED  BY <1>1, <1>2, <1>3, GuestStep, HostFunctionStep DEF Next

(* No call has reserved anything yet. *)
LEMMA ReservationInit == Init => ReservationInv
BY DEF Init, ReservationInv, ReservationIntact, Machine

(* A reservation never outlives a store, by the guest in either encoding or  *)
(* by a host function: the one held is that of the last LR.W since which      *)
(* nothing was stored, for every program.                                    *)
THEOREM ReservationsAreIntact == Spec => []ReservationIntact
<1>1. ReservationInv => ReservationIntact
  BY DEF ReservationInv
<1>2. QED  BY <1>1, ReservationInit, ReservationStep, PTL DEF Spec

(* SC.W reports success only for the intact reservation of its own address,  *)
(* and one that fails leaves memory alone, for every program.                *)
THEOREM ScIsConditional == Spec => ScNeedsReservation
<1>1. ReservationInv /\ [Next]_vars
        => [last'.op = "SC.W" /\ last'.rd # 0 /\ outcome' = "running" =>
              IF m'.x[last'.rd] = 0 THEN lr = last'.addr ELSE m'.mem = m.mem]_vars
  <2> SUFFICES ASSUME ReservationInv, Next,
                      last'.op = "SC.W", last'.rd # 0, outcome' = "running"
               PROVE  IF m'.x[last'.rd] = 0 THEN lr = last'.addr ELSE m'.mem = m.mem
    OBVIOUS
  <2>1. PICK i \in Program : Step(i)
    <3>1. (\E entry \in Entries, a0 \in Args : BeginCall(entry, a0)) => last'.op = "call"
      BY DEF BeginCall
    <3>2. Returns \/ Exhausts => last'.op = "end"
      BY DEF Returns, Exhausts, CallEnds
    <3>3. HostStep => last'.op = "host"
      BY DEF HostStep
    <3>4. QED  BY <3>1, <3>2, <3>3 DEF Next
  <2>2. last'.op = i.op /\ last'.rd = i.rd /\ last'.addr = m.x[i.rs1]
    BY <2>1 DEF Step
  <2>3. QED  BY <2>1, <2>2, GuestStep
<1>2. QED  BY <1>1, ReservationInit, ReservationStep, PTL DEF Spec, ScNeedsReservation

-----------------------------------------------------------------------------
(* Types: every word an instruction computes is a word. *)

(* Induction: a set of naturals with 0 and every successor has them all. *)
LEMMA NatInd ==
    ASSUME NEW S, 0 \in S, \A n \in Nat : n \in S => n + 1 \in S
    PROVE  Nat \subseteq S
<1> DEFINE T == Nat \ S
           R == OpToRel(<, Nat)
<1>1. SUFFICES ASSUME T # {} PROVE FALSE
  OBVIOUS
<1>2. IsWellFoundedOn(R, Nat)
  BY NatLessThanWellFounded
<1>3. \A y, z \in Nat : y < z => <<y, z>> \in R
  BY DEF OpToRel
<1>4. T \subseteq Nat
  OBVIOUS
<1> HIDE DEF R
<1>5. \E z \in T : \A y \in T : ~(<<y, z>> \in R)
  <2> HIDE DEF T
  <2>1. QED  BY <1>1, <1>2, <1>4, WFMin
<1>6. PICK z \in T : \A y \in T : ~(<<y, z>> \in R)
  BY <1>5
<1>7. z \in Nat /\ z # 0
  OBVIOUS
<1>8. z - 1 \in Nat /\ z - 1 < z /\ (z - 1) + 1 = z
  BY <1>7
<1>9. z - 1 \in T
  BY <1>7, <1>8
<1>10. QED  BY <1>3, <1>6, <1>7, <1>8, <1>9

(* The powers of two satisfy their recursion. *)
LEMMA Pow2Unfold == Pow2 = [k \in 0 .. Xlen |-> IF k = 0 THEN 1 ELSE 2 * Pow2[k - 1]]
<1> DEFINE Rec(g, n) == g = [k \in 0 .. n |-> IF k = 0 THEN 1 ELSE 2 * g[k - 1]]
           P(n) == \E g : Rec(g, n)
           S == {n \in Nat : P(n)}
<1>1. P(0)
  <2>1. Rec([k \in 0 .. 0 |-> 1], 0)
    OBVIOUS
  <2> HIDE DEF Rec
  <2>2. QED  BY <2>1
<1>2. ASSUME NEW n \in Nat, P(n)
      PROVE  P(n + 1)
  <2>1. PICK g : Rec(g, n)
    BY <1>2
  <2> DEFINE h == [k \in 0 .. n + 1 |-> IF k = n + 1 THEN 2 * g[n] ELSE g[k]]
  <2>2. Rec(h, n + 1)
    <3>1. \A k \in 0 .. n : h[k] = g[k] /\ g[k] = IF k = 0 THEN 1 ELSE 2 * g[k - 1]
      BY <2>1
    <3>2. \A k \in 0 .. n + 1 : h[k] = IF k = 0 THEN 1 ELSE 2 * h[k - 1]
      BY <3>1
    <3>3. QED  BY <3>2
  <2> HIDE DEF Rec, h
  <2>3. QED  BY <2>2
<1>3. P(Xlen)
  <2> HIDE DEF P
  <2>1. 0 \in S /\ \A n \in Nat : n \in S => n + 1 \in S
    BY <1>1, <1>2
  <2>2. Nat \subseteq S
    <3> HIDE DEF S
    <3>1. QED  BY <2>1, NatInd
  <2>3. QED  BY <2>2, CpuAssumption
<1>4. QED  BY <1>3 DEF Pow2

(* Powers of two are positive and double; the last is the number of words. *)
LEMMA Pow2Values ==
    /\ Pow2 \in [0 .. Xlen -> Nat \ {0}] /\ Pow2[0] = 1 /\ Pow2[Xlen] = WordSize
    /\ \A k \in 0 .. Xlen - 1 : Pow2[k + 1] = 2 * Pow2[k]
    /\ \A k \in 0 .. Xlen : k < Pow2[k]
<1> DEFINE S == {n \in Nat : n <= Xlen => Pow2[n] \in Nat /\ n < Pow2[n]}
<1>0. Xlen \in Nat \ {0} /\ Pow2[Xlen] = WordSize
  BY CpuAssumption
<1>1. \A k \in 0 .. Xlen : Pow2[k] = IF k = 0 THEN 1 ELSE 2 * Pow2[k - 1]
  BY Pow2Unfold
<1>2. 0 \in S
  BY <1>0, <1>1
<1>3. ASSUME NEW n \in Nat, n \in S
      PROVE  n + 1 \in S
  <2> SUFFICES ASSUME n + 1 <= Xlen
               PROVE  Pow2[n + 1] \in Nat /\ n + 1 < Pow2[n + 1]
    OBVIOUS
  <2>1. Pow2[n + 1] = 2 * Pow2[n]
    BY <1>0, <1>1
  <2>2. QED  BY <1>0, <1>3, <2>1
<1>4. Nat \subseteq S
  <2> HIDE DEF S
  <2>1. QED  BY <1>2, <1>3, NatInd
<1>5. \A k \in 0 .. Xlen : Pow2[k] \in Nat /\ k < Pow2[k]
  BY <1>0, <1>4
<1>6. DOMAIN Pow2 = 0 .. Xlen /\ Pow2 = [k \in 0 .. Xlen |-> Pow2[k]]
  BY Pow2Unfold
<1>7. Pow2 \in [0 .. Xlen -> Nat \ {0}]
  BY <1>5, <1>6
<1>8. \A k \in 0 .. Xlen - 1 : Pow2[k + 1] = 2 * Pow2[k]
  BY <1>0, <1>1
<1>9. QED  BY <1>0, <1>1, <1>5, <1>7, <1>8

(* Bits put together from the lowest are a word. *)
LEMMA FromBitsWord ==
    ASSUME NEW bits \in [0 .. Xlen - 1 -> {0, 1}]
    PROVE  FromBits(bits) \in Word
<1> DEFINE Rec(g, n) == g = [k \in 0 .. n |-> IF k = 0 THEN 0
                                              ELSE g[k - 1] + bits[k - 1] * Pow2[k - 1]]
           P(n) == n <= Xlen => \E g \in [0 .. n -> Nat] : Rec(g, n)
           S == {n \in Nat : P(n)}
           f[k \in 0 .. Xlen] == IF k = 0 THEN 0 ELSE f[k - 1] + bits[k - 1] * Pow2[k - 1]
           B == {n \in Nat : n <= Xlen => f[n] \in 0 .. Pow2[n] - 1}
<1>0. Xlen \in Nat \ {0}
  BY CpuAssumption
<1>1. P(0)
  <2>1. Rec([k \in 0 .. 0 |-> 0], 0)
    OBVIOUS
  <2> HIDE DEF Rec
  <2>2. QED  BY <2>1
<1>2. ASSUME NEW n \in Nat, P(n)
      PROVE  P(n + 1)
  <2> SUFFICES ASSUME n + 1 <= Xlen
               PROVE  \E g \in [0 .. n + 1 -> Nat] : Rec(g, n + 1)
    OBVIOUS
  <2>0. n <= Xlen
    BY <1>0
  <2>1. PICK g \in [0 .. n -> Nat] : Rec(g, n)
    <3> HIDE DEF Rec
    <3>1. QED  BY <1>2, <2>0
  <2> DEFINE new == g[n] + bits[n] * Pow2[n]
             h == [k \in 0 .. n + 1 |-> IF k = n + 1 THEN new ELSE g[k]]
  <2>2. bits[n] \in {0, 1} /\ Pow2[n] \in Nat
    BY <1>0, Pow2Values
  <2>3. new \in Nat
    BY <2>2
  <2>4. h \in [0 .. n + 1 -> Nat]
    <3> HIDE DEF new
    <3>1. QED  BY <2>3
  <2>5. Rec(h, n + 1)
    <3>1. \A k \in 0 .. n : h[k] = g[k]
             /\ g[k] = IF k = 0 THEN 0 ELSE g[k - 1] + bits[k - 1] * Pow2[k - 1]
      BY <2>1
    <3>2. h[n + 1] = g[n] + bits[n] * Pow2[n] /\ DOMAIN h = 0 .. n + 1
          /\ h = [k \in 0 .. n + 1 |-> h[k]]
      OBVIOUS
    <3> HIDE DEF h
    <3>3. ASSUME NEW k \in 0 .. n + 1
          PROVE  h[k] = IF k = 0 THEN 0 ELSE h[k - 1] + bits[k - 1] * Pow2[k - 1]
      <4>1. CASE k \in 0 .. n
        BY <3>1, <4>1
      <4>2. CASE k = n + 1
        <5>1. k # 0 /\ k - 1 = n /\ n \in 0 .. n
          BY <4>2
        <5>2. QED  BY <3>1, <3>2, <4>2, <5>1
      <4>3. QED  BY <4>1, <4>2
    <3>4. QED  BY <3>2, <3>3
  <2> HIDE DEF Rec, h
  <2>6. QED  BY <2>4, <2>5
<1>3. P(Xlen)
  <2> HIDE DEF P
  <2>1. 0 \in S /\ \A n \in Nat : n \in S => n + 1 \in S
    BY <1>1, <1>2
  <2>2. Nat \subseteq S
    <3> HIDE DEF S
    <3>1. QED  BY <2>1, NatInd
  <2>3. QED  BY <1>0, <2>2
<1>4. f = [k \in 0 .. Xlen |-> IF k = 0 THEN 0 ELSE f[k - 1] + bits[k - 1] * Pow2[k - 1]]
  <2>1. \E g : Rec(g, Xlen)
    BY <1>0, <1>3
  <2>2. QED  BY <2>1
<1>5. \A k \in 0 .. Xlen : f[k] = IF k = 0 THEN 0 ELSE f[k - 1] + bits[k - 1] * Pow2[k - 1]
  <2> HIDE DEF f
  <2>1. QED  BY <1>4
<1>6. FromBits(bits) = f[Xlen]
  BY DEF FromBits
<1> HIDE DEF f
<1>7. 0 \in B
  BY <1>0, <1>5, Pow2Values
<1>8. ASSUME NEW n \in Nat, n \in B
      PROVE  n + 1 \in B
  <2> SUFFICES ASSUME n + 1 <= Xlen
               PROVE  f[n + 1] \in 0 .. Pow2[n + 1] - 1
    OBVIOUS
  <2>1. f[n + 1] = f[n] + bits[n] * Pow2[n]
    BY <1>0, <1>5
  <2>2. bits[n] \in {0, 1} /\ Pow2[n] \in Nat /\ Pow2[n + 1] = 2 * Pow2[n]
    BY <1>0, Pow2Values
  <2>3. bits[n] * Pow2[n] \in 0 .. Pow2[n]
    BY <2>2
  <2>4. QED  BY <1>0, <1>8, <2>1, <2>2, <2>3
<1>9. Xlen \in B
  <2> HIDE DEF B
  <2>1. QED  BY <1>0, <1>7, <1>8, NatInd
<1>10. QED  BY <1>0, <1>6, <1>9, Pow2Values DEF Word

(* Words. *)
LEMMA WordFacts ==
    /\ ByteSize \in Nat /\ ByteSize >= 2
    /\ WordSize \in Nat /\ WordSize >= 16
    /\ \E h \in Nat : WordSize = 2 * h
<1>1. ByteSize \in Nat /\ ByteSize >= 2
  BY CpuAssumption
<1> DEFINE B2 == ByteSize * ByteSize
<1>2. B2 \in Nat /\ B2 >= 4
  BY <1>1
<1>3. WordSize = B2 * B2
  BY <1>1 DEF WordSize
<1> HIDE DEF B2
<1>4. WordSize \in Nat /\ WordSize >= 16
  BY <1>2, <1>3
<1>5. \E h \in Nat : WordSize = 2 * h
  <2>1. Xlen \in Nat \ {0} /\ Xlen - 1 \in 0 .. Xlen - 1 /\ Xlen - 1 \in 0 .. Xlen
    BY CpuAssumption
  <2>2. Pow2[(Xlen - 1) + 1] = 2 * Pow2[Xlen - 1] /\ Pow2[Xlen - 1] \in Nat
    BY <2>1, Pow2Values
  <2>3. (Xlen - 1) + 1 = Xlen
    BY <2>1
  <2>4. QED  BY <2>2, <2>3, Pow2Values
<1>6. QED  BY <1>1, <1>4, <1>5

(* What is wrapped is a word. *)
LEMMA WrapWord == \A n \in Int : W(n) \in Word
BY WordFacts DEF W, Word
(* Wrapping a word changes nothing. *)
LEMMA WrapOfWord == \A n \in Word : W(n) = n
BY WordFacts DEF W, Word
(* A word read as a signed number is a number. *)
LEMMA SignedInt == \A v \in Word : Signed(v) \in Int
BY WordFacts DEF Signed, Word
(* Dividing and taking the remainder lose nothing. *)
LEMMA DivMod ==
    ASSUME NEW a \in Int, NEW d \in Nat \ {0}
    PROVE  a = d * (a \div d) + (a % d)
BY Z3
(* The remainder is one. *)
LEMMA DivModTypes ==
    ASSUME NEW a \in Int, NEW d \in Nat \ {0}
    PROVE  a \div d \in Int /\ a % d \in 0 .. d - 1
OBVIOUS
(* A quotient of naturals is no greater than what is divided. *)
LEMMA DivNat ==
    ASSUME NEW a \in Nat, NEW d \in Nat \ {0}
    PROVE  a \div d \in 0 .. a
<1> DEFINE q == a \div d
           r == a % d
<1>1. a = d * q + r /\ q \in Int /\ r \in 0 .. d - 1
  BY DivMod, DivModTypes
<1> HIDE DEF q, r
<1>2. q < 0 => d * q <= -d
  BY <1>1
<1>3. q \in Nat
  BY <1>1, <1>2
<1>4. q <= d * q
  BY <1>3
<1>5. QED  BY <1>1, <1>3, <1>4 DEF q

(* Memory: what is loaded is a word, what is stored are bytes. *)
MachineType == [x : [Reg -> Word], pc : Word, mem : [0 .. MemSize - 1 -> Byte],
                resv : Word \cup {NoAddr}]
Typed(s) == s \in MachineType /\ s.x[0] = 0
Fine(r) == /\ Typed(r.m) /\ r.trap \in BOOLEAN
           /\ ~r.trap => r.class \in DOMAIN InstructionCycles

(* What is loaded, byte by byte, is a word. *)
LEMMA LoadWord ==
    ASSUME NEW mem \in [0 .. MemSize - 1 -> Byte], NEW a \in Word, NEW n \in {1, 2, 4}
    PROVE  Load(mem, a, n) \in Word
<1> DEFINE B == ByteSize
           B2 == B * B
<1>1. ASSUME NEW b \in Word
      PROVE  ByteAt(mem, b) \in 0 .. B - 1
  BY WordFacts, CpuAssumption DEF ByteAt, Mapped, Byte, Word
<1>2. B2 \in Nat /\ B2 >= 4 /\ B <= B2 /\ WordSize = B2 * B2 /\ B2 <= WordSize
  <2>1. B2 \in Nat /\ B2 >= 4 /\ B <= B2
    BY WordFacts
  <2>2. WordSize = B2 * B2
    BY WordFacts DEF WordSize
  <2> HIDE DEF B2
  <2>3. QED  BY <2>1, <2>2
<1>3. ASSUME NEW b \in Word
      PROVE  Half(mem, b) \in 0 .. B2 - 1
  <2>1. W(b + 1) \in Word
    BY WrapWord DEF Word
  <2> DEFINE lo == ByteAt(mem, b)
             hi == ByteAt(mem, W(b + 1))
  <2>2. lo \in 0 .. B - 1 /\ hi \in 0 .. B - 1
    BY <1>1, <2>1
  <2> HIDE DEF lo, hi
  <2>3. B * hi \in 0 .. B2 - B
    <3>1. B * hi <= B * (B - 1)
      BY <2>2, WordFacts
    <3>2. QED  BY <2>2, <3>1, WordFacts
  <2>4. lo + B * hi \in 0 .. B2 - 1
    BY <1>2, <2>2, <2>3, WordFacts
  <2>5. QED  BY <2>4 DEF Half, lo, hi
<1> HIDE DEF B2
<1>4. CASE n = 1
  BY <1>1, <1>2, <1>4, WordFacts DEF Load, Word
<1>5. CASE n = 2
  BY <1>2, <1>3, <1>5, WordFacts DEF Load, Word
<1>6. CASE n = 4
  <2>1. W(a + 2) \in Word
    BY WrapWord DEF Word
  <2> DEFINE lo == Half(mem, a)
             hi == Half(mem, W(a + 2))
  <2>2. lo \in 0 .. B2 - 1 /\ hi \in 0 .. B2 - 1
    BY <1>3, <2>1
  <2>3. Load(mem, a, n) = lo + B2 * hi
    BY <1>6 DEF Load, B2
  <2> HIDE DEF lo, hi
  <2>4. B2 * hi \in 0 .. WordSize - B2
    <3>1. B2 * hi <= B2 * (B2 - 1)
      BY <1>2, <2>2
    <3>2. QED  BY <1>2, <2>2, <3>1
  <2>5. QED  BY <1>2, <2>2, <2>3, <2>4 DEF Word
<1>7. QED  BY <1>4, <1>5, <1>6

(* A store leaves bytes in memory. *)
LEMMA StoreTyped ==
    ASSUME NEW s, Typed(s), NEW a \in Word, NEW n \in {1, 2, 4}, NEW v \in Word
    PROVE  Typed(Store(s, a, n, v))
<1>1. Written(s.mem, a, n, v) \in [0 .. MemSize - 1 -> Byte]
  <2>1. s.mem \in [0 .. MemSize - 1 -> Byte] /\ Base \in Nat /\ a \in Nat /\ v \in Nat
    BY CpuAssumption DEF Typed, MachineType, Word
  <2>2. ASSUME NEW k \in 0 .. 3
        PROVE  (v \div Units[k]) % ByteSize \in Byte
    <3>1. Units[k] \in Nat \ {0}
      <4>1. ByteSize * ByteSize \in Nat \ {0} /\ ByteSize * ByteSize * ByteSize \in Nat \ {0}
        BY WordFacts
      <4>2. QED  BY <4>1, WordFacts DEF Units
    <3>2. v \div Units[k] \in Int
      <4> DEFINE d == Units[k]
      <4> HIDE DEF d
      <4>1. QED  BY <2>1, <3>1, DivNat DEF d
    <3> DEFINE q == v \div Units[k]
    <3> HIDE DEF q
    <3>3. QED  BY <3>2, WordFacts DEF Byte, q
  <2>3. ASSUME NEW o \in 0 .. MemSize - 1, o \in a - Base .. a - Base + n - 1
        PROVE  o - (a - Base) \in 0 .. 3
    BY <2>1, <2>3
  <2>4. QED  BY <2>1, <2>2, <2>3 DEF Written
<1>2. QED  BY <1>1 DEF Store, Typed, MachineType

(* Setting a register to a word keeps the types. *)
LEMMA SetTyped ==
    ASSUME NEW s, Typed(s), NEW r \in Reg, NEW v \in Word
    PROVE  Typed(Set(s, r, v))
BY DEF Set, Typed, MachineType
(* So does reserving an address, or none. *)
LEMMA ReserveTyped ==
    ASSUME NEW s, Typed(s), NEW a \in Word \cup {NoAddr}
    PROVE  Typed([s EXCEPT !.resv = a])
BY DEF Typed, MachineType
(* So does retiring. *)
LEMMA DoneTyped ==
    ASSUME NEW s, Typed(s), NEW pc \in Word, NEW class \in DOMAIN InstructionCycles
    PROVE  Fine(Done(s, pc, class))
BY WordFacts DEF Done, Fine, Typed, MachineType, Word
(* So does trapping. *)
LEMMA TrapTyped ==
    ASSUME NEW s, Typed(s)
    PROVE  Fine(Trap(s))
BY DEF Trap, Fine
(* A register holds a word. *)
LEMMA RegisterWord ==
    ASSUME NEW s, Typed(s), NEW r \in Reg
    PROVE  s.x[r] \in Word
BY DEF Typed, MachineType

(* Arithmetic: what an instruction computes is a word. *)
LEMMA BitwiseWord ==
    ASSUME NEW a, NEW b
    PROVE  And(a, b) \in Word /\ Or(a, b) \in Word /\ Xor(a, b) \in Word
BY FromBitsWord DEF And, Or, Xor

(* A shift of a word is a word. *)
LEMMA ShiftWord ==
    ASSUME NEW a \in Word, NEW n \in 0 .. Xlen
    PROVE  Sll(a, n) \in Word /\ Srl(a, n) \in Word /\ Sra(a, n) \in Word
<1> DEFINE d == Pow2[n]
<1>1. d \in Nat \ {0}
  BY Pow2Values
<1> HIDE DEF d
<1>2. W(a * d) \in Word
  <2>1. a * d \in Int
    BY <1>1 DEF Word
  <2> QED  BY <2>1, WrapWord
<1>3. a \div d \in Word
  BY <1>1, DivNat, WordFacts DEF Word
<1>4. W(Signed(a) \div d) \in Word
  <2>1. Signed(a) \div d \in Int
    BY <1>1, SignedInt
  <2> QED  BY <2>1, WrapWord
<1>5. QED  BY <1>2, <1>3, <1>4 DEF Sll, Srl, Sra, d

(* So is what the arithmetic and logic operations compute, *)
LEMMA AluWord ==
    ASSUME NEW op \in AluOps, NEW a \in Word, NEW b \in Word
    PROVE  Alu(op, a, b) \in Word
<1>1. {W(a + b), W(a - b), Truth(Signed(a) < Signed(b)), Truth(a < b)} \subseteq Word
  <2>1. a + b \in Int /\ a - b \in Int
    BY DEF Word
  <2>2. 0 \in Word /\ 1 \in Word
    BY WordFacts DEF Word
  <2>3. QED  BY <2>1, <2>2, WrapWord DEF Truth
<1>2. b % Xlen \in 0 .. Xlen
  <2>1. Xlen \in Nat \ {0} /\ b \in Int
    BY CpuAssumption DEF Word
  <2>2. b % Xlen \in 0 .. Xlen - 1
    BY <2>1, DivModTypes
  <2>3. QED  BY <2>1, <2>2
<1>3. {Sll(a, b % Xlen), Srl(a, b % Xlen), Sra(a, b % Xlen)} \subseteq Word
  BY <1>2, ShiftWord
<1>4. {And(a, b), Or(a, b), Xor(a, b)} \subseteq Word
  BY BitwiseWord
<1>5. QED  BY <1>1, <1>3, <1>4 DEF Alu, AluOps

(* The product of two words has two words. *)
LEMMA HighWord ==
    ASSUME NEW a \in Word, NEW b \in Word
    PROVE  (a * b) \div WordSize \in Word
<1> DEFINE N == WordSize
           p == a * b
           q == p \div N
<1>1. N \in Nat \ {0} /\ a \in 0 .. N - 1 /\ b \in 0 .. N - 1
  BY WordFacts DEF Word
<1> HIDE DEF N
<1>2. p \in Nat /\ p <= (N - 1) * (N - 1)
  <2>1. a * b <= a * (N - 1)
    BY <1>1
  <2>2. a * (N - 1) <= (N - 1) * (N - 1)
    BY <1>1
  <2>3. a * b \in Nat /\ a * (N - 1) \in Nat /\ (N - 1) * (N - 1) \in Nat
    BY <1>1
  <2>4. QED  BY <2>1, <2>2, <2>3
<1>3. p < N * N
  BY <1>1, <1>2
<1> HIDE DEF p
<1> DEFINE r == p % N
<1>4. p = N * q + r /\ r \in 0 .. N - 1 /\ q \in Nat
  <2>1. p = N * q + r
    BY <1>1, <1>2, DivMod
  <2>2. r \in 0 .. N - 1
    BY <1>1, <1>2, DivModTypes
  <2>3. q \in Nat
    BY <1>1, <1>2, DivNat
  <2>4. QED  BY <2>1, <2>2, <2>3
<1> HIDE DEF q, r
<1>5. q >= N => N * q >= N * N
  BY <1>1, <1>4
<1>6. q \in 0 .. N - 1
  BY <1>1, <1>2, <1>3, <1>4, <1>5
<1>7. QED  BY <1>6 DEF q, p, N, Word

(* what multiplication and division write, *)
LEMMA MulDivWord ==
    ASSUME NEW a \in Word, NEW b \in Word, NEW op \in MulOps \cup DivOps
    PROVE  MulDiv(a, b)[op] \in Word
<1> DEFINE sa == Signed(a)
           sb == Signed(b)
           d == SignedDivide(sa, sb)
<1>1. sa \in Int /\ sb \in Int /\ a \in Nat /\ b \in Nat /\ WordSize \in Nat \ {0}
  BY SignedInt, WordFacts DEF Word
<1>2. W(a * b) \in Word /\ W((sa * sb) \div WordSize) \in Word /\ W((sa * b) \div WordSize) \in Word
  <2> HIDE DEF sa, sb
  <2>1. a * b \in Int /\ sa * sb \in Int /\ sa * b \in Int
    BY <1>1
  <2>2. (sa * sb) \div WordSize \in Int /\ (sa * b) \div WordSize \in Int
    BY <1>1, <2>1, DivModTypes
  <2>3. QED  BY <2>1, <2>2, WrapWord
<1>3. d.q \in Int /\ d.r \in Int
  <2> HIDE DEF sa, sb
  <2>1. CASE sb = 0
    BY <1>1, <2>1 DEF SignedDivide
  <2>2. CASE sb # 0
    <3> DEFINE t == Abs(sa) \div Abs(sb)
    <3>1. Abs(sa) \in Nat /\ Abs(sb) \in Nat \ {0}
      BY <1>1, <2>2 DEF Abs
    <3>2. t \in Int
      BY <3>1, DivNat
    <3> HIDE DEF t
    <3>3. Quotient(sa, sb) \in Int
      BY <3>2 DEF Quotient, t
    <3> DEFINE q == Quotient(sa, sb)
    <3> HIDE DEF q
    <3>4. q \in Int /\ sa - sb * q \in Int
      BY <1>1, <3>3 DEF q
    <3>5. QED  BY <1>1, <2>2, <3>4 DEF SignedDivide, q
  <2>3. QED  BY <2>1, <2>2
<1>4. W(d.q) \in Word /\ W(d.r) \in Word
  <2> HIDE DEF d
  <2>1. QED  BY <1>3, WrapWord
<1>5. (IF b = 0 THEN WordSize - 1 ELSE a \div b) \in Word
  <2>1. CASE b = 0
    BY <1>1, <2>1 DEF Word
  <2>2. CASE b # 0
    <3>1. a \div b \in 0 .. a
      BY <1>1, <2>2, DivNat
    <3>2. QED  BY <1>1, <2>2, <3>1 DEF Word
  <2>3. QED  BY <2>1, <2>2
<1>6. (IF b = 0 THEN a ELSE a % b) \in Word
  <2>1. CASE b = 0
    BY <2>1
  <2>2. CASE b # 0
    <3>1. a % b \in 0 .. b - 1
      BY <1>1, <2>2, DivModTypes
    <3>2. b \in 0 .. WordSize - 1
      BY DEF Word
    <3>3. QED  BY <1>1, <2>2, <3>1, <3>2 DEF Word
  <2>3. QED  BY <2>1, <2>2
<1>7. (a * b) \div WordSize \in Word
  BY HighWord
<1>8. QED  BY <1>2, <1>4, <1>5, <1>6, <1>7 DEF MulDiv, MulOps, DivOps

(* and what an AMO stores. *)
LEMMA AmoWord ==
    ASSUME NEW op \in AmoOps, NEW a \in Word, NEW b \in Word
    PROVE  Amo(op, a, b) \in Word
<1>1. W(a + b) \in Word
  BY WrapWord DEF Word
<1>2. QED  BY <1>1, BitwiseWord DEF Amo, AmoOps

(* The 32-bit instructions keep the types. *)
LEMMA ResultSet ==
    ASSUME NEW s, Typed(s), NEW r \in Reg, NEW v \in Word, NEW pc \in Word,
           NEW class \in DOMAIN InstructionCycles
    PROVE  Fine(Done(Set(s, r, v), pc, class))
BY SetTyped, DoneTyped

(* A branch keeps the types. *)
LEMMA BranchFine ==
    ASSUME NEW s, Typed(s), NEW i, {i.rd, i.rs1, i.rs2} \subseteq Reg, i.imm \in Int,
           NEW next \in Word
    PROVE  Fine(ExecBranch(s, i, next))
<1>1. W(s.pc + i.imm) \in Word
  <2>1. s.pc \in Word
    BY DEF Typed, MachineType
  <2>2. s.pc + i.imm \in Int
    BY <2>1 DEF Word
  <2>3. QED  BY <2>2, WrapWord
<1>2. {"BranchTaken", "BranchNotTaken"} \subseteq DOMAIN InstructionCycles
  BY DEF InstructionCycles
<1>3. QED  BY <1>1, <1>2, DoneTyped DEF ExecBranch

(* An address is a word. *)
LEMMA AddressWord ==
    ASSUME NEW s, Typed(s), NEW r \in Reg, NEW n \in Int
    PROVE  W(s.x[r] + n) \in Word
BY RegisterWord, WrapWord DEF Word

(* A load keeps the types. *)
LEMMA LoadFine ==
    ASSUME NEW s, Typed(s), NEW i, {i.rd, i.rs1, i.rs2} \subseteq Reg, i.imm \in Int,
           NEW next \in Word, i.op \in DOMAIN LoadSize
    PROVE  Fine(ExecLoad(s, i, next))
<1> DEFINE a == W(s.x[i.rs1] + i.imm)
           n == LoadSize[i.op]
           v == Load(s.mem, a, n)
           w == IF i.op \in {"LB", "LH"} THEN Sext(v, Units[n]) ELSE v
<1>1. a \in Word /\ n \in {1, 2, 4} /\ s.mem \in [0 .. MemSize - 1 -> Byte]
  BY AddressWord DEF LoadSize, Typed, MachineType
<1>2. v \in Word
  <2> HIDE DEF a, n
  <2>1. QED  BY <1>1, LoadWord
<1>3. i.op \in {"LB", "LH"} => Sext(v, Units[n]) \in Word
  <2> SUFFICES ASSUME i.op \in {"LB", "LH"}
               PROVE  Sext(v, Units[n]) \in Word
    OBVIOUS
  <2>1. n \in {1, 2}
    BY DEF LoadSize
  <2>2. Units[n] \in Int
    <3>1. ByteSize * ByteSize \in Int
      BY WordFacts
    <3> HIDE DEF n
    <3>2. QED  BY <2>1, <3>1, WordFacts DEF Units
  <2> HIDE DEF v, n
  <2>3. (IF 2 * v >= Units[n] THEN v - Units[n] ELSE v) \in Int
    BY <1>2, <2>2 DEF Word
  <2>4. QED  BY <2>3, WrapWord DEF Sext
<1>4. w \in Word
  <2> HIDE DEF v, n
  <2>1. QED  BY <1>2, <1>3
<1>5. "Load" \in DOMAIN InstructionCycles
  BY DEF InstructionCycles
<1> HIDE DEF w
<1>6. Fine(Done(Set(s, i.rd, w), next, "Load")) /\ Fine(Trap(s))
  BY <1>4, <1>5, ResultSet, TrapTyped
<1>7. QED  BY <1>6 DEF ExecLoad, w

(* A store keeps the types. *)
LEMMA StoreFine ==
    ASSUME NEW s, Typed(s), NEW i, {i.rd, i.rs1, i.rs2} \subseteq Reg, i.imm \in Int,
           NEW next \in Word, i.op \in DOMAIN StoreSize
    PROVE  Fine(ExecStore(s, i, next))
<1> DEFINE a == W(s.x[i.rs1] + i.imm)
           n == StoreSize[i.op]
           v == s.x[i.rs2]
<1>1. a \in Word /\ n \in {1, 2, 4} /\ v \in Word
  BY AddressWord, RegisterWord DEF StoreSize
<1>2. "Store" \in DOMAIN InstructionCycles
  BY DEF InstructionCycles
<1> HIDE DEF a, n, v
<1>3. Fine(Done(Store(s, a, n, v), next, "Store")) /\ Fine(Trap(s))
  BY <1>1, <1>2, StoreTyped, DoneTyped, TrapTyped
<1>4. QED  BY <1>3 DEF ExecStore, a, n, v

(* LR.W, SC.W and the AMOs keep the types. *)
LEMMA AtomicFine ==
    ASSUME NEW s, Typed(s), NEW i, {i.rd, i.rs1, i.rs2} \subseteq Reg, NEW next \in Word,
           i.op \in {"LR.W", "SC.W"} \cup AmoOps
    PROVE  Fine(ExecAtomic(s, i, next))
<1> DEFINE a == s.x[i.rs1]
           b == s.x[i.rs2]
           old == Load(s.mem, a, 4)
           new == Amo(i.op, old, b)
           reserved == LoadReserved(s, i.rd, a)
           conditional == StoreConditional(s, i.rd, a, b)
           swapped == Set(Store(s, a, 4, new), i.rd, old)
           t == IF i.op = "LR.W" THEN reserved
                ELSE IF i.op = "SC.W" THEN conditional ELSE swapped
<1>1. a \in Word /\ b \in Word /\ 0 \in Word /\ 1 \in Word
      /\ s.mem \in [0 .. MemSize - 1 -> Byte]
  BY RegisterWord, WordFacts DEF Word, Typed, MachineType
<1> HIDE DEF a, b
<1>2. old \in Word
  BY <1>1, LoadWord
<1> HIDE DEF old
<1>3. i.op \in AmoOps => new \in Word
  BY <1>1, <1>2, AmoWord
<1> HIDE DEF new
<1>4. Typed(reserved)
  BY <1>1, <1>2, ReserveTyped, SetTyped DEF LoadReserved, old
<1>5. Typed(conditional)
  <2>1. Typed(IF Holds(s, a) THEN Set(Store(s, a, 4, b), i.rd, 0) ELSE Set(s, i.rd, 1))
    BY <1>1, StoreTyped, SetTyped
  <2>2. QED  BY <2>1, ReserveTyped DEF StoreConditional
<1>6. i.op \in AmoOps => Typed(swapped)
  BY <1>1, <1>2, <1>3, StoreTyped, SetTyped
<1> HIDE DEF reserved, conditional, swapped
<1>7. Typed(t)
  BY <1>4, <1>5, <1>6
<1>8. "Atomic" \in DOMAIN InstructionCycles
  BY DEF InstructionCycles
<1> HIDE DEF t
<1>9. Fine(Done(t, next, "Atomic")) /\ Fine(Trap(t)) /\ Fine(Trap(s))
  BY <1>7, <1>8, DoneTyped, TrapTyped
<1>10. \/ ExecAtomic(s, i, next) = Trap(s)
       \/ ExecAtomic(s, i, next) = Trap(t)
       \/ ExecAtomic(s, i, next) = Done(t, next, "Atomic")
  BY DEF ExecAtomic, t, reserved, conditional, swapped, new, old, a, b
<1>11. QED  BY <1>9, <1>10

Counters(c) == c.retired \in Nat /\ c.cycles \in Nat
(* ECALL, EBREAK and the counters' reads keep the types. *)
LEMMA SystemFine ==
    ASSUME NEW s, Typed(s), NEW i, {i.rd, i.rs1, i.rs2} \subseteq Reg, NEW next \in Word,
           NEW c, Counters(c)
    PROVE  Fine(ExecSystem(s, i, next, c))
<1> DEFINE k == Counter(c, i.csr)
           v == IF i.high THEN W(k \div WordSize) ELSE W(k)
<1>1. k \in Int
  BY DEF Counter, Counters, Nanoseconds
<1> HIDE DEF k
<1>2. v \in Word
  <2>1. k \div WordSize \in Int
    BY <1>1, WordFacts, DivModTypes
  <2>2. QED  BY <1>1, <2>1, WrapWord
<1> HIDE DEF v
<1>3. ReturnSentinel \in Word
  BY WordFacts DEF ReturnSentinel, Word
<1>4. "Csr" \in DOMAIN InstructionCycles
  BY DEF InstructionCycles
<1>5. Fine(Done(s, ReturnSentinel, "Csr")) /\ Fine(Trap(s)) /\ Fine(Done(Set(s, i.rd, v), next, "Csr"))
  BY <1>2, <1>3, <1>4, ResultSet, DoneTyped, TrapTyped
<1>6. QED  BY <1>5 DEF ExecSystem, v, k

(* Every 32-bit instruction keeps the types. *)
LEMMA Fine32 ==
    ASSUME NEW s, Typed(s), NEW i, {i.rd, i.rs1, i.rs2} \subseteq Reg, i.imm \in Int,
           NEW next \in Word, NEW c, Counters(c)
    PROVE  Fine(Exec32(s, i, next, c))
<1> DEFINE a == s.x[i.rs1]
           b == s.x[i.rs2]
           r == Exec32(s, i, next, c)
           Known == {"LUI", "AUIPC", "JAL", "JALR", "FENCE", "ECALL", "EBREAK", "CSRR"}
<1> USE DEF BranchOps, LoadSize, StoreSize, ImmOp, AluOps, MulOps, DivOps, AmoOps
<1>1. a \in Word /\ b \in Word /\ s.pc \in Word
  BY RegisterWord DEF Typed, MachineType
<1>2. W(i.imm) \in Word /\ W(s.pc + i.imm) \in Word /\ W(a + i.imm) \in Word
  BY <1>1, WrapWord DEF Word
<1> HIDE DEF a, b
<1>3. {"Alu", "Shift", "Jump", "Multiply", "Divide", "Fence"} \subseteq DOMAIN InstructionCycles
  BY DEF InstructionCycles
<1>4. CASE i.op \in {"LUI", "AUIPC", "JAL"}
  <2>1. \/ r = Done(Set(s, i.rd, W(i.imm)), next, "Alu")
        \/ r = Done(Set(s, i.rd, W(s.pc + i.imm)), next, "Alu")
        \/ r = Done(Set(s, i.rd, next), W(s.pc + i.imm), "Jump")
    BY <1>4 DEF Exec32
  <2>2. QED  BY <1>2, <1>3, <2>1, ResultSet
<1>5. CASE i.op = "JALR"
  <2> DEFINE j == W(a + i.imm)
             to == (j \div 2) * 2
  <2>1. to \in Word
    <3>1. j \in Nat /\ j < WordSize
      BY <1>2, WordFacts DEF Word
    <3> HIDE DEF j
    <3>2. to \in 0 .. j
      BY <3>1
    <3> HIDE DEF to
    <3>3. QED  BY <3>1, <3>2, WordFacts DEF Word
  <2>2. r = Done(Set(s, i.rd, next), to, "Jump")
    BY <1>5 DEF Exec32, a
  <2> HIDE DEF to
  <2>3. QED  BY <1>3, <2>1, <2>2, ResultSet
<1>6. CASE i.op \in BranchOps
  <2>1. r = ExecBranch(s, i, next)
    BY <1>6 DEF Exec32
  <2>2. QED  BY <2>1, BranchFine
<1>7. CASE i.op \in DOMAIN LoadSize
  <2>1. r = ExecLoad(s, i, next)
    BY <1>7 DEF Exec32
  <2>2. QED  BY <1>7, <2>1, LoadFine
<1>8. CASE i.op \in DOMAIN StoreSize
  <2>1. r = ExecStore(s, i, next)
    BY <1>8 DEF Exec32
  <2>2. QED  BY <1>8, <2>1, StoreFine
<1>9. CASE i.op \in DOMAIN ImmOp
  <2> DEFINE op == ImmOp[i.op]
             v == Alu(op, a, W(i.imm))
  <2>1. op \in AluOps
    BY <1>9
  <2>2. AluClass(op) \in DOMAIN InstructionCycles
    BY <1>3 DEF AluClass
  <2>3. r = Done(Set(s, i.rd, v), next, AluClass(op))
    BY <1>9 DEF Exec32, a
  <2> HIDE DEF op
  <2>4. v \in Word
    BY <1>1, <1>2, <2>1, AluWord
  <2> HIDE DEF v
  <2>5. QED  BY <2>2, <2>3, <2>4, ResultSet
<1>10. CASE i.op \in AluOps
  <2> DEFINE v == Alu(i.op, a, b)
  <2>1. v \in Word
    BY <1>1, <1>10, AluWord
  <2>2. AluClass(i.op) \in DOMAIN InstructionCycles
    BY <1>3 DEF AluClass
  <2>3. r = Done(Set(s, i.rd, v), next, AluClass(i.op))
    BY <1>10 DEF Exec32, a, b
  <2> HIDE DEF v
  <2>4. QED  BY <2>1, <2>2, <2>3, ResultSet
<1>11. CASE i.op \in MulOps \cup DivOps
  <2> DEFINE v == MulDiv(a, b)[i.op]
  <2>1. v \in Word
    BY <1>1, <1>11, MulDivWord
  <2>2. r = Done(Set(s, i.rd, v), next, "Multiply") \/ r = Done(Set(s, i.rd, v), next, "Divide")
    BY <1>11 DEF Exec32, a, b
  <2> HIDE DEF v
  <2>3. QED  BY <1>3, <2>1, <2>2, ResultSet
<1>12. CASE i.op \in {"LR.W", "SC.W"} \cup AmoOps
  <2>1. r = ExecAtomic(s, i, next)
    BY <1>12 DEF Exec32
  <2>2. QED  BY <1>12, <2>1, AtomicFine
<1>13. CASE i.op \in {"FENCE", "ECALL", "EBREAK", "CSRR"}
  <2>1. r = Done(s, next, "Fence") \/ r = ExecSystem(s, i, next, c)
    BY <1>13 DEF Exec32
  <2>2. QED  BY <1>3, <2>1, DoneTyped, SystemFine
<1>14. CASE i.op \notin Known \cup BranchOps \cup DOMAIN LoadSize \cup DOMAIN StoreSize
                   \cup DOMAIN ImmOp \cup AluOps \cup MulOps \cup DivOps
                   \cup {"LR.W", "SC.W"} \cup AmoOps
  <2>1. r = Trap(s)
    BY <1>14 DEF Exec32
  <2>2. QED  BY <2>1, TrapTyped
<1>15. QED  BY <1>4, <1>5, <1>6, <1>7, <1>8, <1>9, <1>10, <1>11, <1>12, <1>13, <1>14

(* The compressed instructions keep the types. *)
LEMMA ShiftsFine ==
    ASSUME NEW d \in Word, NEW n \in Nat, NEW u \in Word
    PROVE  /\ Shift(Srl(d, n), n, u) \in Word /\ Shift(Sra(d, n), n, u) \in Word
           /\ Shift(Sll(d, n), n, u) \in Word
<1>1. Xlen \in Nat
  BY CpuAssumption
<1>2. n < Xlen => n \in 0 .. Xlen
  BY <1>1
<1>3. QED  BY <1>2, ShiftWord DEF Shift

(* Every compressed instruction does. *)
LEMMA Fine16 ==
    ASSUME NEW s, Typed(s), NEW i, {i.rd, i.rs1, i.rs2} \subseteq Reg, i.imm \in Int,
           i.op \in {"C_SLLI", "C_SRLI", "C_SRAI"} => i.imm \in Nat,
           NEW next \in Word, NEW u \in Word, Compressed(i)
    PROVE  Fine(Exec16(s, i, next, u))
<1> DEFINE r == Exec16(s, i, next, u)
           d == s.x[i.rd]
<1>1. /\ {0, 1, 2} \subseteq Reg /\ d \in Word /\ s.x[i.rs1] \in Word /\ s.x[i.rs2] \in Word
      /\ s.x[2] \in Word /\ s.pc \in Word
  BY RegisterWord, CpuAssumption DEF Typed, MachineType
<1>2. /\ W(i.imm) \in Word /\ W(s.pc + i.imm) \in Word /\ W(d + i.imm) \in Word
      /\ W(s.x[2] + i.imm) \in Word /\ W(s.x[i.rs1] + i.imm) \in Word
      /\ W(d + s.x[i.rs2]) \in Word
  BY <1>1, WrapWord DEF Word
<1>3. {"Alu", "Shift", "Jump", "Load", "Store", "BranchTaken", "BranchNotTaken"}
        \subseteq DOMAIN InstructionCycles
  BY DEF InstructionCycles
<1>4. \A reg \in Reg, a \in Word : Fine(CLoad(s, reg, a, next))
  <2> SUFFICES ASSUME NEW reg \in Reg, NEW a \in Word
               PROVE  Fine(CLoad(s, reg, a, next))
    OBVIOUS
  <2> DEFINE t == Set(s, reg, Load(s.mem, a, 4))
  <2>1. Typed(t)
    BY LoadWord, SetTyped DEF Typed, MachineType
  <2> HIDE DEF t
  <2>2. Fine(Done(t, next, "Load")) /\ Fine(Trap(t))
    BY <1>3, <2>1, DoneTyped, TrapTyped
  <2>3. QED  BY <2>2 DEF CLoad, t
<1>5. \A a, v \in Word : Fine(CStore(s, a, v, next))
  BY <1>3, StoreTyped, DoneTyped, TrapTyped DEF CStore
<1>6. \A reg \in Reg, v, pc \in Word, class \in {"Alu", "Shift", "Jump"} :
        Fine(Done(Set(s, reg, v), pc, class))
  BY <1>3, ResultSet
<1>7. \A taken \in BOOLEAN : Fine(CBranch(s, i, next, taken))
  BY <1>2, <1>3, DoneTyped DEF CBranch
<1>8. Fine(Trap(s)) /\ \A pc \in Word : Fine(Done(s, pc, "Jump"))
  BY <1>3, DoneTyped, TrapTyped
<1>9. \A w \in Word : (w \div 2) * 2 \in Word
  <2> SUFFICES ASSUME NEW w \in Word
               PROVE  (w \div 2) * 2 \in Word
    OBVIOUS
  <2>1. w \in Nat /\ w < WordSize
    BY WordFacts DEF Word
  <2>2. (w \div 2) * 2 \in 0 .. w
    BY <2>1
  <2>3. QED  BY <2>1, <2>2, WordFacts DEF Word
<1> USE DEF CAluOps
<1>10. CASE i.op \in Q0Ops
  <2>1. r = Exec16Q0(s, i, next)
    BY <1>10 DEF Exec16, Q0Ops, Q1Ops, Q2Ops
  <2>2. \/ r = Trap(s) \/ r = Done(Set(s, i.rd, W(s.x[2] + i.imm)), next, "Alu")
        \/ r = CLoad(s, i.rd, W(s.x[i.rs1] + i.imm), next)
        \/ r = CStore(s, W(s.x[i.rs1] + i.imm), s.x[i.rs2], next)
    BY <1>10, <2>1 DEF Exec16Q0, Q0Ops
  <2>3. QED  BY <1>1, <1>2, <1>4, <1>5, <1>6, <1>8, <2>2
<1>11. CASE i.op \in Q1Ops
  <2>1. r = Exec16Q1(s, i, next, u)
    BY <1>11 DEF Exec16, Q0Ops, Q1Ops, Q2Ops
  <2>2. CASE i.op \in {"C_SRLI", "C_SRAI", "C_ANDI"} \cup DOMAIN CAluOps
    <3>1. CASE i.op \in {"C_SRLI", "C_SRAI"}
      <4>1. \/ r = Done(Set(s, i.rd, Shift(Srl(d, i.imm), i.imm, u)), next, "Shift")
            \/ r = Done(Set(s, i.rd, Shift(Sra(d, i.imm), i.imm, u)), next, "Shift")
        BY <2>1, <3>1 DEF Exec16Q1
      <4>2. i.imm \in Nat
        BY <3>1
      <4> HIDE DEF d
      <4>3. QED  BY <1>1, <1>6, <4>1, <4>2, ShiftsFine
    <3>2. CASE i.op = "C_ANDI"
      <4>1. r = Done(Set(s, i.rd, And(d, W(i.imm))), next, "Alu")
        BY <2>1, <3>2 DEF Exec16Q1
      <4> HIDE DEF d
      <4>2. QED  BY <1>6, <4>1, BitwiseWord
    <3>3. CASE i.op \in DOMAIN CAluOps
      <4>1. r = Done(Set(s, i.rd, Alu(CAluOps[i.op], d, s.x[i.rs2])), next, "Alu")
        BY <2>1, <3>3 DEF Exec16Q1
      <4>2. CAluOps[i.op] \in AluOps
        BY <3>3 DEF AluOps
      <4>3. Alu(CAluOps[i.op], d, s.x[i.rs2]) \in Word
        <5> HIDE DEF CAluOps
        <5>1. QED  BY <1>1, <4>2, AluWord
      <4> HIDE DEF d, CAluOps
      <4>4. QED  BY <1>1, <1>6, <4>1, <4>3
    <3>4. QED  BY <2>2, <3>1, <3>2, <3>3
  <2>3. CASE i.op \notin {"C_SRLI", "C_SRAI", "C_ANDI"} \cup DOMAIN CAluOps
    <3>1. \/ r = Done(Set(s, i.rd, W(d + i.imm)), next, "Alu")
          \/ r = Done(Set(s, 1, next), W(s.pc + i.imm), "Jump")
          \/ r = Done(s, W(s.pc + i.imm), "Jump")
          \/ r = Done(Set(s, i.rd, W(i.imm)), next, "Alu")
          \/ r = Done(Set(s, 2, W(s.x[2] + i.imm)), next, "Alu")
          \/ r = CBranch(s, i, next, s.x[i.rs1] = 0)
          \/ r = CBranch(s, i, next, s.x[i.rs1] # 0)
      BY <1>11, <2>1, <2>3 DEF Exec16Q1, Q1Ops
    <3>2. /\ Fine(CBranch(s, i, next, s.x[i.rs1] = 0))
          /\ Fine(CBranch(s, i, next, s.x[i.rs1] # 0))
      BY <1>7
    <3>3. QED  BY <1>1, <1>2, <1>6, <1>8, <3>1, <3>2
  <2>4. QED  BY <2>2, <2>3
<1>12. CASE i.op \in Q2Ops
  <2> DEFINE linked == Set(s, 1, next)
  <2>1. r = Exec16Q2(s, i, next, u)
    BY <1>12 DEF Exec16, Q0Ops, Q1Ops, Q2Ops
  <2>2. (s.x[i.rs1] \div 2) * 2 \in Word /\ (linked.x[i.rs1] \div 2) * 2 \in Word
    <3>1. linked.x[i.rs1] \in Word
      BY <1>1, SetTyped, RegisterWord
    <3>2. QED  BY <1>1, <1>9, <3>1
  <2>3. CASE i.op = "C_SLLI"
    <3>1. r = Done(Set(s, i.rd, Shift(Sll(d, i.imm), i.imm, u)), next, "Shift")
      BY <2>1, <2>3 DEF Exec16Q2
    <3>2. i.imm \in Nat
      BY <2>3
    <3> HIDE DEF d
    <3>3. QED  BY <1>1, <1>6, <3>1, <3>2, ShiftsFine
  <2>4. CASE i.op # "C_SLLI"
    <3>1. \/ r = CLoad(s, i.rd, W(s.x[2] + i.imm), next)
          \/ r = Done(s, (s.x[i.rs1] \div 2) * 2, "Jump")
          \/ r = Done(Set(s, i.rd, s.x[i.rs2]), next, "Alu")
          \/ r = Trap(s)
          \/ r = Done(linked, (linked.x[i.rs1] \div 2) * 2, "Jump")
          \/ r = Done(Set(s, i.rd, W(d + s.x[i.rs2])), next, "Alu")
          \/ r = CStore(s, W(s.x[2] + i.imm), s.x[i.rs2], next)
      BY <1>12, <2>1, <2>4 DEF Exec16Q2, Q2Ops
    <3> HIDE DEF d
    <3>2. QED  BY <1>1, <1>2, <1>4, <1>5, <1>6, <1>8, <2>2, <3>1
  <2>5. QED  BY <2>3, <2>4
<1>13. CASE i.op = "C_ILLEGAL"
  <2>1. r = Trap(s)
    BY <1>13 DEF Exec16, Q0Ops, Q1Ops, Q2Ops
  <2>2. QED  BY <1>8, <2>1
<1>14. QED  BY <1>10, <1>11, <1>12, <1>13 DEF Compressed

(* The registers, memory and counters through any step. *)
CounterType == [retired : Nat, cycles : Nat]
MachineInv ==
    /\ Typed(m) /\ count \in CounterType /\ mode \in {"accurate", "optimal"}
    /\ budget \in 0 .. Budget
    /\ outcome \in {"none", "running", "returned", "trapped", "exhausted"}
    /\ CountersAgree

(* So does whatever is fetched. *)
LEMMA ResultFine ==
    ASSUME MachineInv, NEW i \in Program, NEW u \in Word
    PROVE  Fine(Result(i, u))
<1>1. /\ {i.rd, i.rs1, i.rs2} \subseteq Reg /\ i.imm \in Int
      /\ i.op \in {"C_SLLI", "C_SRLI", "C_SRAI"} => i.imm \in Nat
  BY CpuAssumption
<1>2. Typed(m) /\ Counters(count)
  BY DEF MachineInv, Counters, CounterType
<1>3. W(m.pc + 2) \in Word /\ W(m.pc + 4) \in Word
  <2>1. m.pc \in Word
    BY <1>2 DEF Typed, MachineType
  <2>2. m.pc + 2 \in Int /\ m.pc + 4 \in Int
    BY <2>1 DEF Word
  <2>3. QED  BY <2>2, WrapWord
<1>4. CASE ~Fetched(i)
  BY <1>2, <1>4, TrapTyped DEF Result
<1>5. CASE Fetched(i) /\ Compressed(i)
  BY <1>1, <1>2, <1>3, <1>5, Fine16 DEF Result
<1>6. CASE Fetched(i) /\ ~Compressed(i)
  BY <1>1, <1>2, <1>3, <1>6, Fine32 DEF Result
<1>7. QED  BY <1>4, <1>5, <1>6

(* An instruction costs at least one cycle, and just one without timing. *)
LEMMA ChargePositive ==
    ASSUME NEW class \in DOMAIN InstructionCycles
    PROVE  Charge(class) \in Nat \ {0} /\ (mode # "accurate" => Charge(class) = 1)
BY DEF Charge, InstructionCycles

(* A step of the guest keeps the types and the counters together. *)
LEMMA GuestStepTyped ==
    ASSUME MachineInv, NEW i \in Program, Step(i)
    PROVE  MachineInv'
<1>1. PICK u \in Word :
        LET r == Result(i, u)
        IN  /\ m' = r.m
            /\ outcome' = IF r.trap THEN "trapped" ELSE outcome
            /\ count' = IF r.trap THEN count
                        ELSE [retired |-> count.retired + 1,
                              cycles |-> count.cycles + Charge(r.class)]
  BY DEF Step
<1> DEFINE r == Result(i, u)
<1>2. Fine(r)
  BY ResultFine
<1> HIDE DEF r
<1>3. /\ m' = r.m
      /\ outcome' = IF r.trap THEN "trapped" ELSE outcome
      /\ count' = IF r.trap THEN count ELSE [retired |-> count.retired + 1,
                                             cycles |-> count.cycles + Charge(r.class)]
  BY <1>1 DEF r
<1>4. Typed(m')
  BY <1>2, <1>3 DEF Fine
<1>5. budget' = budget - 1 /\ budget > 0 /\ mode' = mode
  BY DEF Step, Running
<1>6. count' \in CounterType /\ CountersAgree'
  <2>1. CASE r.trap
    BY <1>3, <1>5, <2>1 DEF MachineInv, CountersAgree
  <2>2. CASE ~r.trap
    <3> DEFINE c == Charge(r.class)
    <3>1. c \in Nat \ {0} /\ (mode # "accurate" => c = 1)
      BY <1>2, <2>2, ChargePositive DEF Fine
    <3>2. count' = [retired |-> count.retired + 1, cycles |-> count.cycles + c]
      BY <1>3, <2>2
    <3> HIDE DEF c
    <3>3. QED  BY <1>5, <3>1, <3>2 DEF MachineInv, CounterType, CountersAgree
  <2>3. QED  BY <2>1, <2>2
<1>7. outcome' \in {"none", "running", "returned", "trapped", "exhausted"}
  BY <1>3 DEF MachineInv
<1>8. Budget \in Nat
  BY CpuAssumption
<1>9. QED  BY <1>4, <1>5, <1>6, <1>7, <1>8 DEF MachineInv

(* So does a host function. *)
LEMMA HostStepTyped ==
    ASSUME MachineInv, HostStep
    PROVE  MachineInv'
<1>1. PICK a0 \in Args \cup {m.x[10]}, stores \in {{}} \cup {{s} : s \in HostStores} :
        LET after == IF stores = {} THEN m
                     ELSE LET s == CHOOSE s \in stores : TRUE IN Store(m, s.addr, s.n, s.v)
        IN  m' = [after EXCEPT !.x[10] = a0, !.pc = m.x[1], !.x[0] = 0]
  BY DEF HostStep
<1>2. {0, 1, 10} \subseteq Reg /\ Args \subseteq Word /\ AbiCycles \in Nat /\ Budget \in Nat
  BY CpuAssumption
<1>3. Typed(m) /\ m.x[1] \in Word /\ a0 \in Word
  BY <1>2, RegisterWord DEF MachineInv
<1>4. ASSUME NEW after, Typed(after),
             m' = [after EXCEPT !.x[10] = a0, !.pc = m.x[1], !.x[0] = 0]
      PROVE  Typed(m')
  BY <1>2, <1>3, <1>4, WordFacts DEF Typed, MachineType, Word
<1>5. Typed(m')
  <2>1. CASE stores = {}
    BY <1>1, <1>3, <1>4, <2>1
  <2>2. ASSUME NEW s \in HostStores, stores = {s}
        PROVE  Typed(m')
    <3>1. (CHOOSE t \in stores : TRUE) = s
      BY <2>2
    <3>2. Typed(Store(m, s.addr, s.n, s.v))
      BY <1>3, StoreTyped, CpuAssumption
    <3>3. m' = [Store(m, s.addr, s.n, s.v) EXCEPT !.x[10] = a0, !.pc = m.x[1], !.x[0] = 0]
      BY <1>1, <2>2, <3>1
    <3>4. QED  BY <1>4, <3>2, <3>3
  <2>3. QED  BY <2>1, <2>2
<1>6. /\ budget' = budget - 1 /\ budget > 0 /\ UNCHANGED <<mode, outcome>>
      /\ count' = [count EXCEPT !.cycles = @ + IF mode = "accurate" THEN AbiCycles ELSE 0]
  BY DEF HostStep, Running
<1>7. count' \in CounterType /\ CountersAgree'
  <2>1. count \in CounterType /\ CountersAgree /\ mode \in {"accurate", "optimal"}
    BY DEF MachineInv
  <2>2. CASE mode = "accurate"
    BY <1>2, <1>6, <2>1, <2>2 DEF CounterType, CountersAgree
  <2>3. CASE mode # "accurate"
    BY <1>2, <1>6, <2>1, <2>3 DEF CounterType, CountersAgree
  <2>4. QED  BY <2>2, <2>3
<1>8. QED  BY <1>2, <1>5, <1>6, <1>7 DEF MachineInv

(* So does every step. *)
LEMMA MachineStep ==
    ASSUME MachineInv, [Next]_vars
    PROVE  MachineInv'
<1>1. ASSUME NEW entry \in Entries, NEW a0 \in Args, BeginCall(entry, a0)
      PROVE  MachineInv'
  <2>1. /\ {0, 1, 2, 10} \subseteq Reg /\ entry \in Word /\ a0 \in Word /\ Budget \in Nat
        /\ MemSize \in Nat /\ StackAlign \in Nat \ {0} /\ Base \in Int
    BY CpuAssumption DEF Word
  <2> DEFINE top == W(Base + MemSize - (MemSize % StackAlign))
  <2>2. top \in Word
    BY <2>1, DivModTypes, WrapWord
  <2>3. ReturnSentinel \in Word
    BY WordFacts DEF ReturnSentinel, Word
  <2>4. m' = [m EXCEPT !.pc = entry, !.x[1] = ReturnSentinel, !.x[10] = a0, !.x[2] = top]
    BY <1>1 DEF BeginCall
  <2> HIDE DEF top
  <2>5. Typed(m')
    <3>1. m \in MachineType /\ m.x[0] = 0 /\ m.x \in [Reg -> Word]
      BY DEF MachineInv, Typed, MachineType
    <3> DEFINE regs == [m.x EXCEPT ![1] = ReturnSentinel, ![10] = a0, ![2] = top]
    <3>2. regs \in [Reg -> Word] /\ regs[0] = 0
      BY <2>1, <2>2, <2>3, <3>1
    <3>3. m' = [m EXCEPT !.pc = entry, !.x = regs]
      BY <2>4, <3>1 DEF MachineType
    <3> HIDE DEF regs
    <3>4. QED  BY <2>1, <3>1, <3>2, <3>3 DEF Typed, MachineType
  <2>6. budget' = Budget /\ outcome' = "running" /\ UNCHANGED <<count, mode>>
    BY <1>1 DEF BeginCall
  <2>7. QED  BY <2>1, <2>5, <2>6 DEF MachineInv, CountersAgree
<1>2. CASE Returns \/ Exhausts
  BY <1>2 DEF Returns, Exhausts, CallEnds, MachineInv, CountersAgree
<1>3. CASE UNCHANGED vars
  BY <1>3 DEF vars, MachineInv, CountersAgree
<1>4. QED  BY <1>1, <1>2, <1>3, GuestStepTyped, HostStepTyped DEF Next

(* The machine begins with its types. *)
LEMMA MachineInit == Init => MachineInv
<1>1. SUFFICES ASSUME Init PROVE MachineInv
  OBVIOUS
<1>2. Base \in Word /\ Budget \in Nat /\ ByteSize \in Nat /\ 0 \in Byte /\ 0 \in Word
  BY CpuAssumption, WordFacts DEF Byte, Word
<1>3. Typed(m)
  BY <1>1, <1>2, CpuAssumption DEF Init, Typed, MachineType
<1>4. QED  BY <1>1, <1>2, <1>3 DEF Init, MachineInv, CounterType, CountersAgree

(* The trace: the ring holds the last addresses, the oldest at the slot written next. *)
LEMMA WrapSlot ==
    ASSUME NEW t \in Nat \ {0}, NEW k \in 0 .. t + t - 1
    PROVE  k % t = IF k < t THEN k ELSE k - t
<1> DEFINE q == k \div t
           r == k % t
<1>1. k = t * q + r /\ r \in 0 .. t - 1 /\ q \in Nat
  <2>1. k = t * q + r
    BY DivMod
  <2>2. r \in 0 .. t - 1
    BY DivModTypes
  <2>3. q \in Nat
    BY DivNat
  <2>4. QED  BY <2>1, <2>2, <2>3
<1> HIDE DEF q, r
<1>2. q >= 2 => t * q >= t + t
  BY <1>1
<1>3. q \in {0, 1}
  BY <1>1, <1>2
<1>4. r = IF k < t THEN k ELSE k - t
  BY <1>1, <1>3
<1>5. QED  BY <1>4 DEF r

RingType == [slots : [0 .. TraceSize - 1 -> Word], next : 0 .. TraceSize - 1,
             n : 0 .. TraceSize]
TraceInv ==
    /\ ring \in RingType /\ recent \in Seq(Word) /\ Len(recent) = ring.n
    /\ ring.n < TraceSize => ring.next = ring.n
    /\ \A k \in 1 .. ring.n :
          recent[k] = ring.slots[IF ring.n < TraceSize \/ ring.next + k - 1 < TraceSize
                                 THEN (IF ring.n < TraceSize THEN k - 1 ELSE ring.next + k - 1)
                                 ELSE ring.next + k - 1 - TraceSize]

(* The ring, read from its oldest slot, is the list of the last addresses. *)
LEMMA TraceInvIsRecent == TraceInv => TraceIsRecent
<1> SUFFICES ASSUME TraceInv
             PROVE  TraceIsRecent
  OBVIOUS
<1> DEFINE T == TraceSize
           n == ring.n
           x == ring.next
<1>1. T \in Nat \ {0} /\ n \in 0 .. T /\ x \in 0 .. T - 1 /\ (n < T => x = n)
  BY CpuAssumption DEF TraceInv, RingType
<1>2. Oldest = IF n < T THEN 0 ELSE x
  <2> DEFINE p == x + T - n
  <2>1. p \in 0 .. T + T - 1
    BY <1>1
  <2> HIDE DEF p
  <2>2. p % T = IF p < T THEN p ELSE p - T
    BY <1>1, <2>1, WrapSlot
  <2>3. p % T = IF n < T THEN 0 ELSE x
    BY <1>1, <2>2 DEF p
  <2>4. QED  BY <2>3 DEF Oldest, p
<1>3. ASSUME NEW k \in 1 .. n
      PROVE  recent[k] = ring.slots[(Oldest + k - 1) % T]
  <2> DEFINE p == Oldest + k - 1
  <2>1. p \in 0 .. T + T - 1
    BY <1>1, <1>2
  <2>2. p = IF n < T THEN k - 1 ELSE x + k - 1
    BY <1>1, <1>2
  <2>3. p % T = IF p < T THEN p ELSE p - T
    <3> HIDE DEF T, p
    <3>1. QED  BY <1>1, <2>1, WrapSlot
  <2> HIDE DEF p
  <2>4. p % T = IF n < T \/ x + k - 1 < T THEN (IF n < T THEN k - 1 ELSE x + k - 1)
                ELSE x + k - 1 - T
    BY <1>1, <2>2, <2>3
  <2>5. QED  BY <2>4 DEF TraceInv, p
<1>4. recent = [k \in 1 .. n |-> recent[k]]
  BY DEF TraceInv
<1>5. QED  BY <1>3, <1>4 DEF TraceIsRecent, RecentInstructionAddresses

(* One more address takes the place of the oldest. *)
LEMMA TraceStep ==
    ASSUME TraceInv, NEW pc \in Word, ring' = Record(pc), recent' = LastOf(Append(recent, pc))
    PROVE  TraceInv'
<1> DEFINE T == TraceSize
           n == ring.n
           x == ring.next
<1>1. T \in Nat \ {0} /\ n \in 0 .. T /\ x \in 0 .. T - 1 /\ (n < T => x = n)
      /\ ring.slots \in [0 .. T - 1 -> Word]
  BY CpuAssumption DEF TraceInv, RingType
<1>2. (x + 1) % T = IF x + 1 < T THEN x + 1 ELSE 0
  <2> DEFINE p == x + 1
  <2>1. p \in 0 .. T + T - 1
    BY <1>1
  <2> HIDE DEF p
  <2>2. p % T = IF p < T THEN p ELSE p - T
    BY <1>1, <2>1, WrapSlot
  <2>3. QED  BY <1>1, <2>2 DEF p
<1> DEFINE y == (x + 1) % T
           j == IF n < T THEN n + 1 ELSE n
           slots == [ring.slots EXCEPT ![x] = pc]
<1>3. ring' = [slots |-> slots, next |-> y, n |-> j]
  BY DEF Record
<1>4. y = (IF x + 1 < T THEN x + 1 ELSE 0) /\ y \in 0 .. T - 1
  BY <1>1, <1>2
<1> HIDE DEF y
<1>5. slots \in [0 .. T - 1 -> Word] /\ slots[x] = pc
      /\ \A k \in 0 .. T - 1 : k # x => slots[k] = ring.slots[k]
  BY <1>1
<1> HIDE DEF slots
<1>6. ring' \in RingType
  BY <1>1, <1>3, <1>4, <1>5 DEF RingType
<1>7. recent \in Seq(Word) /\ Len(recent) = n
  BY DEF TraceInv
<1>8. CASE n < T
  <2>1. recent' = Append(recent, pc)
    BY <1>1, <1>7, <1>8 DEF LastOf
  <2>2. recent' \in Seq(Word) /\ Len(recent') = n + 1 /\ recent'[n + 1] = pc
        /\ \A k \in 1 .. n : recent'[k] = recent[k]
    BY <1>7, <2>1
  <2>3. \A k \in 1 .. n : recent[k] = ring.slots[k - 1]
    BY <1>1, <1>8 DEF TraceInv
  <2>4. \A k \in 1 .. n + 1 : recent'[k] = slots[k - 1]
    <3> SUFFICES ASSUME NEW k \in 1 .. n + 1
                 PROVE  recent'[k] = slots[k - 1]
      OBVIOUS
    <3>1. CASE k \in 1 .. n
      <4>1. k - 1 \in 0 .. T - 1 /\ k - 1 # x
        BY <1>1, <1>8, <3>1
      <4>2. QED  BY <1>5, <2>2, <2>3, <3>1, <4>1
    <3>2. CASE k = n + 1
      BY <1>1, <1>5, <1>8, <2>2, <3>2
    <3>3. QED  BY <1>1, <3>1, <3>2
  <2>5. ring'.n = n + 1 /\ ring'.next = y /\ ring'.slots = slots
    BY <1>3, <1>8
  <2>6. n + 1 < T => y = n + 1
    BY <1>1, <1>4, <1>8
  <2>7. n + 1 = T => y = 0
    BY <1>1, <1>4, <1>8
  <2>8. ASSUME NEW k \in 1 .. n + 1
        PROVE  k - 1 = IF n + 1 < T \/ y + k - 1 < T
                       THEN (IF n + 1 < T THEN k - 1 ELSE y + k - 1) ELSE y + k - 1 - T
    BY <1>1, <1>8, <2>6, <2>7
  <2>9. QED  BY <1>6, <2>2, <2>4, <2>5, <2>6, <2>8 DEF TraceInv
<1>9. CASE n = T
  <2>1. recent' = Tail(Append(recent, pc))
    BY <1>1, <1>7, <1>9 DEF LastOf
  <2>2. recent' \in Seq(Word) /\ Len(recent') = n /\ recent'[n] = pc
        /\ \A k \in 1 .. n - 1 : recent'[k] = recent[k + 1]
    BY <1>1, <1>7, <1>9, <2>1
  <2>3. ring'.n = n /\ ring'.next = y /\ ring'.slots = slots
    BY <1>1, <1>3, <1>9
  <2>4. \A k \in 1 .. n :
          recent[k] = ring.slots[IF x + k - 1 < T THEN x + k - 1 ELSE x + k - 1 - T]
    BY <1>1, <1>9 DEF TraceInv
  <2>5. ASSUME NEW k \in 1 .. n
        PROVE  recent'[k] = slots[IF y + k - 1 < T THEN y + k - 1 ELSE y + k - 1 - T]
    <3> DEFINE p == IF y + k - 1 < T THEN y + k - 1 ELSE y + k - 1 - T
    <3>1. CASE k = n
      <4>1. p = x
        BY <1>1, <1>4, <1>9, <3>1
      <4>2. QED  BY <1>5, <2>2, <3>1, <4>1
    <3>2. CASE k # n
      <4> DEFINE o == IF x + (k + 1) - 1 < T THEN x + (k + 1) - 1 ELSE x + (k + 1) - 1 - T
      <4>1. k \in 1 .. n - 1 /\ k + 1 \in 1 .. n
        BY <1>1, <3>2
      <4>2. recent'[k] = ring.slots[o]
        BY <2>2, <2>4, <4>1
      <4>3. o = p /\ p # x /\ p \in 0 .. T - 1
        <5>1. CASE x + 1 < T
          BY <1>1, <1>4, <1>9, <4>1, <5>1
        <5>2. CASE x + 1 = T
          <6>1. y = 0
            BY <1>1, <1>4, <5>2
          <6>2. p = k - 1
            BY <1>1, <1>9, <4>1, <6>1
          <6>3. o = k - 1
            BY <1>1, <1>9, <4>1, <5>2
          <6>4. QED  BY <1>1, <1>9, <4>1, <5>2, <6>2, <6>3
        <5>3. QED  BY <1>1, <5>1, <5>2
      <4> HIDE DEF p, o
      <4>4. recent'[k] = slots[p]
        BY <1>5, <4>2, <4>3
      <4>5. QED  BY <4>4 DEF p
    <3>3. QED  BY <3>1, <3>2
  <2>6. QED  BY <1>1, <1>6, <1>9, <2>2, <2>3, <2>5 DEF TraceInv
<1>10. QED  BY <1>1, <1>8, <1>9

(* The ring is empty at first. *)
LEMMA TraceInit == Init => TraceInv
<1> SUFFICES ASSUME Init PROVE TraceInv
  OBVIOUS
<1>1. TraceSize \in Nat \ {0} /\ 0 \in Word
  BY CpuAssumption, WordFacts DEF Word
<1>2. ring = [slots |-> [k \in 0 .. TraceSize - 1 |-> 0], next |-> 0, n |-> 0] /\ recent = <<>>
  BY DEF Init
<1>3. ring \in RingType /\ ring.n = 0 /\ ring.next = 0
  BY <1>1, <1>2 DEF RingType
<1>4. QED  BY <1>2, <1>3 DEF TraceInv

(* Every step keeps the ring. *)
LEMMA TraceKept ==
    ASSUME MachineInv, TraceInv, [Next]_vars
    PROVE  TraceInv'
<1>1. ASSUME NEW i \in Program, Step(i)
      PROVE  TraceInv'
  <2>1. m.pc \in Word
    BY DEF MachineInv, Typed, MachineType
  <2>2. ring' = Record(m.pc) /\ recent' = LastOf(Append(recent, m.pc))
    BY <1>1 DEF Step
  <2>3. QED  BY <2>1, <2>2, TraceStep
<1>2. CASE UNCHANGED <<ring, recent>>
  BY <1>2 DEF TraceInv
<1>3. \/ UNCHANGED <<ring, recent>>
      \/ \E i \in Program : Step(i)
  BY DEF Next, BeginCall, Returns, Exhausts, CallEnds, HostStep, vars
<1>4. QED  BY <1>1, <1>2, <1>3

(* After any program, host writes and calls: every register, address, byte   *)
(* and counter in its type and x0 zero, the reservation and the counters     *)
(* what really happened, and the debugger's trace the last addresses stepped *)
(* at, oldest first, with none missing.                                      *)
THEOREM MachineIsConsistent == Spec => []MachineConsistent
<1> DEFINE Inv == MachineInv /\ TraceInv /\ ReservationInv
<1>1. Init => Inv
  BY MachineInit, TraceInit, ReservationInit
<1>2. Inv /\ [Next]_vars => Inv'
  BY MachineStep, TraceKept, ReservationStep
<1>3. Inv => MachineConsistent
  <2> SUFFICES ASSUME Inv PROVE MachineConsistent
    OBVIOUS
  <2>1. TypeOK
    BY DEF MachineInv, TraceInv, Typed, MachineType, CounterType, RingType, TypeOK
  <2>2. TraceIsRecent
    BY TraceInvIsRecent
  <2>3. QED  BY <2>1, <2>2 DEF MachineConsistent, MachineInv, ReservationInv
<1>4. QED  BY <1>1, <1>2, <1>3, PTL DEF Spec
-----------------------------------------------------------------------------
(* Traps. *)

(* An access all of whose bytes load also fits: no mapped byte follows the   *)
(* last address of the guest's address space, as base_ is not zero.          *)
LEMMA LoadOkStoreOk ==
    ASSUME NEW a \in Word, NEW n \in {1, 2, 4}, LoadOk(a, n)
    PROVE  StoreOk(a, n)
<1>1. /\ Base \in Nat \ {0} /\ MemSize \in Nat /\ WordSize \in Nat /\ WordSize >= 16
      /\ a \in Nat /\ a < WordSize
  BY CpuAssumption, WordFacts DEF Word
<1>2. \A k \in 0 .. n - 1 : W(a + k) = IF a + k < WordSize THEN a + k ELSE (a + k) - WordSize
  <2> SUFFICES ASSUME NEW k \in 0 .. n - 1
               PROVE  W(a + k) = IF a + k < WordSize THEN a + k ELSE (a + k) - WordSize
    OBVIOUS
  <2> DEFINE p == a + k
  <2>1. p \in 0 .. WordSize + WordSize - 1
    BY <1>1
  <2> HIDE DEF p
  <2> DEFINE N == WordSize
  <2>2. N \in Nat \ {0} /\ p \in 0 .. N + N - 1
    BY <1>1, <2>1
  <2> HIDE DEF N
  <2>3. p % N = IF p < N THEN p ELSE p - N
    BY <2>2, WrapSlot
  <2>4. QED  BY <2>3 DEF W, p, N
<1>3. a + n - 1 < WordSize
  <2> SUFFICES ASSUME a + n - 1 >= WordSize
               PROVE  FALSE
    BY <1>1
  <2> DEFINE k == WordSize - a
  <2>1. k \in 0 .. n - 1 /\ a + k = WordSize
    BY <1>1
  <2>2. W(a + k) = 0
    BY <1>1, <1>2, <2>1
  <2>3. Mapped(0)
    BY <2>1, <2>2 DEF LoadOk
  <2>4. QED  BY <1>1, <2>3 DEF Mapped
<1>4. Mapped(a + n - 1) /\ Mapped(a)
  <2>1. 0 \in 0 .. n - 1 /\ n - 1 \in 0 .. n - 1
    OBVIOUS
  <2>2. W(a + 0) = a /\ W(a + (n - 1)) = a + n - 1
    BY <1>1, <1>2, <1>3, <2>1
  <2>3. Mapped(W(a + 0)) /\ Mapped(W(a + (n - 1)))
    BY <2>1 DEF LoadOk
  <2>4. QED  BY <2>2, <2>3
<1>5. QED  BY <1>1, <1>4 DEF Mapped, StoreOk

(* Retiring is no trap. *)
LEMMA DoneNoTrap == \A s, pc, class : ~Done(s, pc, class).trap
BY DEF Done

(* A 32-bit instruction that traps changes nothing. *)
LEMMA Trap32 ==
    ASSUME NEW s, Typed(s), NEW i, {i.rd, i.rs1, i.rs2} \subseteq Reg, NEW next, NEW c,
           Exec32(s, i, next, c).trap
    PROVE  Exec32(s, i, next, c) = Trap(s)
<1> DEFINE r == Exec32(s, i, next, c)
           Harmless(q) == ~q.trap \/ q = Trap(s)
<1>1. CASE i.op \in {"LR.W", "SC.W"} \cup AmoOps
  <2> DEFINE a == s.x[i.rs1]
  <2>1. r = ExecAtomic(s, i, next)
    BY <1>1 DEF Exec32, AmoOps, BranchOps, LoadSize, StoreSize, ImmOp, AluOps, MulOps, DivOps
  <2>2. LoadOk(a, 4) => StoreOk(a, 4)
    BY RegisterWord, LoadOkStoreOk
  <2>3. ~LoadOk(a, 4) => ExecAtomic(s, i, next) = Trap(s)
    BY DEF ExecAtomic
  <2>4. LoadOk(a, 4) /\ StoreOk(a, 4) => ~ExecAtomic(s, i, next).trap
    BY DoneNoTrap DEF ExecAtomic
  <2>5. QED  BY <2>1, <2>2, <2>3, <2>4
<1>2. CASE i.op \notin {"LR.W", "SC.W"} \cup AmoOps
  <2>1. \A pc, t, class : Harmless(Done(t, pc, class))
    BY DoneNoTrap
  <2>2. Harmless(Trap(s))
    OBVIOUS
  <2>3. Harmless(ExecBranch(s, i, next))
    BY <2>1 DEF ExecBranch
  <2>4. Harmless(ExecLoad(s, i, next))
    BY <2>1 DEF ExecLoad
  <2>5. Harmless(ExecStore(s, i, next))
    BY <2>1 DEF ExecStore
  <2>6. Harmless(ExecSystem(s, i, next, c))
    BY <2>1 DEF ExecSystem
  <2> HIDE DEF Harmless
  <2>7. Harmless(r)
    BY <1>2, <2>1, <2>2, <2>3, <2>4, <2>5, <2>6 DEF Exec32
  <2>8. QED  BY <2>7 DEF Harmless
<1>3. QED  BY <1>1, <1>2

(* A compressed one too, but for a load, which has set its register. *)
LEMMA Trap16 ==
    ASSUME NEW s, Typed(s), NEW i, {i.rd, i.rs1, i.rs2} \subseteq Reg, NEW next, NEW u,
           Compressed(i), Exec16(s, i, next, u).trap
    PROVE  LET r == Exec16(s, i, next, u)
           IN  \/ r = Trap(s)
               \/ i.op \in {"C_LW", "C_LWSP"} /\ \E v : r = Trap(Set(s, i.rd, v))
<1> DEFINE r == Exec16(s, i, next, u)
           Harmless(q) == ~q.trap \/ q = Trap(s)
<1>1. \A pc, t, class : Harmless(Done(t, pc, class))
  BY DoneNoTrap
<1>2. \A a, v : Harmless(CStore(s, a, v, next))
  BY <1>1 DEF CStore
<1>3. \A taken : Harmless(CBranch(s, i, next, taken))
  BY <1>1 DEF CBranch
<1>4. ASSUME NEW a, r = CLoad(s, i.rd, a, next)
      PROVE  \E v : r = Trap(Set(s, i.rd, v))
  <2> DEFINE w == Load(s.mem, a, 4)
  <2>1. LoadOk(a, 4) => r = Done(Set(s, i.rd, w), next, "Load")
    BY <1>4 DEF CLoad
  <2>2. ~LoadOk(a, 4) => r = Trap(Set(s, i.rd, w))
    BY <1>4 DEF CLoad
  <2> HIDE DEF w, r
  <2>3. r.trap
    BY DEF r
  <2>4. QED  BY <2>1, <2>2, <2>3, DoneNoTrap
<1>5. Harmless(Trap(s))
  OBVIOUS
<1> HIDE DEF Harmless
<1>6. CASE i.op \in {"C_LW", "C_LWSP"}
  <2>1. \/ r = CLoad(s, i.rd, W(s.x[i.rs1] + i.imm), next)
        \/ r = CLoad(s, i.rd, W(s.x[2] + i.imm), next)
    BY <1>6 DEF Exec16, Exec16Q0, Exec16Q2, Q0Ops, Q1Ops, Q2Ops, CAluOps
  <2>2. \E v : r = Trap(Set(s, i.rd, v))
    <3> HIDE DEF r
    <3>1. QED  BY <1>4, <2>1
  <2>3. QED  BY <1>6, <2>2
<1>7. CASE i.op \notin {"C_LW", "C_LWSP"}
  <2>1. CASE i.op \in Q0Ops
    <3>1. r = Exec16Q0(s, i, next)
      BY <2>1 DEF Exec16, Q0Ops, Q1Ops, Q2Ops, CAluOps
    <3>2. Harmless(r)
      BY <1>1, <1>2, <1>5, <1>7, <2>1, <3>1 DEF Exec16Q0, Q0Ops
    <3>3. QED  BY <3>2 DEF Harmless
  <2>2. CASE i.op \in Q1Ops
    <3>1. r = Exec16Q1(s, i, next, u)
      BY <2>2 DEF Exec16, Q0Ops, Q1Ops, Q2Ops, CAluOps
    <3>2. Harmless(r)
      BY <1>1, <1>3, <2>2, <3>1 DEF Exec16Q1, Q1Ops
    <3>3. QED  BY <3>2 DEF Harmless
  <2>3. CASE i.op \in Q2Ops
    <3>1. r = Exec16Q2(s, i, next, u)
      BY <2>3 DEF Exec16, Q0Ops, Q1Ops, Q2Ops, CAluOps
    <3>2. Harmless(r)
      BY <1>1, <1>2, <1>5, <1>7, <2>3, <3>1 DEF Exec16Q2, Q2Ops
    <3>3. QED  BY <3>2 DEF Harmless
  <2>4. CASE i.op = "C_ILLEGAL"
    BY <2>4 DEF Exec16, Q0Ops, Q1Ops, Q2Ops, CAluOps
  <2>5. QED  BY <2>1, <2>2, <2>3, <2>4 DEF Compressed
<1>8. QED  BY <1>6, <1>7

(* Setting a register leaves all else alone. *)
LEMMA SetElsewhere ==
    ASSUME NEW s, Typed(s), NEW r \in Reg, NEW v
    PROVE  /\ Set(s, r, v).mem = s.mem /\ Set(s, r, v).resv = s.resv /\ Set(s, r, v).pc = s.pc
           /\ \A q \in Reg : q # r => Set(s, r, v).x[q] = s.x[q]
BY DEF Set, Typed, MachineType

(* A step that ends in a trap leaves what the trapping instruction leaves. *)
LEMMA TrappedStep ==
    ASSUME MachineInv, NEW i \in Program, Step(i), outcome = "running", outcome' = "trapped"
    PROVE  /\ m'.mem = m.mem /\ m'.resv = m.resv /\ m'.pc = m.pc /\ count' = count
           /\ \A r \in Reg : m'.x[r] # m.x[r] => i.op \in {"C_LW", "C_LWSP"} /\ r = i.rd
<1>1. PICK u \in Word :
        LET r == Result(i, u)
        IN  /\ m' = r.m
            /\ outcome' = IF r.trap THEN "trapped" ELSE outcome
            /\ count' = IF r.trap THEN count
                        ELSE [retired |-> count.retired + 1,
                              cycles |-> count.cycles + Charge(r.class)]
  BY DEF Step
<1> DEFINE r == Result(i, u)
<1>2. "running" # "trapped"
  OBVIOUS
<1>3. r.trap /\ m' = r.m /\ count' = count
  BY <1>1, <1>2
<1>4. Typed(m) /\ {i.rd, i.rs1, i.rs2} \subseteq Reg
  BY CpuAssumption DEF MachineInv
<1>5. \/ r = Trap(m)
      \/ i.op \in {"C_LW", "C_LWSP"} /\ \E v : r = Trap(Set(m, i.rd, v))
  <2>1. CASE ~Fetched(i)
    BY <2>1 DEF Result
  <2>2. CASE Fetched(i) /\ Compressed(i)
    <3>1. r = Exec16(m, i, W(m.pc + 2), u)
      BY <2>2 DEF Result
    <3> HIDE DEF r
    <3>2. QED  BY <1>3, <1>4, <2>2, <3>1, Trap16
  <2>3. CASE Fetched(i) /\ ~Compressed(i)
    <3>1. r = Exec32(m, i, W(m.pc + 4), count)
      BY <2>3 DEF Result
    <3> HIDE DEF r
    <3>2. QED  BY <1>3, <1>4, <2>3, <3>1, Trap32
  <2>4. QED  BY <2>1, <2>2, <2>3
<1> HIDE DEF r
<1>6. CASE r = Trap(m)
  BY <1>3, <1>6 DEF Trap
<1>7. CASE i.op \in {"C_LW", "C_LWSP"} /\ \E v : r = Trap(Set(m, i.rd, v))
  <2>1. PICK v : r = Trap(Set(m, i.rd, v))
    BY <1>7
  <2>2. m' = Set(m, i.rd, v)
    BY <1>3, <2>1 DEF Trap
  <2>3. QED  BY <1>3, <1>4, <1>7, <2>2, SetElsewhere
<1>8. QED  BY <1>5, <1>6, <1>7

(* For every program and machine: a step that traps leaves memory,           *)
(* reservation, counters and pc as they were, and the registers too but for  *)
(* the destination of a compressed load.                                     *)
THEOREM TrapsArePrecise == Spec => TrapIsPrecise
<1>1. MachineInv /\ [Next]_vars
        => [outcome = "running" /\ outcome' = "trapped" =>
              /\ m'.mem = m.mem /\ m'.resv = m.resv /\ m'.pc = m.pc /\ count' = count
              /\ \A r \in Reg : m'.x[r] # m.x[r]
                    => last'.op \in {"C_LW", "C_LWSP"} /\ r = last'.rd]_vars
  <2> SUFFICES ASSUME MachineInv, Next, outcome = "running", outcome' = "trapped"
               PROVE  /\ m'.mem = m.mem /\ m'.resv = m.resv /\ m'.pc = m.pc /\ count' = count
                      /\ \A r \in Reg : m'.x[r] # m.x[r]
                            => last'.op \in {"C_LW", "C_LWSP"} /\ r = last'.rd
    OBVIOUS
  <2>1. PICK i \in Program : Step(i)
    <3>1. (\E entry \in Entries, a0 \in Args : BeginCall(entry, a0)) => outcome' = "running"
      BY DEF BeginCall
    <3>2. Returns \/ Exhausts => outcome' \in {"returned", "exhausted"}
      BY DEF Returns, Exhausts, CallEnds
    <3>3. HostStep => outcome' = outcome
      BY DEF HostStep
    <3>4. QED  BY <3>1, <3>2, <3>3 DEF Next
  <2>2. last'.op = i.op /\ last'.rd = i.rd
    BY <2>1 DEF Step
  <2>3. QED  BY <2>1, <2>2, TrappedStep
<1>2. QED  BY <1>1, MachineInit, MachineStep, PTL DEF Spec, TrapIsPrecise
-----------------------------------------------------------------------------
(* Compressed instructions and their expansions. *)

(* Quotient and remainder are unique. *)
LEMMA ModUnique ==
    ASSUME NEW x \in Int, NEW d \in Nat \ {0}, NEW q \in Int, NEW r \in 0 .. d - 1,
           x = d * q + r
    PROVE  x % d = r /\ x \div d = q
<1> DEFINE q2 == x \div d
           r2 == x % d
<1>1. x = d * q2 + r2
  BY DivMod
<1>2. q2 \in Int /\ r2 \in 0 .. d - 1
  BY DivModTypes
<1> HIDE DEF q2, r2
<1> DEFINE z == q2 - q
<1>3. z \in Int /\ d * z = d * q2 - d * q
  BY <1>2
<1>4. d * z = r - r2
  BY <1>1, <1>2, <1>3
<1> HIDE DEF z
<1>5. z >= 1 => d * z >= d
  BY <1>3
<1>6. z <= -1 => d * z <= -d
  BY <1>3
<1>7. z = 0
  BY <1>2, <1>3, <1>4, <1>5, <1>6
<1>8. q2 = q
  BY <1>2, <1>7 DEF z
<1>9. r2 = r
  BY <1>1, <1>2, <1>8
<1>10. QED  BY <1>8, <1>9 DEF q2, r2

(* Wrapping an operand first changes nothing. *)
LEMMA WrapAdd ==
    ASSUME NEW a \in Int, NEW n \in Int
    PROVE  W(a + W(n)) = W(a + n)
<1> DEFINE N == WordSize
           q == n \div N
           r == n % N
           p == (a + r) \div N
           t == (a + r) % N
<1>1. N \in Nat \ {0}
  BY WordFacts
<1> HIDE DEF N
<1>2. n = N * q + r /\ q \in Int /\ r \in 0 .. N - 1
  <2>1. n = N * q + r
    BY <1>1, DivMod
  <2>2. QED  BY <1>1, <2>1, DivModTypes
<1> HIDE DEF q, r
<1>3. a + r = N * p + t /\ p \in Int /\ t \in 0 .. N - 1
  <2> DEFINE y == a + r
  <2>1. y \in Int
    BY <1>2
  <2> HIDE DEF y
  <2>2. y = N * (y \div N) + (y % N)
    BY <1>1, <2>1, DivMod
  <2>3. y \div N \in Int /\ y % N \in 0 .. N - 1
    BY <1>1, <2>1, DivModTypes
  <2>4. QED  BY <2>2, <2>3 DEF y
<1> HIDE DEF p, t
<1> DEFINE x == a + n
           k == p + q
<1>4. x = N * k + t
  <2>1. N * k = N * p + N * q
    BY <1>1, <1>2, <1>3
  <2>2. x = (a + r) + N * q
    BY <1>1, <1>2
  <2>3. N * p \in Int /\ N * q \in Int /\ N * k \in Int
    BY <1>1, <1>2, <1>3
  <2> HIDE DEF x, k
  <2>4. QED  BY <1>2, <1>3, <2>1, <2>2, <2>3
<1>5. x \in Int /\ k \in Int
  BY <1>2, <1>3
<1> HIDE DEF x, k
<1>6. x % N = t
  BY <1>1, <1>3, <1>4, <1>5, ModUnique
<1>7. QED  BY <1>6 DEF W, N, x, r, t

(* An expansion is a 32-bit instruction over registers. *)
Agree(s, i, next, c) == Exec16(s, i, next, 0) = Exec32(s, Expanded(i), next, c)

(* C.EBREAK and the illegal encoding agree with theirs. *)
LEMMA ExpandedTraps ==
    ASSUME NEW s, NEW i, NEW next, NEW c, i.op \in {"C_EBREAK", "C_ILLEGAL"}
    PROVE  Agree(s, i, next, c)
<1> USE DEF BranchOps, LoadSize, StoreSize, ImmOp, AluOps, MulOps, DivOps, AmoOps
<1>1. CASE i.op = "C_EBREAK"
  <2>1. Exec16(s, i, next, 0) = Trap(s)
    BY <1>1 DEF Exec16, Exec16Q2, Q0Ops, Q1Ops, Q2Ops, CAluOps
  <2>2. Expanded(i).op = "EBREAK"
    BY <1>1 DEF Expanded, CAluOps
  <2> DEFINE e == Expanded(i)
  <2> HIDE DEF e
  <2>3. e.op = "EBREAK" => Exec32(s, e, next, c) = Trap(s)
    BY DEF Exec32, ExecSystem
  <2>4. QED  BY <2>1, <2>2, <2>3 DEF Agree, e
<1>2. CASE i.op = "C_ILLEGAL"
  <2>1. Exec16(s, i, next, 0) = Trap(s)
    BY <1>2 DEF Exec16, Q0Ops, Q1Ops, Q2Ops, CAluOps
  <2>2. Expanded(i) = i
    BY <1>2 DEF Expanded, CAluOps
  <2>3. Exec32(s, i, next, c) = Trap(s)
    BY <1>2 DEF Exec32
  <2>4. QED  BY <2>1, <2>2, <2>3 DEF Agree
<1>3. QED  BY <1>1, <1>2

(* The immediate operations. *)
LEMMA ImmediateExec ==
    ASSUME NEW s, NEW e, e.op \in DOMAIN ImmOp, NEW next, NEW c
    PROVE  Exec32(s, e, next, c) = Done(Set(s, e.rd, Alu(ImmOp[e.op], s.x[e.rs1], W(e.imm))),
                                        next, AluClass(ImmOp[e.op]))
BY DEF Exec32, BranchOps, LoadSize, StoreSize, ImmOp, AluOps, MulOps, DivOps, AmoOps
(* The register operations. *)
LEMMA RegisterExec ==
    ASSUME NEW s, NEW e, e.op \in AluOps, NEW next, NEW c
    PROVE  Exec32(s, e, next, c) = Done(Set(s, e.rd, Alu(e.op, s.x[e.rs1], s.x[e.rs2])),
                                        next, AluClass(e.op))
BY DEF Exec32, BranchOps, LoadSize, StoreSize, ImmOp, AluOps, MulOps, DivOps, AmoOps

(* The additions agree, *)
LEMMA ExpandedAdds ==
    ASSUME NEW s, Typed(s), NEW i, {i.rd, i.rs1, i.rs2} \subseteq Reg, i.imm \in Int,
           NEW next, NEW c,
           i.op \in {"C_ADDI4SPN", "C_ADDI", "C_ADDI16SP", "C_LI"},
           ~(i.op = "C_ADDI4SPN" /\ i.imm = 0)
    PROVE  Agree(s, i, next, c)
<1> DEFINE e == Expanded(i)
           base == IF i.op = "C_LI" THEN 0 ELSE IF i.op = "C_ADDI" THEN i.rd ELSE 2
           dest == IF i.op = "C_ADDI16SP" THEN 2 ELSE i.rd
           v == W(s.x[base] + i.imm)
<1>1. e.op = "ADDI" /\ e.rd = dest /\ e.rs1 = base /\ e.imm = i.imm
  BY DEF Expanded, CAluOps
<1>2. base \in Reg /\ dest \in Reg /\ s.x[0] = 0
  BY CpuAssumption DEF Typed
<1>3. s.x[base] \in Int
  <2> HIDE DEF base
  <2>1. QED  BY <1>2, RegisterWord DEF Word
<1> HIDE DEF e
<1>4. Exec32(s, e, next, c) = Done(Set(s, dest, v), next, "Alu")
  <2>1. e.op \in DOMAIN ImmOp /\ ImmOp[e.op] = "ADD" /\ AluClass("ADD") = "Alu"
    BY <1>1 DEF ImmOp, AluClass
  <2>2. Alu("ADD", s.x[base], W(i.imm)) = v
    <3>1. Alu("ADD", s.x[base], W(i.imm)) = W(s.x[base] + W(i.imm))
      BY DEF Alu
    <3> HIDE DEF base
    <3>2. QED  BY <1>3, <3>1, WrapAdd
  <2> HIDE DEF base, dest, v
  <2>3. QED  BY <1>1, <2>1, <2>2, ImmediateExec
<1>5. Exec16(s, i, next, 0) = Done(Set(s, dest, v), next, "Alu")
  <2>1. CASE i.op = "C_LI"
    <3>1. W(s.x[base] + i.imm) = W(i.imm)
      BY <1>2, <2>1
    <3>2. QED  BY <2>1, <3>1 DEF Exec16, Exec16Q1, Q0Ops, Q1Ops, Q2Ops, CAluOps
  <2>2. CASE i.op \in {"C_ADDI", "C_ADDI16SP"}
    BY <2>2 DEF Exec16, Exec16Q1, Q0Ops, Q1Ops, Q2Ops, CAluOps
  <2>3. CASE i.op = "C_ADDI4SPN"
    BY <2>3 DEF Exec16, Exec16Q0, Q0Ops, Q1Ops, Q2Ops, CAluOps
  <2>4. QED  BY <2>1, <2>2, <2>3
<1> HIDE DEF dest, v
<1>6. QED  BY <1>4, <1>5 DEF Agree, e

(* the shifts, *)
LEMMA ExpandedShifts ==
    ASSUME NEW s, NEW i, i.imm \in Nat, i.imm < Xlen, NEW next, NEW c,
           i.op \in {"C_SLLI", "C_SRLI", "C_SRAI"}
    PROVE  Agree(s, i, next, c)
<1> DEFINE e == Expanded(i)
           op == IF i.op = "C_SLLI" THEN "SLL" ELSE IF i.op = "C_SRLI" THEN "SRL" ELSE "SRA"
           v == Alu(op, s.x[i.rd], W(i.imm))
<1>1. e.op \in DOMAIN ImmOp /\ ImmOp[e.op] = op /\ e.rd = i.rd /\ e.rs1 = i.rd /\ e.imm = i.imm
  BY DEF Expanded, CAluOps, ImmOp
<1>2. AluClass(op) = "Shift"
  BY DEF AluClass
<1>3. W(i.imm) % Xlen = i.imm
  <2>1. Xlen \in Nat \ {0} /\ Xlen \in 0 .. Xlen
    BY CpuAssumption
  <2>2. Xlen < WordSize
    BY <2>1, Pow2Values
  <2>3. W(i.imm) = i.imm
    BY <2>1, <2>2, WrapOfWord, WordFacts DEF Word
  <2> DEFINE n == i.imm
  <2> HIDE DEF n
  <2>4. n \in Nat /\ n < Xlen
    BY DEF n
  <2>5. n % Xlen = n
    BY <2>1, <2>4, WrapSlot
  <2>6. QED  BY <2>3, <2>5 DEF n
<1>4. Exec32(s, e, next, c) = Done(Set(s, i.rd, v), next, "Shift")
  <2> HIDE DEF e, op
  <2>1. QED  BY <1>1, <1>2, ImmediateExec
<1>5. v = IF i.op = "C_SLLI" THEN Sll(s.x[i.rd], i.imm)
          ELSE IF i.op = "C_SRLI" THEN Srl(s.x[i.rd], i.imm) ELSE Sra(s.x[i.rd], i.imm)
  BY <1>3 DEF Alu
<1>6. Exec16(s, i, next, 0) = Done(Set(s, i.rd, v), next, "Shift")
  <2> HIDE DEF v
  <2>1. CASE i.op = "C_SLLI"
    BY <1>5, <2>1 DEF Exec16, Exec16Q2, Shift, Q0Ops, Q1Ops, Q2Ops, CAluOps
  <2>2. CASE i.op \in {"C_SRLI", "C_SRAI"}
    BY <1>5, <2>2 DEF Exec16, Exec16Q1, Shift, Q0Ops, Q1Ops, Q2Ops, CAluOps
  <2>3. QED  BY <2>1, <2>2
<1> HIDE DEF e, v
<1>7. QED  BY <1>4, <1>6 DEF Agree, e

(* the operations on registers, *)
LEMMA ExpandedAlu ==
    ASSUME NEW s, Typed(s), NEW i, {i.rd, i.rs1, i.rs2} \subseteq Reg, NEW next, NEW c,
           i.op \in {"C_ANDI", "C_MV", "C_ADD"} \cup DOMAIN CAluOps
    PROVE  Agree(s, i, next, c)
<1> DEFINE e == Expanded(i)
<1>1. CASE i.op = "C_ANDI"
  <2>1. e.op = "ANDI" /\ e.rd = i.rd /\ e.rs1 = i.rd /\ e.imm = i.imm
    BY <1>1 DEF Expanded, CAluOps
  <2>2. Exec16(s, i, next, 0) = Done(Set(s, i.rd, And(s.x[i.rd], W(i.imm))), next, "Alu")
    BY <1>1 DEF Exec16, Exec16Q1, Q0Ops, Q1Ops, Q2Ops, CAluOps
  <2>3. e.op \in DOMAIN ImmOp /\ ImmOp[e.op] = "AND" /\ AluClass("AND") = "Alu"
    BY <2>1 DEF ImmOp, AluClass
  <2> HIDE DEF e
  <2>4. Alu("AND", s.x[i.rd], W(i.imm)) = And(s.x[i.rd], W(i.imm))
    BY DEF Alu
  <2>5. QED  BY <2>1, <2>2, <2>3, <2>4, ImmediateExec DEF Agree, e
<1>2. CASE i.op \in DOMAIN CAluOps
  <2> DEFINE op == CAluOps[i.op]
  <2>1. e.op = op /\ e.rd = i.rd /\ e.rs1 = i.rd /\ e.rs2 = i.rs2
    BY <1>2 DEF Expanded, CAluOps
  <2>2. op \in AluOps /\ AluClass(op) = "Alu"
    BY <1>2 DEF AluOps, AluClass, CAluOps
  <2>3. Exec16(s, i, next, 0) = Done(Set(s, i.rd, Alu(op, s.x[i.rd], s.x[i.rs2])), next, "Alu")
    BY <1>2 DEF Exec16, Exec16Q1, Q0Ops, Q1Ops, Q2Ops, CAluOps
  <2> HIDE DEF e, op
  <2>4. QED  BY <2>1, <2>2, <2>3, RegisterExec DEF Agree, e
<1>3. CASE i.op \in {"C_MV", "C_ADD"}
  <2> DEFINE base == IF i.op = "C_MV" THEN 0 ELSE i.rd
             v == W(s.x[base] + s.x[i.rs2])
  <2>1. e.op = "ADD" /\ e.rd = i.rd /\ e.rs1 = base /\ e.rs2 = i.rs2
    BY <1>3 DEF Expanded, CAluOps
  <2>2. s.x[0] = 0 /\ s.x[i.rs2] \in Word
    BY RegisterWord DEF Typed
  <2>3. i.op = "C_MV" => v = s.x[i.rs2]
    <3>1. i.op = "C_MV" => s.x[base] + s.x[i.rs2] = s.x[i.rs2]
      BY <2>2 DEF Word
    <3>2. W(s.x[i.rs2]) = s.x[i.rs2]
      BY <2>2, WrapOfWord
    <3>3. QED  BY <3>1, <3>2
  <2>4. Exec16(s, i, next, 0) = Done(Set(s, i.rd, v), next, "Alu")
    <3>1. CASE i.op = "C_MV"
      <4> HIDE DEF v
      <4>1. QED  BY <2>3, <3>1 DEF Exec16, Exec16Q2, Q0Ops, Q1Ops, Q2Ops, CAluOps
    <3>2. CASE i.op = "C_ADD"
      BY <3>2 DEF Exec16, Exec16Q2, Q0Ops, Q1Ops, Q2Ops, CAluOps
    <3>3. QED  BY <1>3, <3>1, <3>2
  <2>5. "ADD" \in AluOps /\ AluClass("ADD") = "Alu"
    BY DEF AluOps, AluClass
  <2>6. Alu("ADD", s.x[base], s.x[i.rs2]) = v
    BY DEF Alu
  <2> HIDE DEF e, base, v
  <2>7. QED  BY <2>1, <2>4, <2>5, <2>6, RegisterExec DEF Agree, e
<1>4. QED  BY <1>1, <1>2, <1>3

(* the jumps, but for C.JALR through x1, *)
LEMMA ExpandedJumps ==
    ASSUME NEW s, Typed(s), NEW i, {i.rd, i.rs1, i.rs2} \subseteq Reg,
           NEW next, NEW c, i.op \in {"C_JAL", "C_J", "C_JR", "C_JALR", "C_LUI"},
           ~(i.op = "C_JALR" /\ i.rs1 = 1)
    PROVE  Agree(s, i, next, c)
<1> DEFINE e == Expanded(i)
<1> USE DEF BranchOps, LoadSize, StoreSize, ImmOp, AluOps, MulOps, DivOps, AmoOps
<1>1. CASE i.op = "C_LUI"
  <2>1. e.op = "LUI" /\ e.rd = i.rd /\ e.imm = i.imm
    BY <1>1 DEF Expanded, CAluOps
  <2>2. Exec16(s, i, next, 0) = Done(Set(s, i.rd, W(i.imm)), next, "Alu")
    BY <1>1 DEF Exec16, Exec16Q1, Q0Ops, Q1Ops, Q2Ops, CAluOps
  <2> HIDE DEF e
  <2>3. Exec32(s, e, next, c) = Done(Set(s, e.rd, W(e.imm)), next, "Alu")
    BY <2>1 DEF Exec32
  <2>4. QED  BY <2>1, <2>2, <2>3 DEF Agree, e
<1>2. CASE i.op \in {"C_JAL", "C_J"}
  <2>1. e.op = "JAL" /\ e.rd = (IF i.op = "C_JAL" THEN 1 ELSE 0) /\ e.imm = i.imm
    BY <1>2 DEF Expanded, CAluOps
  <2>2. Exec16(s, i, next, 0) =
          Done(Set(s, IF i.op = "C_JAL" THEN 1 ELSE 0, next), W(s.pc + i.imm), "Jump")
    <3>1. Set(s, 0, next) = s
      BY DEF Set
    <3>2. CASE i.op = "C_JAL"
      BY <3>2 DEF Exec16, Exec16Q1, Q0Ops, Q1Ops, Q2Ops, CAluOps
    <3>3. CASE i.op = "C_J"
      <4>1. Exec16(s, i, next, 0) = Done(s, W(s.pc + i.imm), "Jump")
        BY <3>3 DEF Exec16, Exec16Q1, Q0Ops, Q1Ops, Q2Ops, CAluOps
      <4>2. QED  BY <3>1, <3>3, <4>1
    <3>4. QED  BY <1>2, <3>2, <3>3
  <2> HIDE DEF e
  <2>3. Exec32(s, e, next, c) = Done(Set(s, e.rd, next), W(s.pc + e.imm), "Jump")
    BY <2>1 DEF Exec32
  <2>4. QED  BY <2>1, <2>2, <2>3 DEF Agree, e
<1>3. CASE i.op \in {"C_JR", "C_JALR"}
  <2> DEFINE to == (s.x[i.rs1] \div 2) * 2
             link == IF i.op = "C_JALR" THEN 1 ELSE 0
  <2>1. e.op = "JALR" /\ e.rd = link /\ e.rs1 = i.rs1 /\ e.imm = 0
    BY <1>3 DEF Expanded, CAluOps
  <2>2. s.x[i.rs1] \in Word /\ s.x[i.rs1] + 0 = s.x[i.rs1]
    BY RegisterWord DEF Word
  <2>3. W(s.x[i.rs1] + 0) = s.x[i.rs1]
    BY <2>2, WrapOfWord
  <2>4. Exec16(s, i, next, 0) = Done(Set(s, link, next), to, "Jump")
    <3>1. CASE i.op = "C_JR"
      <4>1. Set(s, link, next) = s
        BY <3>1 DEF Set
      <4>2. Exec16(s, i, next, 0) = Done(s, to, "Jump")
        BY <3>1 DEF Exec16, Exec16Q2, Q0Ops, Q1Ops, Q2Ops, CAluOps
      <4>3. QED  BY <4>1, <4>2
    <3>2. CASE i.op = "C_JALR"
      <4> DEFINE linked == Set(s, 1, next)
      <4>1. linked.x[i.rs1] = s.x[i.rs1]
        <5>1. 1 \in Reg /\ i.rs1 \in Reg /\ i.rs1 # 1
          BY <3>2, CpuAssumption
        <5>2. QED  BY <5>1, SetElsewhere
      <4>2. Exec16(s, i, next, 0) = Done(linked, (linked.x[i.rs1] \div 2) * 2, "Jump")
        BY <3>2 DEF Exec16, Exec16Q2, Q0Ops, Q1Ops, Q2Ops, CAluOps
      <4>3. QED  BY <3>2, <4>1, <4>2
    <3>3. QED  BY <1>3, <3>1, <3>2
  <2> HIDE DEF e, link
  <2>5. Exec32(s, e, next, c) = Done(Set(s, e.rd, next), (W(s.x[e.rs1] + e.imm) \div 2) * 2, "Jump")
    BY <2>1 DEF Exec32
  <2>6. QED  BY <2>1, <2>3, <2>4, <2>5 DEF Agree, e
<1>4. QED  BY <1>1, <1>2, <1>3

(* the branches, *)
LEMMA ExpandedBranches ==
    ASSUME NEW s, Typed(s), NEW i, NEW next, NEW c, i.op \in {"C_BEQZ", "C_BNEZ"}
    PROVE  Agree(s, i, next, c)
<1> DEFINE e == Expanded(i)
           taken == IF i.op = "C_BEQZ" THEN s.x[i.rs1] = 0 ELSE s.x[i.rs1] # 0
<1>1. /\ e.op = (IF i.op = "C_BEQZ" THEN "BEQ" ELSE "BNE")
      /\ e.rs1 = i.rs1 /\ e.rs2 = 0 /\ e.imm = i.imm
  BY DEF Expanded, CAluOps
<1>2. s.x[0] = 0
  BY DEF Typed
<1>3. Exec16(s, i, next, 0) = CBranch(s, i, next, taken)
  <2>1. CASE i.op = "C_BEQZ"
    BY <2>1 DEF Exec16, Exec16Q1, Q0Ops, Q1Ops, Q2Ops, CAluOps
  <2>2. CASE i.op = "C_BNEZ"
    BY <2>2 DEF Exec16, Exec16Q1, Q0Ops, Q1Ops, Q2Ops, CAluOps
  <2>3. QED  BY <2>1, <2>2
<1> HIDE DEF e
<1>4. Exec32(s, e, next, c) = ExecBranch(s, e, next)
  BY <1>1 DEF Exec32, BranchOps, LoadSize, StoreSize, ImmOp, AluOps, MulOps, DivOps, AmoOps
<1>5. Branch(s.x[e.rs1], s.x[e.rs2])[e.op] <=> taken
  <2>1. \A a, b : Branch(a, b)["BEQ"] <=> a = b
    BY DEF Branch
  <2>2. \A a, b : Branch(a, b)["BNE"] <=> a # b
    BY DEF Branch
  <2>3. CASE i.op = "C_BEQZ"
    <3>1. e.op = "BEQ" /\ (taken <=> s.x[i.rs1] = 0)
      BY <1>1, <2>3
    <3> HIDE DEF taken
    <3>2. QED  BY <1>1, <1>2, <2>1, <3>1
  <2>4. CASE i.op = "C_BNEZ"
    <3>1. e.op = "BNE" /\ (taken <=> s.x[i.rs1] # 0)
      BY <1>1, <2>4
    <3> HIDE DEF taken
    <3>2. QED  BY <1>1, <1>2, <2>2, <3>1
  <2>5. QED  BY <2>3, <2>4
<1> HIDE DEF taken
<1>6. ExecBranch(s, e, next) = CBranch(s, i, next, taken)
  BY <1>1, <1>5 DEF ExecBranch, CBranch
<1>7. QED  BY <1>3, <1>4, <1>6 DEF Agree, e

(* and the stores. *)
LEMMA ExpandedStores ==
    ASSUME NEW s, NEW i, NEW next, NEW c, i.op \in {"C_SW", "C_SWSP"}
    PROVE  Agree(s, i, next, c)
<1> DEFINE e == Expanded(i)
           base == IF i.op = "C_SW" THEN i.rs1 ELSE 2
           a == W(s.x[base] + i.imm)
<1>1. e.op = "SW" /\ e.rs1 = base /\ e.rs2 = i.rs2 /\ e.imm = i.imm
  BY DEF Expanded, CAluOps
<1>2. Exec16(s, i, next, 0) = CStore(s, a, s.x[i.rs2], next)
  BY DEF Exec16, Exec16Q0, Exec16Q2, Q0Ops, Q1Ops, Q2Ops, CAluOps
<1> HIDE DEF e, base
<1>3. Exec32(s, e, next, c) = ExecStore(s, e, next)
  BY <1>1 DEF Exec32, BranchOps, LoadSize, StoreSize, ImmOp, AluOps, MulOps, DivOps, AmoOps
<1>4. ExecStore(s, e, next) = CStore(s, a, s.x[i.rs2], next)
  BY <1>1 DEF ExecStore, CStore, StoreSize
<1>5. QED  BY <1>2, <1>3, <1>4 DEF Agree, e

(* A load that traps does so either way, and only the compressed one has set *)
(* its register.                                                             *)
LEMMA ExpandedLoads ==
    ASSUME NEW s, NEW i, NEW next, NEW c, i.op \in {"C_LW", "C_LWSP"}
    PROVE  \/ Agree(s, i, next, c)
           \/ Exec16(s, i, next, 0).trap /\ Exec32(s, Expanded(i), next, c).trap
<1> DEFINE e == Expanded(i)
           base == IF i.op = "C_LW" THEN i.rs1 ELSE 2
           a == W(s.x[base] + i.imm)
<1>1. e.op = "LW" /\ e.rd = i.rd /\ e.rs1 = base /\ e.imm = i.imm
  BY DEF Expanded, CAluOps
<1>2. Exec16(s, i, next, 0) = CLoad(s, i.rd, a, next)
  BY DEF Exec16, Exec16Q0, Exec16Q2, Q0Ops, Q1Ops, Q2Ops, CAluOps
<1> HIDE DEF e, base
<1>3. Exec32(s, e, next, c) = ExecLoad(s, e, next)
  BY <1>1 DEF Exec32, BranchOps, LoadSize, StoreSize, ImmOp, AluOps, MulOps, DivOps, AmoOps
<1>4. CASE LoadOk(a, 4)
  <2>1. ExecLoad(s, e, next) = CLoad(s, i.rd, a, next)
    BY <1>1, <1>4 DEF ExecLoad, CLoad, LoadSize
  <2>2. QED  BY <1>2, <1>3, <2>1 DEF Agree, e
<1>5. CASE ~LoadOk(a, 4)
  <2>1. ExecLoad(s, e, next).trap
    BY <1>1, <1>5 DEF ExecLoad, LoadSize, Trap
  <2>2. CLoad(s, i.rd, a, next).trap
    BY <1>5 DEF CLoad, Trap
  <2>3. QED  BY <1>2, <1>3, <2>1, <2>2 DEF e
<1>6. QED  BY <1>4, <1>5

(* For every program, register file and memory, and every compressed         *)
(* instruction outside the encodings RV32 reserves: it does what its 32-bit   *)
(* expansion does, but for C.JALR through its own link register and the       *)
(* destination of a compressed load that traps.                              *)
THEOREM CompressedAreExpansions == Spec => []CompressedAgrees
<1>1. MachineInv => CompressedAgrees
  <2> SUFFICES ASSUME MachineInv, NEW i \in Program, Compressed(i), ~Reserved(i)
               PROVE  \/ SameAsExpanded(i)
                      \/ i.op = "C_JALR" /\ i.rs1 = 1
                      \/ i.op \in {"C_LW", "C_LWSP"} /\ TrapsEitherWay(i)
    BY DEF CompressedAgrees
  <2> DEFINE next == W(m.pc + 2)
  <2>1. Typed(m) /\ {i.rd, i.rs1, i.rs2} \subseteq Reg /\ i.imm \in Int
        /\ (i.op \in {"C_SLLI", "C_SRLI", "C_SRAI"} => i.imm \in Nat)
    BY CpuAssumption DEF MachineInv
  <2>2. i.op \in {"C_SLLI", "C_SRLI", "C_SRAI"} => i.imm < Xlen
    BY <2>1, CpuAssumption DEF Reserved
  <2>3. ~(i.op = "C_ADDI4SPN" /\ i.imm = 0)
    BY DEF Reserved
  <2>4. Agree(m, i, next, count) <=> SameAsExpanded(i)
    BY DEF Agree, SameAsExpanded
  <2>5. i.op \in {"C_EBREAK", "C_ILLEGAL", "C_ADDI4SPN", "C_ADDI", "C_ADDI16SP", "C_LI",
                  "C_SLLI", "C_SRLI", "C_SRAI", "C_ANDI", "C_MV", "C_ADD", "C_JAL", "C_J",
                  "C_JR", "C_JALR", "C_LUI", "C_BEQZ", "C_BNEZ", "C_SW", "C_SWSP", "C_LW",
                  "C_LWSP"} \cup DOMAIN CAluOps
    BY DEF Compressed, Q0Ops, Q1Ops, Q2Ops
  <2>6. CASE i.op \in {"C_EBREAK", "C_ILLEGAL"}
    BY <2>4, <2>6, ExpandedTraps
  <2>7. CASE i.op \in {"C_ADDI4SPN", "C_ADDI", "C_ADDI16SP", "C_LI"}
    BY <2>1, <2>3, <2>4, <2>7, ExpandedAdds
  <2>8. CASE i.op \in {"C_SLLI", "C_SRLI", "C_SRAI"}
    BY <2>1, <2>2, <2>4, <2>8, ExpandedShifts
  <2>9. CASE i.op \in {"C_ANDI", "C_MV", "C_ADD"} \cup DOMAIN CAluOps
    BY <2>1, <2>4, <2>9, ExpandedAlu
  <2>10. CASE i.op \in {"C_JAL", "C_J", "C_JR", "C_JALR", "C_LUI"}
    <3>1. CASE i.op = "C_JALR" /\ i.rs1 = 1
      BY <3>1
    <3>2. CASE ~(i.op = "C_JALR" /\ i.rs1 = 1)
      BY <2>1, <2>4, <2>10, <3>2, ExpandedJumps
    <3>3. QED  BY <3>1, <3>2
  <2>11. CASE i.op \in {"C_BEQZ", "C_BNEZ"}
    BY <2>1, <2>4, <2>11, ExpandedBranches
  <2>12. CASE i.op \in {"C_SW", "C_SWSP"}
    BY <2>4, <2>12, ExpandedStores
  <2>13. CASE i.op \in {"C_LW", "C_LWSP"}
    BY <2>4, <2>13, ExpandedLoads DEF TrapsEitherWay
  <2>14. QED  BY <2>5, <2>6, <2>7, <2>8, <2>9, <2>10, <2>11, <2>12, <2>13
<1>2. QED  BY <1>1, MachineInit, MachineStep, PTL DEF Spec
-----------------------------------------------------------------------------
(* Multiplication and division. *)

(* The signed values of words: half of them negative, one word each. *)
LEMMA HalfFacts ==
    \E h \in Nat : h >= 8 /\ WordSize = 2 * h /\ WordSize \div 2 = h
<1>1. PICK h \in Nat : WordSize = 2 * h
  BY WordFacts
<1>2. h >= 8
  BY <1>1, WordFacts
<1>3. WordSize \div 2 = h
  BY <1>1
<1>4. QED  BY <1>1, <1>2, <1>3

(* A word and its signed value differ by 0 or by all words. *)
LEMMA SignedRange ==
    ASSUME NEW h \in Nat, WordSize = 2 * h, NEW v \in Word
    PROVE  /\ Signed(v) \in -h .. h - 1
           /\ \E k \in {0, 1} : v = Signed(v) + WordSize * k
<1>1. v \in 0 .. 2 * h - 1
  BY DEF Word
<1>2. Signed(v) = IF v >= h THEN v - 2 * h ELSE v
  BY <1>1 DEF Signed
<1>3. CASE v >= h
  BY <1>1, <1>2, <1>3
<1>4. CASE v < h
  BY <1>1, <1>2, <1>4
<1>5. QED  BY <1>1, <1>3, <1>4

(* Wrapping a signed number that fits loses nothing, *)
LEMMA SignedOfWrap ==
    ASSUME NEW h \in Nat \ {0}, WordSize = 2 * h, NEW q \in -h .. h - 1
    PROVE  Signed(W(q)) = q
<1> DEFINE N == WordSize
           v == IF q >= 0 THEN q ELSE q + N
           k == IF q >= 0 THEN 0 ELSE -1
<1>1. N \in Nat \ {0} /\ v \in 0 .. N - 1 /\ k \in Int /\ q \in Int
  OBVIOUS
<1>2. q = N * k + v
  OBVIOUS
<1> HIDE DEF N, k, v
<1>3. q % N = v
  BY <1>1, <1>2, ModUnique
<1>4. W(q) = v
  BY <1>3 DEF W, N
<1>5. QED  BY <1>4 DEF Signed, v, N

(* nor does reading a word as signed. *)
LEMMA WrapOfSigned ==
    ASSUME NEW v \in Word
    PROVE  W(Signed(v)) = v
<1> DEFINE N == WordSize
           t == Signed(v)
<1>1. PICK h \in Nat : WordSize = 2 * h
  BY HalfFacts
<1>2. PICK k \in {0, 1} : v = t + N * k
  BY <1>1, SignedRange
<1>3. t \in Int /\ N \in Nat \ {0} /\ v \in 0 .. N - 1
  BY SignedInt, WordFacts DEF Word
<1> HIDE DEF N, t
<1>4. t = N * (-k) + v /\ -k \in Int
  BY <1>2, <1>3
<1>5. t % N = v
  BY <1>3, <1>4, ModUnique
<1>6. QED  BY <1>5 DEF W, N, t

(* Words have the product of their values, up to multiples of WordSize. *)
LEMMA ProductOfWords ==
    ASSUME NEW N \in Nat \ {0}, NEW p \in Int, NEW j \in Int, NEW n \in Int, n = p + N * j
    PROVE  n % N = p % N
<1> DEFINE q == p \div N
           r == p % N
           k == q + j
<1>1. p = N * q + r
  BY DivMod
<1>2. q \in Int /\ r \in 0 .. N - 1
  BY DivModTypes
<1> HIDE DEF q, r
<1>3. N * k = N * q + N * j /\ k \in Int /\ N * q \in Int /\ N * j \in Int
  BY <1>2
<1> HIDE DEF k
<1>4. n = N * k + r
  BY <1>1, <1>2, <1>3
<1>5. n % N = r
  BY <1>2, <1>3, <1>4, ModUnique
<1>6. QED  BY <1>5 DEF r

(* The low half of a product is the same for signed and unsigned operands. *)
LEMMA Products ==
    ASSUME NEW a \in Word, NEW b \in Word
    PROVE  /\ (a * b) % WordSize = (Signed(a) * Signed(b)) % WordSize
           /\ (a * b) % WordSize = (Signed(a) * b) % WordSize
<1> DEFINE N == WordSize
           s == Signed(a)
           t == Signed(b)
           n == a * b
           p == s * t
           o == s * b
<1>1. PICK h \in Nat : WordSize = 2 * h
  BY HalfFacts
<1>2. PICK k \in {0, 1} : a = s + N * k
  BY <1>1, SignedRange
<1>3. PICK l \in {0, 1} : b = t + N * l
  BY <1>1, SignedRange
<1>4. s \in Int /\ t \in Int /\ N \in Nat \ {0} /\ a \in Int /\ b \in Int
  BY SignedInt, WordFacts DEF Word
<1> HIDE DEF N, s, t
<1>5. n = o + N * (k * b)
  <2>1. CASE k = 0
    BY <1>2, <1>4, <2>1
  <2>2. CASE k = 1
    <3>1. (s + N) * b = s * b + N * b
      BY <1>4
    <3>2. QED  BY <1>2, <1>4, <2>2, <3>1
  <2>3. QED  BY <2>1, <2>2
<1>6. o = p + N * (s * l)
  <2>1. CASE l = 0
    BY <1>3, <1>4, <2>1
  <2>2. CASE l = 1
    <3>1. s * (t + N) = s * t + N * s
      BY <1>4
    <3>2. QED  BY <1>3, <1>4, <2>2, <3>1
  <2>3. QED  BY <2>1, <2>2
<1>7. n \in Int /\ o \in Int /\ p \in Int /\ k * b \in Int /\ s * l \in Int
  BY <1>4
<1> HIDE DEF n, o, p
<1>8. n % N = o % N
  <2> DEFINE j == k * b
  <2>1. j \in Int /\ n = o + N * j
    BY <1>5, <1>7
  <2> HIDE DEF j
  <2>2. QED  BY <1>4, <1>7, <2>1, ProductOfWords
<1>9. o % N = p % N
  <2> DEFINE j == s * l
  <2>1. j \in Int /\ o = p + N * j
    BY <1>6, <1>7
  <2> HIDE DEF j
  <2>2. QED  BY <1>4, <1>7, <2>1, ProductOfWords
<1>10. QED  BY <1>8, <1>9 DEF n, o, p, N, s, t

(* The high half of a product whose size is bounded is a signed word. *)
LEMMA HighHalf ==
    ASSUME NEW h \in Nat, h >= 8, WordSize = 2 * h, NEW p \in Int,
           p >= -(WordSize * h), p < WordSize * h
    PROVE  Signed(W(p \div WordSize)) * WordSize + (p % WordSize) = p
<1> DEFINE N == WordSize
           q == p \div N
           r == p % N
<1>1. N \in Nat \ {0} /\ N = 2 * h /\ p >= -(N * h) /\ p < N * h
  OBVIOUS
<1> HIDE DEF N
<1>2. p = N * q + r
  BY <1>1, DivMod
<1>3. q \in Int /\ r \in 0 .. N - 1
  BY <1>1, DivModTypes
<1> HIDE DEF q, r
<1>4. q < h
  <2>1. q >= h => N * q >= N * h
    BY <1>1, <1>3
  <2>2. QED  BY <1>1, <1>2, <1>3, <2>1
<1>5. q >= -h
  <2>1. q <= -h - 1 => N * q <= -(N * h) - N
    <3>1. N * (-h - 1) = -(N * h) - N
      BY <1>1
    <3>2. q <= -h - 1 => N * q <= N * (-h - 1)
      BY <1>1, <1>3
    <3>3. QED  BY <3>1, <3>2
  <2>2. QED  BY <1>1, <1>2, <1>3, <2>1
<1>6. q \in -h .. h - 1
  BY <1>3, <1>4, <1>5
<1>7. Signed(W(q)) = q
  BY <1>6, SignedOfWrap
<1>8. q * N + r = p
  BY <1>1, <1>2, <1>3
<1>9. QED  BY <1>7, <1>8 DEF q, r, N

(* A product of words has two words. *)
LEMMA ProductBounds ==
    ASSUME NEW h \in Nat, h >= 8, NEW s \in -h .. h - 1, NEW t \in -h .. 2 * h - 1
    PROVE  s * t \in Int /\ s * t >= -(2 * h * h) /\ s * t < 2 * h * h
<1>1. s * t \in Int /\ h * h \in Nat
  OBVIOUS
<1>2. CASE s >= 0 /\ t >= 0
  <2>1. s * t <= (h - 1) * t
    BY <1>2
  <2>2. (h - 1) * t <= (h - 1) * (2 * h - 1)
    BY <1>2
  <2>3. (h - 1) * (2 * h - 1) < 2 * h * h
    OBVIOUS
  <2>4. s * t >= 0
    BY <1>2
  <2>5. (h - 1) * t \in Int /\ (h - 1) * (2 * h - 1) \in Int
    OBVIOUS
  <2>6. QED  BY <1>1, <2>1, <2>2, <2>3, <2>4, <2>5
<1>3. CASE s >= 0 /\ t < 0
  <2>1. s * t >= s * (-h)
    BY <1>3
  <2>2. s * (-h) >= -(h * h)
    BY <1>3
  <2>3. s * t <= 0 /\ s * (-h) \in Int
    BY <1>3
  <2>4. QED  BY <1>1, <2>1, <2>2, <2>3
<1>4. CASE s < 0 /\ t >= 0
  <2>1. s * t >= (-h) * t
    BY <1>4
  <2>2. (-h) * t >= (-h) * (2 * h - 1)
    BY <1>4
  <2>3. (-h) * (2 * h - 1) >= -(2 * h * h)
    OBVIOUS
  <2>4. s * t <= 0 /\ (-h) * t \in Int /\ (-h) * (2 * h - 1) \in Int
    BY <1>4
  <2>5. QED  BY <1>1, <2>1, <2>2, <2>3, <2>4
<1>5. CASE s < 0 /\ t < 0
  <2> DEFINE y == -s
             z == -t
  <2>1. y \in 1 .. h /\ z \in 1 .. h /\ s * t = y * z
    BY <1>5
  <2> HIDE DEF y, z
  <2>2. y * z <= h * z /\ h * z <= h * h /\ y * z \in Int /\ h * z \in Int
    BY <2>1
  <2>3. y * z >= 0
    BY <2>1
  <2>4. h * h < 2 * h * h
    OBVIOUS
  <2>5. QED  BY <1>1, <2>1, <2>2, <2>3, <2>4
<1>6. QED  BY <1>2, <1>3, <1>4, <1>5
(* What the multiplications write, taken together, is the whole product. *)
LEMMA MultiplyExact ==
    ASSUME NEW a \in Word, NEW b \in Word
    PROVE  LET r == MulDiv(a, b)
           IN  /\ Signed(r.MULH) * WordSize + r.MUL = Signed(a) * Signed(b)
               /\ Signed(r.MULHSU) * WordSize + r.MUL = Signed(a) * b
               /\ r.MULHU * WordSize + r.MUL = a * b
<1> DEFINE s == Signed(a)
           t == Signed(b)
           p == s * t
           o == s * b
           n == a * b
           N == WordSize
           r == MulDiv(a, b)
<1>1. PICK h \in Nat : h >= 8 /\ WordSize = 2 * h
  BY HalfFacts
<1>2. s \in -h .. h - 1 /\ t \in -h .. h - 1 /\ b \in 0 .. 2 * h - 1
  BY <1>1, SignedRange DEF Word
<1>3. r.MUL = W(n) /\ r.MULH = W(p \div N) /\ r.MULHSU = W(o \div N) /\ r.MULHU = n \div N
  BY DEF MulDiv
<1>4. n % N = p % N /\ n % N = o % N
  BY Products
<1>5. p \in Int /\ p >= -(2 * h * h) /\ p < 2 * h * h
  <2> HIDE DEF s, t
  <2>1. t \in -h .. 2 * h - 1
    BY <1>1, <1>2
  <2>2. QED  BY <1>1, <1>2, <2>1, ProductBounds
<1>6. o \in Int /\ o >= -(2 * h * h) /\ o < 2 * h * h
  <2> HIDE DEF s
  <2>1. b \in -h .. 2 * h - 1
    BY <1>1, <1>2
  <2>2. QED  BY <1>1, <1>2, <2>1, ProductBounds
<1>7. n \in Int /\ N \in Nat \ {0}
  BY WordFacts DEF Word
<1> HIDE DEF p, o, n
<1>8. WordSize * h = 2 * h * h
  BY <1>1
<1>9. Signed(W(p \div WordSize)) * WordSize + (p % WordSize) = p
  BY <1>1, <1>5, <1>8, HighHalf
<1>10. Signed(W(o \div WordSize)) * WordSize + (o % WordSize) = o
  BY <1>1, <1>6, <1>8, HighHalf
<1>11. n = N * (n \div N) + (n % N) /\ n \div N \in Int /\ n % N \in Int
  BY <1>7, DivMod, DivModTypes
<1>12. W(n) = n % N
  BY DEF W
<1>13. Signed(r.MULH) * N + r.MUL = p
  BY <1>3, <1>4, <1>9, <1>12
<1>14. Signed(r.MULHSU) * N + r.MUL = o
  BY <1>3, <1>4, <1>10, <1>12
<1>15. r.MULHU * N + r.MUL = n
  <2> DEFINE y == n \div N
             z == n % N
  <2>1. n = N * y + z /\ y \in Int /\ z \in Int /\ r.MULHU = y /\ r.MUL = z
    BY <1>3, <1>11, <1>12
  <2> HIDE DEF y, z, N, r
  <2>2. y * N = N * y
    BY <1>7, <2>1
  <2>3. QED  BY <2>1, <2>2
<1>16. QED  BY <1>13, <1>14, <1>15 DEF p, o, n

(* Division truncates towards zero: the remainder is smaller than the divisor and has the
   dividend's sign. *)
LEMMA Truncates ==
    ASSUME NEW s \in Int, NEW t \in Int, t # 0
    PROVE  LET q == Quotient(s, t)
               rem == s - t * q
           IN  /\ q \in Int /\ rem \in Int
               /\ Abs(rem) < Abs(t)
               /\ rem = 0 \/ (rem < 0 <=> s < 0)
               /\ Abs(q) = Abs(s) \div Abs(t)
               /\ q > 0 => (s < 0 <=> t < 0)
<1> DEFINE u == Abs(s)
           v == Abs(t)
           d == u \div v
           e == u % v
           q == Quotient(s, t)
           rem == s - t * q
<1>1. u \in Nat /\ v \in Nat \ {0}
  BY DEF Abs
<1>2. (s < 0 => s = -u) /\ (~(s < 0) => s = u) /\ (t < 0 => t = -v) /\ (~(t < 0) => t = v)
  BY DEF Abs
<1>3. (s < 0 <=> t < 0) => q = d
  BY DEF Quotient
<1>4. ~(s < 0 <=> t < 0) => q = -d
  BY DEF Quotient
<1>5. s < 0 => u > 0
  BY DEF Abs
<1> HIDE DEF u, v, q
<1>6. u = v * d + e /\ d \in 0 .. u /\ e \in 0 .. v - 1
  <2>1. u = v * d + e
    BY <1>1, DivMod
  <2>2. d \in 0 .. u
    BY <1>1, DivNat
  <2>3. e \in 0 .. v - 1
    BY <1>1, DivModTypes
  <2>4. QED  BY <2>1, <2>2, <2>3
<1>7. d \in Nat /\ e \in Int /\ e >= 0 /\ e < v
  BY <1>1, <1>6
<1> HIDE DEF d, e
<1>8. v * d \in Int /\ (-v) * (-d) = v * d /\ (-v) * d = -(v * d) /\ v * (-d) = -(v * d)
  BY <1>1, <1>7
<1>9. (s < 0 => rem = -e) /\ (~(s < 0) => rem = e)
  <2>1. CASE s < 0 /\ t < 0
    BY <1>1, <1>2, <1>3, <1>6, <1>7, <1>8, <2>1
  <2>2. CASE s < 0 /\ ~(t < 0)
    BY <1>1, <1>2, <1>4, <1>6, <1>7, <1>8, <2>2
  <2>3. CASE ~(s < 0) /\ t < 0
    BY <1>1, <1>2, <1>4, <1>6, <1>7, <1>8, <2>3
  <2>4. CASE ~(s < 0) /\ ~(t < 0)
    BY <1>1, <1>2, <1>3, <1>6, <1>7, <1>8, <2>4
  <2>5. QED  BY <2>1, <2>2, <2>3, <2>4
<1>10. q \in Int /\ (q = d \/ q = -d)
  BY <1>3, <1>4, <1>7
<1>11. Abs(q) = d
  BY <1>7, <1>10 DEF Abs
<1>12. q > 0 => (s < 0 <=> t < 0)
  BY <1>3, <1>4, <1>7
<1> HIDE DEF rem
<1>13. rem \in Int /\ Abs(rem) = e /\ (rem = 0 \/ (rem < 0 <=> s < 0))
  BY <1>7, <1>9 DEF Abs
<1>14. QED  BY <1>7, <1>10, <1>11, <1>12, <1>13 DEF rem, q, v, u, d
(* DIV and REM join to the dividend, also for 0 and the one overflow. *)
LEMMA SignedDivision ==
    ASSUME NEW a \in Word, NEW b \in Word
    PROVE  LET r == MulDiv(a, b)
               sb == Signed(b)
               q == Signed(r.DIV)
               rem == Signed(r.REM)
           IN  /\ W(q * sb + rem) = a
               /\ sb # 0 => Abs(rem) < Abs(sb) /\ (rem = 0 \/ (rem < 0) = (Signed(a) < 0))
<1> DEFINE s == Signed(a)
           t == Signed(b)
           N == WordSize
           c == SignedDivide(s, t)
           r == MulDiv(a, b)
           q == Signed(r.DIV)
           rem == Signed(r.REM)
<1>1. PICK h \in Nat : h >= 8 /\ WordSize = 2 * h /\ WordSize \div 2 = h
  BY HalfFacts
<1>2. s \in -h .. h - 1 /\ t \in -h .. h - 1
  BY <1>1, SignedRange
<1>3. W(s) = a
  BY WrapOfSigned
<1>4. q = Signed(W(c.q)) /\ rem = Signed(W(c.r))
  BY DEF MulDiv
<1>5. \A n \in -h .. h - 1 : Signed(W(n)) = n
  BY <1>1, SignedOfWrap
<1> SUFFICES /\ W(q * t + rem) = a
             /\ t # 0 => Abs(rem) < Abs(t) /\ (rem = 0 \/ (rem < 0) = (s < 0))
  OBVIOUS
<1> HIDE DEF q, rem
<1>6. CASE t = 0
  <2>1. c.q = -1 /\ c.r = s
    BY <1>6 DEF SignedDivide
  <2> HIDE DEF s, t, c
  <2>2. q = -1 /\ rem = s
    BY <1>1, <1>2, <1>4, <1>5, <2>1
  <2>3. q * t + rem = s
    BY <1>2, <1>6, <2>2
  <2>4. QED  BY <1>3, <1>6, <2>3
<1>7. CASE t # 0 /\ s = -h /\ t = -1
  <2>1. c.q = s /\ c.r = 0
    BY <1>1, <1>7 DEF SignedDivide
  <2>2. PICK k \in {0, 1} : a = s + WordSize * k
    BY <1>1, SignedRange
  <2>3. a = h
    <3>1. a \in Nat
      BY WordFacts DEF Word
    <3> HIDE DEF s
    <3>2. QED  BY <1>1, <1>7, <2>2, <3>1
  <2> HIDE DEF s, t, c
  <2>4. q = s /\ rem = 0
    BY <1>1, <1>2, <1>4, <1>5, <2>1
  <2>5. q * t + rem = h
    BY <1>1, <1>7, <2>4
  <2>6. W(q * t + rem) = a
    BY <2>3, <2>5, WrapOfWord
  <2>7. Abs(rem) < Abs(t)
    BY <1>7, <2>4 DEF Abs
  <2>8. QED  BY <2>4, <2>6, <2>7
<1>8. CASE t # 0 /\ ~(s = -h /\ t = -1)
  <2> DEFINE p == Quotient(s, t)
             o == s - t * p
             d == Abs(s) \div Abs(t)
             e == Abs(s) % Abs(t)
  <2>1. c.q = p /\ c.r = o
    BY <1>1, <1>8 DEF SignedDivide
  <2>2. s \in Int /\ t \in Int
    BY <1>2
  <2>3. /\ p \in Int /\ o \in Int
        /\ Abs(o) < Abs(t)
        /\ o = 0 \/ (o < 0 <=> s < 0)
        /\ Abs(p) = d
        /\ p > 0 => (s < 0 <=> t < 0)
    <3> HIDE DEF s, t
    <3>1. QED  BY <1>8, <2>2, Truncates
  <2>4. Abs(s) \in 0 .. h /\ Abs(t) \in 1 .. h
    <3> HIDE DEF s, t
    <3>1. QED  BY <1>2, <1>8 DEF Abs
  <2>5. d \in 0 .. Abs(s) /\ Abs(s) = Abs(t) * d + e /\ e \in 0 .. Abs(t) - 1
    <3> DEFINE u == Abs(s)
               v == Abs(t)
    <3>1. u \in Nat /\ v \in Nat \ {0}
      BY <2>4
    <3> HIDE DEF u, v
    <3>2. u \div v \in 0 .. u
      BY <3>1, DivNat
    <3>3. u = v * (u \div v) + (u % v)
      BY <3>1, DivMod
    <3>4. u % v \in 0 .. v - 1
      BY <3>1, DivModTypes
    <3>5. QED  BY <3>2, <3>3, <3>4 DEF u, v
  <2> DEFINE u == Abs(s)
             v == Abs(t)
  <2>6. /\ (s < 0 => s = -u) /\ (~(s < 0) => s = u)
        /\ (t < 0 => t = -v) /\ (~(t < 0) => t = v)
    BY <2>2 DEF Abs
  <2>7. (p < 0 => p = -d) /\ (~(p < 0) => p = d)
    BY <2>3, <2>5 DEF Abs
  <2>8. (o < 0 => -o < v) /\ (~(o < 0) => o < v)
    BY <2>3 DEF Abs
  <2>9. p * t + o = s
    <3> HIDE DEF p, s, t
    <3>1. t * p = p * t /\ p * t \in Int
      BY <2>2, <2>3
    <3>2. QED  BY <2>2, <2>3, <3>1
  <2>10. u \in 0 .. h /\ v \in 1 .. h /\ d \in 0 .. u /\ u = v * d + e /\ e \in 0 .. v - 1
    BY <2>4, <2>5
  <2> HIDE DEF s, t, c, p, o, u, v, d, e
  <2>11. p \in -h .. h - 1
    <3>1. SUFFICES ASSUME p = h  PROVE FALSE
      BY <2>3, <2>7, <2>10
    <3>2. u = h /\ s = -h /\ s < 0 /\ t < 0 /\ d = h
      BY <1>1, <1>2, <2>3, <2>6, <2>7, <2>10, <3>1
    <3>3. v >= 2 => v * d >= 2 * d
      BY <2>10
    <3>4. v = 1
      BY <1>1, <2>10, <3>2, <3>3
    <3>5. QED  BY <1>8, <2>6, <3>2, <3>4
  <2>12. o \in -h .. h - 1
    BY <1>1, <2>3, <2>8, <2>10
  <2>13. q = p /\ rem = o
    BY <1>4, <1>5, <2>1, <2>11, <2>12
  <2>14. W(q * t + rem) = a
    BY <1>3, <2>9, <2>13
  <2>15. QED  BY <2>3, <2>13, <2>14
<1>9. QED  BY <1>6, <1>7, <1>8

(* DIVU and REMU do. *)
LEMMA UnsignedDivision ==
    ASSUME NEW a \in Word, NEW b \in Word, b # 0
    PROVE  LET r == MulDiv(a, b)
           IN  r.DIVU * b + r.REMU = a /\ r.REMU < b
<1> DEFINE q == a \div b
           e == a % b
           r == MulDiv(a, b)
<1>1. r.DIVU = q /\ r.REMU = e
  BY DEF MulDiv
<1>2. a \in Nat /\ b \in Nat \ {0}
  BY WordFacts DEF Word
<1>3. a = b * q + e
  BY <1>2, DivMod
<1>4. q \in Int /\ e \in 0 .. b - 1
  BY <1>2, DivModTypes
<1> HIDE DEF q, e, r
<1>5. b * q = q * b /\ q * b \in Int
  BY <1>2, <1>4
<1>6. QED  BY <1>1, <1>2, <1>3, <1>4, <1>5 DEF r

(* Multiplications and divisions of whatever a guest has in register x10 and any other word agree
   with one another and with the arithmetic of the values they stand for. *)
THEOREM ArithmeticIsExact == Spec => []ArithmeticExact
<1>1. Init => MachineInv
  BY MachineInit
<1>2. MachineInv /\ [Next]_vars => MachineInv'
  BY MachineStep
<1>3. MachineInv => ArithmeticExact
  <2> SUFFICES ASSUME MachineInv, NEW b \in Word
               PROVE  LET a == m.x[10]
                          r == MulDiv(a, b)
                          sb == Signed(b)
                          q == Signed(r.DIV)
                          rem == Signed(r.REM)
                      IN  /\ Signed(r.MULH) * WordSize + r.MUL = Signed(a) * sb
                          /\ Signed(r.MULHSU) * WordSize + r.MUL = Signed(a) * b
                          /\ r.MULHU * WordSize + r.MUL = a * b
                          /\ W(q * sb + rem) = a
                          /\ sb # 0 => Abs(rem) < Abs(sb) /\ (rem = 0 \/ (rem < 0) = (Signed(a) < 0))
                          /\ b # 0 => r.DIVU * b + r.REMU = a /\ r.REMU < b
    BY Zenon DEF ArithmeticExact
  <2> DEFINE a == m.x[10]
  <2>1. a \in Word
    BY CpuAssumption DEF MachineInv, Typed, MachineType
  <2> HIDE DEF a
  <2>2. QED  BY Zenon, <2>1, MultiplyExact, SignedDivision, UnsignedDivision DEF a
<1>4. QED  BY <1>1, <1>2, <1>3, PTL DEF Spec
=============================================================================
