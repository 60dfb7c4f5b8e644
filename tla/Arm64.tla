-------------------------------- MODULE Arm64 -------------------------------
(***************************************************************************)
(* The processor, as far as the JIT's code uses it: external to the        *)
(* repository, written from the instructions the encoders of               *)
(* include/Opcode emit.  One action per form of instruction.               *)
(*                                                                         *)
(* Registers hold bit patterns.  Memory is a set of written 4-byte cells;  *)
(* what a cell holds before it is written is given by Fresh.  A code       *)
(* address is the index of an instruction, from 0.                         *)
(***************************************************************************)
EXTENDS Opcode

CONSTANT Fresh(_)   \* the words a cell not written yet may read as

VARIABLES
  x,       \* x0 .. x30, and sp at index 31
  flags,   \* the last comparison: [w, a, b]
  pc,      \* index of the next instruction
  mem      \* the cells written: address -> word

cpu == << x, flags, pc, mem >>

Size(w) == IF w = "X" THEN XWordBase ELSE WordBase

\* Register n as an operand: 31 is the zero register.
Reg(n, w) == IF n = 31 THEN 0 ELSE x[n] % Size(w)

Signed(value, w) ==
  IF value >= Size(w) \div 2 THEN value - Size(w) ELSE value

\* Division rounds to zero, and division by zero gives zero.
Quotient(a, b) ==
  LET abs(n) == IF n < 0 THEN -n ELSE n
      q == abs(a) \div abs(b)
  IN IF b = 0 THEN 0 ELSE IF (a < 0) = (b < 0) THEN q ELSE -q

Holds(cond) ==
  LET a == flags.a   sa == Signed(flags.a, flags.w)
      b == flags.b   sb == Signed(flags.b, flags.w)
  IN CASE cond = "eq" -> a = b    [] cond = "ne" -> a # b
       [] cond = "lt" -> sa < sb  [] cond = "cc" -> a < b
       [] cond = "gt" -> sa > sb  [] cond = "hi" -> a > b
       [] cond = "le" -> sa <= sb [] cond = "ls" -> a <= b
       [] cond = "ge" -> sa >= sb [] cond = "cs" -> a >= b

Power(h) == HalfBase ^ h

\* The new value of the destination of an instruction on registers.  The
\* immediate forms of add and sub take sp as register 31.
Computed(ins) ==
  LET w == ins.w
      a == Reg(ins.n, w)
      b == Reg(ins.m, w)
      p == Power(ins.m)
      old == Reg(ins.d, w)
  IN (CASE ins.op = "mov"  -> b
        [] ins.op = "movz" -> ins.imm * p
        [] ins.op = "movk" -> old + (ins.imm - ((old \div p) % HalfBase)) * p
        [] ins.op = "add"  -> x[ins.n] + ins.imm
        [] ins.op = "sub"  -> x[ins.n] - ins.imm
        [] ins.op = "addr" -> a + b
        [] ins.op = "subr" -> a - b
        [] ins.op = "mul"  -> Signed(a, w) * Signed(b, w)
        [] ins.op = "sdiv" -> Quotient(Signed(a, w), Signed(b, w))
        [] ins.op = "udiv" -> Quotient(a, b)
        [] ins.op = "csel" -> IF Holds(ins.c) THEN a ELSE b) % Size(w)

RegisterOps == {"mov", "movz", "movk", "add", "sub", "addr", "subr", "mul",
                "sdiv", "udiv", "csel"}

Cells(addr, w) == IF w = "X" THEN {addr, addr + 4} ELSE {addr}

\* The values an access of width w at addr may read.
Loaded(addr, w) ==
  LET cell(a) == IF a \in DOMAIN mem THEN {mem[a]} ELSE Fresh(a)
  IN IF w = "X" THEN {lo + WordBase * hi : lo \in cell(addr), hi \in cell(addr + 4)}
                ELSE cell(addr)

Stored(m, addr, w, value) ==
  [a \in DOMAIN m \cup Cells(addr, w) |->
     IF a \notin Cells(addr, w) THEN m[a]
     ELSE IF a = addr THEN value % WordBase ELSE (value \div WordBase) % WordBase]

Address(ins) ==
  (IF ins.op \in {"ldrr", "strr"} THEN x[ins.n] + x[ins.m]
   ELSE x[ins.n] + ins.imm * AccessSize(ins.w)) % XWordBase

\* Address and written-back base of a pair.
PairAddress(ins) == IF ins.c = "PostIndex" THEN x[ins.n] ELSE x[ins.n] + ins.imm
PairBase(ins) == IF ins.c = "SignedOffset" THEN x[ins.n] ELSE x[ins.n] + ins.imm

\* Register 31 as a destination is sp for add and sub immediate only; what
\* goes to the zero register is lost.
Compute(ins) ==
  /\ ins.op \in RegisterOps
  /\ x' = IF ins.d = 31 /\ ins.op \notin {"add", "sub"} THEN x
          ELSE [x EXCEPT ![ins.d] = Computed(ins)]
  /\ pc' = pc + 1
  /\ UNCHANGED << flags, mem >>

Compare(ins) ==
  /\ ins.op \in {"cmpr", "cmpi"}
  /\ flags' = [w |-> ins.w, a |-> Reg(ins.n, ins.w),
               b |-> IF ins.op = "cmpi" THEN ins.imm ELSE Reg(ins.m, ins.w)]
  /\ pc' = pc + 1
  /\ UNCHANGED << x, mem >>

Load(ins) ==
  /\ ins.op \in {"ldr", "ldrr"}
  /\ \E v \in Loaded(Address(ins), ins.w) : x' = [x EXCEPT ![ins.d] = v]
  /\ pc' = pc + 1
  /\ UNCHANGED << flags, mem >>

Store(ins) ==
  /\ ins.op \in {"str", "strr"}
  /\ mem' = Stored(mem, Address(ins), ins.w, Reg(ins.d, ins.w))
  /\ pc' = pc + 1
  /\ UNCHANGED << x, flags >>

LoadPair(ins) ==
  /\ ins.op = "ldp"
  /\ \E v \in Loaded(PairAddress(ins), "X"), w \in Loaded(PairAddress(ins) + 8, "X") :
       x' = [x EXCEPT ![ins.n] = PairBase(ins), ![ins.d] = v, ![ins.m] = w]
  /\ pc' = pc + 1
  /\ UNCHANGED << flags, mem >>

StorePair(ins) ==
  /\ ins.op = "stp"
  /\ mem' = Stored(Stored(mem, PairAddress(ins), "X", x[ins.d]),
                   PairAddress(ins) + 8, "X", x[ins.m])
  /\ x' = [x EXCEPT ![ins.n] = PairBase(ins)]
  /\ pc' = pc + 1
  /\ UNCHANGED flags

Branch(ins) ==
  /\ ins.op \in {"b", "bl", "bcond"}
  /\ pc' = IF ins.op = "bcond" /\ ~Holds(ins.c) THEN pc + 1 ELSE pc + ins.imm
  /\ x' = IF ins.op = "bl" THEN [x EXCEPT ![30] = pc + 1] ELSE x
  /\ UNCHANGED << flags, mem >>

BranchRegister(ins) ==
  /\ ins.op \in {"br", "ret"}
  /\ pc' = x[ins.n]
  /\ UNCHANGED << x, flags, mem >>

NoOperation(ins) == ins.op = "nop" /\ pc' = pc + 1 /\ UNCHANGED << x, flags, mem >>

Execute(ins) ==
  \/ Compute(ins) \/ Compare(ins) \/ Load(ins) \/ Store(ins) \/ LoadPair(ins)
  \/ StorePair(ins) \/ Branch(ins) \/ BranchRegister(ins) \/ NoOperation(ins)
=============================================================================
