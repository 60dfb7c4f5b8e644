----------------------------- MODULE WordProofs -----------------------------
(***************************************************************************)
(* The words of the instructions: the operands that the fields of each     *)
(* encoder have room for; that an A64 processor decodes the word of an     *)
(* encoder to the instruction of the encoder; and that it fetches that     *)
(* word from the bytes of the text.  Nothing here depends on a state of    *)
(* the translator; CodeProofs uses it for the code that is emitted.        *)
(***************************************************************************)
EXTENDS MachineCode, DataLemmas

\* Operands.
Register == {r \in Nat : r < 32}
Half == {h \in Nat : h < 65536}
Offset12 == {o \in Nat : o < 4096}
Offset7 == {o \in Int : -64 <= o /\ o < 64}
Near == {o \in Int : -262144 <= o /\ o < 262144}

\* Bit k of the two's complement representation of v.
Bit(v, k) == (v \div 2 ^ k) % 2 = 1

\* The bits of a word that a field of n bits from o on sets.
Placed(v, o, n) == FieldBits(Field(v, o, n))

-----------------------------------------------------------------------------
(***************************************************************************)
(* The fields have room.                                                   *)
(***************************************************************************)
\* setField by the length of the field.
LEMMA FieldFits ==
  ASSUME NEW v \in Int, NEW offset
  PROVE  /\ v < 2 => ~FieldThrows(Field(v, offset, 1))
         /\ v < 4 => ~FieldThrows(Field(v, offset, 2))
         /\ v < 16 => ~FieldThrows(Field(v, offset, 4))
         /\ v < 32 => ~FieldThrows(Field(v, offset, 5))
         /\ v < 64 => ~FieldThrows(Field(v, offset, 6))
         /\ v < 128 => ~FieldThrows(Field(v, offset, 7))
         /\ v < 4096 => ~FieldThrows(Field(v, offset, 12))
         /\ v < 65536 => ~FieldThrows(Field(v, offset, 16))
         /\ v < 524288 => ~FieldThrows(Field(v, offset, 19))
         /\ v < 67108864 => ~FieldThrows(Field(v, offset, 26))
         /\ v < 1073741824 => ~FieldThrows(ConstantBits(v, offset))
<1>1. /\ 2 ^ 1 = 2 /\ 2 ^ 2 = 4 /\ 2 ^ 4 = 16 /\ 2 ^ 5 = 32 /\ 2 ^ 6 = 64
      /\ 2 ^ 7 = 128 /\ 2 ^ 12 = 4096 /\ 2 ^ 16 = 65536
  OBVIOUS
<1>2. 2 ^ 19 = 524288 /\ 2 ^ 26 = 67108864 /\ 2 ^ 30 = 1073741824
  OBVIOUS
<1> QED BY <1>1, <1>2 DEF FieldThrows, Field, ConstantBits

\* A flag is 0 or 1.
LEMMA FlagFits ==
  ASSUME NEW condition, NEW offset
  PROVE  ~FieldThrows(Flag(condition, offset))
BY FieldFits DEF Flag

\* The registers of an instruction fit.
LEMMA RegistersFit ==
  ASSUME NEW r \in Register
  PROVE  ~FieldThrows(SetRd(r)) /\ ~FieldThrows(SetRn(r)) /\ ~FieldThrows(SetRm(r))
         /\ ~FieldThrows(SetRt2(r))
BY FieldFits DEF SetRd, SetRn, SetRm, SetRt2, Register

\* So does bit sf.
LEMMA SfFits == \A e : ~FieldThrows(SetSf(e))
BY FieldFits DEF SetSf

\* Constants of the encoders.
LEMMA ConstantsFit ==
  /\ \A offset : \A v \in {\b10101, \b10100101, \b11100101, \b10001, \b1011, \h1B007C00, \b1101011,
                           1, \b110101, \b111, \b011, \b101, \b01010100,
                           \b1101011000011111000000, \b1101011001011111000000, \hD503, \h201F} :
       ~FieldThrows(ConstantBits(v, offset))
  /\ \A mode \in EncodingMode : ~FieldThrows(ConstantBits(PairMode[mode], 23))
  /\ \A cond \in Condition : /\ ~FieldThrows(Field(reverse_cond_str_map[cond], 12, 4))
                             /\ ~FieldThrows(Field(reverse_cond_str_map[cond], 0, 4))
<1>1. ASSUME NEW v \in Int, v < 1073741824, NEW offset PROVE ~FieldThrows(ConstantBits(v, offset))
  BY <1>1, FieldFits
<1>2. \A mode \in EncodingMode : PairMode[mode] \in Int /\ PairMode[mode] < 128
  BY DEF EncodingMode, PairMode
<1>3. \A cond \in Condition : reverse_cond_str_map[cond] \in Int /\ reverse_cond_str_map[cond] < 16
  BY DEF Condition, reverse_cond_str_map
<1>4. \A mode \in EncodingMode : ~FieldThrows(ConstantBits(PairMode[mode], 23))
  BY <1>1, <1>2
<1>5. \A cond \in Condition : /\ ~FieldThrows(Field(reverse_cond_str_map[cond], 12, 4))
                              /\ ~FieldThrows(Field(reverse_cond_str_map[cond], 0, 4))
  <2> TAKE cond \in Condition
  <2>1. reverse_cond_str_map[cond] \in Int /\ reverse_cond_str_map[cond] < 16 BY <1>3
  <2> QED BY <2>1, FieldFits
<1>6. \A offset : \A v \in {\b10101, \b10100101, \b11100101, \b10001, \b1011, \h1B007C00, \b1101011,
                           1, \b110101, \b111, \b011, \b101, \b01010100,
                           \b1101011000011111000000, \b1101011001011111000000, \hD503, \h201F} :
       ~FieldThrows(ConstantBits(v, offset))
  BY <1>1
<1> QED BY <1>4, <1>5, <1>6

\* The encoders of Mov.hpp.
LEMMA MovFits ==
  ASSUME NEW e, e.d \in Register
  PROVE  /\ e.op = "mov" /\ e.m \in Register => ~EncoderThrows(e)
         /\ e.op \in {"movz", "movk"} /\ e.m \in Int /\ e.m < 4 /\ e.imm \in Int /\ e.imm < 65536
              => ~EncoderThrows(e)
<1>1. ~FieldThrows(SetRd(e.d)) /\ ~FieldThrows(SetSf(e)) BY RegistersFit, SfFits
<1>2. ASSUME e.op = "mov", e.m \in Register PROVE ~EncoderThrows(e)
  <2>1. FieldsOf(e) = MovFields(e) BY <1>2 DEF FieldsOf
  <2>2. ~FieldThrows(SetRm(e.m)) /\ ~FieldThrows(SetRn(31))
    BY <1>2, RegistersFit DEF Register
  <2>3. ~FieldThrows(ConstantBits(\b10101, 25)) BY ConstantsFit
  <2> QED BY <1>1, <2>1, <2>2, <2>3 DEF EncoderThrows, MovFields
<1>3. ASSUME e.op \in {"movz", "movk"}, e.m \in Int, e.m < 4, e.imm \in Int,
             e.imm < 65536
      PROVE  ~EncoderThrows(e)
  <2>1. FieldsOf(e) = MovWideFields(e) BY <1>3 DEF FieldsOf
  <2>2. ~FieldThrows(Field(e.m, 21, 2)) /\ ~FieldThrows(Field(e.imm, 5, 16))
    BY <1>3, FieldFits
  <2>3. ~FieldThrows(ConstantBits(IF e.op = "movz" THEN \b10100101 ELSE \b11100101, 23))
    BY ConstantsFit
  <2> QED BY <1>1, <2>1, <2>2, <2>3 DEF EncoderThrows, MovWideFields
<1> QED BY <1>2, <1>3

\* The encoders of Arithmetic.hpp and Compare.hpp.
LEMMA ArithFits ==
  ASSUME NEW e, e.d \in Register, e.n \in Register
  PROVE  /\ e.op \in {"add", "sub", "cmpi"} /\ e.imm \in Int /\ e.imm < 4096 => ~EncoderThrows(e)
         /\ e.op \in {"addr", "subr", "cmpr", "mul", "sdiv", "udiv"} /\ e.m \in Register
              => ~EncoderThrows(e)
         /\ e.op = "csel" /\ e.m \in Register /\ e.c \in Condition => ~EncoderThrows(e)
<1>1. /\ ~FieldThrows(SetRd(e.d)) /\ ~FieldThrows(SetRn(e.n)) /\ ~FieldThrows(SetSf(e))
      /\ ~FieldThrows(Field(0, 22, 1)) /\ ~FieldThrows(Field(0, 22, 2))
      /\ ~FieldThrows(Field(0, 10, 6))
  BY RegistersFit, SfFits, FieldFits
<1>2. ASSUME e.m \in Register PROVE \A f \in Registers(e) : ~FieldThrows(f)
  BY <1>1, <1>2, RegistersFit DEF Registers
<1>3. ASSUME e.op \in {"add", "sub", "cmpi"}, e.imm \in Int, e.imm < 4096 PROVE ~EncoderThrows(e)
  <2>1. FieldsOf(e) = AddSubImmFields(e) BY <1>3 DEF FieldsOf
  <2>2. ~FieldThrows(Field(e.imm, 10, 12)) /\ ~FieldThrows(ConstantBits(\b10001, 24))
    BY <1>3, FieldFits, ConstantsFit
  <2> QED BY <1>1, <2>1, <2>2, FlagFits DEF EncoderThrows, AddSubImmFields
<1>4. ASSUME e.op \in {"addr", "subr", "cmpr"}, e.m \in Register PROVE ~EncoderThrows(e)
  <2>1. FieldsOf(e) = AddSubShiftFields(e) BY <1>4 DEF FieldsOf
  <2>2. ~FieldThrows(ConstantBits(\b1011, 24)) BY ConstantsFit
  <2> QED BY <1>1, <1>2, <1>4, <2>1, <2>2, FlagFits DEF EncoderThrows, AddSubShiftFields
<1>5. ASSUME e.op = "mul", e.m \in Register PROVE ~EncoderThrows(e)
  <2>1. FieldsOf(e) = MulFields(e) BY <1>5 DEF FieldsOf
  <2>2. ~FieldThrows(ConstantBits(\h1B007C00, 0)) BY ConstantsFit
  <2> QED BY <1>1, <1>2, <1>5, <2>1, <2>2 DEF EncoderThrows, MulFields
<1>6. ASSUME e.op \in {"sdiv", "udiv"}, e.m \in Register PROVE ~EncoderThrows(e)
  <2>1. FieldsOf(e) = DivFields(e) BY <1>6 DEF FieldsOf
  <2>2. ~FieldThrows(ConstantBits(\b1101011, 22)) /\ ~FieldThrows(ConstantBits(1, 11))
    BY ConstantsFit
  <2> QED BY <1>1, <1>2, <1>6, <2>1, <2>2, FlagFits DEF EncoderThrows, DivFields
<1>7. ASSUME e.op = "csel", e.m \in Register, e.c \in Condition PROVE ~EncoderThrows(e)
  <2>1. FieldsOf(e) = CselFields(e) BY <1>7 DEF FieldsOf
  <2>2. /\ ~FieldThrows(ConstantBits(\b110101, 23))
        /\ ~FieldThrows(Field(reverse_cond_str_map[e.c], 12, 4))
    BY <1>7, ConstantsFit
  <2> QED BY <1>1, <1>2, <1>7, <2>1, <2>2 DEF EncoderThrows, CselFields
<1> QED BY <1>3, <1>4, <1>5, <1>6, <1>7

\* The encoders of LoadStore.hpp; the offset of a pair is cut to eight bits.
LEMMA MemoryFits ==
  ASSUME NEW e, e.d \in Register, e.n \in Register
  PROVE  /\ e.op \in {"ldr", "str"} /\ e.imm \in Int /\ e.imm < 4096 => ~EncoderThrows(e)
         /\ e.op \in {"ldrr", "strr"} /\ e.m \in Register => ~EncoderThrows(e)
         /\ e.op \in {"ldp", "stp"} /\ e.m \in Register /\ e.imm \in Int /\ e.c \in EncodingMode
              => ~EncoderThrows(e)
<1>1. /\ ~FieldThrows(SetRd(e.d)) /\ ~FieldThrows(SetRn(e.n)) /\ ~FieldThrows(SetSf(e))
      /\ \A o : ~FieldThrows(ConstantBits(1, o)) /\ ~FieldThrows(ConstantBits(\b111, o))
                  /\ ~FieldThrows(ConstantBits(\b011, o))
  BY RegistersFit, SfFits, ConstantsFit
<1>2. \A f \in LoadStoreFields(e) : ~FieldThrows(f)
  BY <1>1, FlagFits DEF LoadStoreFields
<1>3. ASSUME e.op \in {"ldr", "str"}, e.imm \in Int, e.imm < 4096 PROVE ~EncoderThrows(e)
  <2>1. FieldsOf(e) = LoadStoreImmFields(e) BY <1>3 DEF FieldsOf
  <2>2. ~FieldThrows(Field(e.imm, 10, 12))
    BY <1>3, FieldFits
  <2> QED BY <1>1, <1>2, <2>1, <2>2, FlagFits DEF EncoderThrows, LoadStoreImmFields
<1>4. ASSUME e.op \in {"ldrr", "strr"}, e.m \in Register PROVE ~EncoderThrows(e)
  <2>1. FieldsOf(e) = LoadStoreRegFields(e) BY <1>4 DEF FieldsOf
  <2>2. ~FieldThrows(SetRm(e.m)) BY <1>4, RegistersFit
  <2> QED BY <1>1, <1>2, <2>1, <2>2, FlagFits DEF EncoderThrows, LoadStoreRegFields
<1>5. ASSUME e.op \in {"ldp", "stp"}, e.m \in Register, e.imm \in Int, e.c \in EncodingMode
      PROVE  ~EncoderThrows(e)
  <2> DEFINE imm7 == ((e.imm \div 8 + 128) % 256) - 128
  <2>1. FieldsOf(e) = LdpStpFields(e) BY <1>5 DEF FieldsOf
  <2>2. imm7 \in Int /\ imm7 < 128 BY <1>5
  <2>3. /\ ~FieldThrows(SetRt2(e.m)) /\ ~FieldThrows(ConstantBits(PairMode[e.c], 23))
    BY <1>5, RegistersFit, ConstantsFit
  <2>4. LdpStpFields(e) = { SetSf(e), Flag(e.op = "ldp", 22), ConstantBits(PairMode[e.c], 23),
           Field(imm7, 15, 7), SetRt2(e.m), SetRn(e.n), SetRd(e.d) }
    BY DEF LdpStpFields
  <2> HIDE DEF imm7
  <2>5. ~FieldThrows(Field(imm7, 15, 7)) BY <2>2, FieldFits
  <2> QED BY <1>1, <2>1, <2>3, <2>4, <2>5, FlagFits DEF EncoderThrows
<1> QED BY <1>3, <1>4, <1>5

\* The encoders of Branch.hpp, for branches of less than 2^18 instructions.
LEMMA BranchFits ==
  ASSUME NEW e
  PROVE  /\ e.op \in {"br", "ret"} /\ e.n \in Register => ~EncoderThrows(e)
         /\ e.op \in {"b", "bl"} /\ e.imm \in Int /\ e.imm < 262144 => ~EncoderThrows(e)
         /\ e.op = "bcond" /\ e.imm \in Int /\ e.imm < 262144 /\ e.c \in Condition
              => ~EncoderThrows(e)
         /\ e.op = "nop" => ~EncoderThrows(e)
<1>1. ASSUME e.op = "br", e.n \in Register PROVE ~EncoderThrows(e)
  <2>1. FieldsOf(e) = BranchRegisterFields(e) BY <1>1 DEF FieldsOf
  <2> QED BY <1>1, <2>1, RegistersFit, ConstantsFit DEF EncoderThrows, BranchRegisterFields
<1>2. ASSUME e.op = "ret", e.n \in Register PROVE ~EncoderThrows(e)
  <2>1. FieldsOf(e) = ReturnFields(e) BY <1>2 DEF FieldsOf
  <2> QED BY <1>2, <2>1, RegistersFit, ConstantsFit DEF EncoderThrows, ReturnFields
<1>3. ASSUME e.op \in {"b", "bl"}, e.imm \in Int, e.imm < 262144 PROVE ~EncoderThrows(e)
  <2>1. FieldsOf(e) = BranchFields(e) BY <1>3 DEF FieldsOf
  <2>2. ~FieldThrows(Field(e.imm, 0, 26)) BY <1>3, FieldFits
  <2>3. ~FieldThrows(ConstantBits(\b101, 26)) BY ConstantsFit
  <2> QED BY <2>1, <2>2, <2>3, FlagFits DEF EncoderThrows, BranchFields
<1>4. ASSUME e.op = "bcond", e.imm \in Int, e.imm < 262144, e.c \in Condition
      PROVE  ~EncoderThrows(e)
  <2>1. FieldsOf(e) = BranchConditionFields(e) BY <1>4 DEF FieldsOf
  <2>2. ~FieldThrows(Field(e.imm, 5, 19)) BY <1>4, FieldFits
  <2>3. ~FieldThrows(ConstantBits(\b01010100, 24)) BY ConstantsFit
  <2>4. ~FieldThrows(Field(reverse_cond_str_map[e.c], 0, 4)) BY <1>4, ConstantsFit
  <2> QED BY <2>1, <2>2, <2>3, <2>4 DEF EncoderThrows, BranchConditionFields
<1>5. ASSUME e.op = "nop" PROVE ~EncoderThrows(e)
  <2>1. FieldsOf(e) = NopFields BY <1>5 DEF FieldsOf
  <2> QED BY <2>1, ConstantsFit DEF EncoderThrows, NopFields
<1> QED BY <1>1, <1>2, <1>3, <1>4, <1>5

-----------------------------------------------------------------------------
(***************************************************************************)
(* Numbers and their bits.                                                 *)
(***************************************************************************)
\* Powers of 2.
LEMMA Powers ==
  /\ 2 ^ 0 = 1 /\ 2 ^ 1 = 2 /\ 2 ^ 2 = 4 /\ 2 ^ 3 = 8 /\ 2 ^ 4 = 16
  /\ 2 ^ 5 = 32 /\ 2 ^ 6 = 64 /\ 2 ^ 7 = 128 /\ 2 ^ 8 = 256 /\ 2 ^ 9 = 512
  /\ 2 ^ 10 = 1024 /\ 2 ^ 11 = 2048 /\ 2 ^ 12 = 4096 /\ 2 ^ 13 = 8192 /\ 2 ^ 14 = 16384
  /\ 2 ^ 15 = 32768 /\ 2 ^ 16 = 65536 /\ 2 ^ 17 = 131072 /\ 2 ^ 18 = 262144 /\ 2 ^ 19 = 524288
  /\ 2 ^ 20 = 1048576 /\ 2 ^ 21 = 2097152 /\ 2 ^ 22 = 4194304 /\ 2 ^ 23 = 8388608
  /\ 2 ^ 24 = 16777216 /\ 2 ^ 25 = 33554432 /\ 2 ^ 26 = 67108864 /\ 2 ^ 27 = 134217728
  /\ 2 ^ 28 = 268435456 /\ 2 ^ 29 = 536870912
OBVIOUS

\* The bits of a constant, one by one.
LEMMA UpTo29 ==
  \A k \in 0 .. 29 :
    \/ k = 0 \/ k = 1 \/ k = 2 \/ k = 3 \/ k = 4 \/ k = 5 \/ k = 6 \/ k = 7 \/ k = 8 \/ k = 9
    \/ k = 10 \/ k = 11 \/ k = 12 \/ k = 13 \/ k = 14 \/ k = 15 \/ k = 16 \/ k = 17 \/ k = 18
    \/ k = 19 \/ k = 20 \/ k = 21 \/ k = 22 \/ k = 23 \/ k = 24 \/ k = 25 \/ k = 26 \/ k = 27
    \/ k = 28 \/ k = 29
OBVIOUS

\* Each power of 2 is twice the one before.
LEMMA PowerDouble ==
  \A k \in 0 .. 28 : 2 ^ k \in Nat \ {0} /\ 2 ^ (k + 1) = 2 * 2 ^ k
<1> DEFINE P(k) == 2 ^ k
           Good(k) == P(k) \in Nat \ {0} /\ P(k + 1) = 2 * P(k)
<1>1. Good(0) /\ Good(1) /\ Good(2) /\ Good(3) /\ Good(4) /\ Good(5) /\ Good(6) /\ Good(7)
  OBVIOUS
<1>2. Good(8) /\ Good(9) /\ Good(10) /\ Good(11) /\ Good(12) /\ Good(13) /\ Good(14)
  OBVIOUS
<1>3. Good(15) /\ Good(16) /\ Good(17) /\ Good(18) /\ Good(19) /\ Good(20) /\ Good(21)
  OBVIOUS
<1>4. Good(22) /\ Good(23) /\ Good(24) /\ Good(25) /\ Good(26) /\ Good(27) /\ Good(28)
  OBVIOUS
<1>5. \A k \in 0 .. 28 : k \in 0 .. 29 /\ k # 29
  OBVIOUS
<1> HIDE DEF Good
<1>6. \A k \in 0 .. 28 : Good(k) BY <1>1, <1>2, <1>3, <1>4, <1>5, UpTo29
<1> QED BY <1>6 DEF Good

\* Quotient and remainder are determined.
LEMMA Unique ==
  ASSUME NEW n \in Int, NEW d \in Nat \ {0}, NEW k \in Int, NEW r \in 0 .. d - 1,
         n = d * k + r
  PROVE  n % d = r /\ n \div d = k
BY SMTT(30)

\* And they exist.
LEMMA Division ==
  ASSUME NEW n \in Int, NEW d \in Nat \ {0}
  PROVE  n = d * (n \div d) + (n % d) /\ n % d \in 0 .. d - 1 /\ n \div d \in Int
OBVIOUS

\* One more bit.
LEMMA NextBit ==
  ASSUME NEW v \in Int, NEW k \in 0 .. 28
  PROVE  v % 2 ^ (k + 1) = (v % 2 ^ k) + (IF Bit(v, k) THEN 2 ^ k ELSE 0)
<1> DEFINE p == 2 ^ k
           q == v \div p
           b == q % 2
<1>1. p \in Nat \ {0} /\ 2 ^ (k + 1) = 2 * p BY PowerDouble
<1> HIDE DEF p
<1>2. q \in Int /\ v = p * q + (v % p) /\ v % p \in 0 .. p - 1 BY <1>1, Division
<1>3. 2 \in Nat \ {0} OBVIOUS
<1> HIDE DEF q
<1>4. q = 2 * (q \div 2) + b /\ b \in 0 .. 1 /\ q \div 2 \in Int BY <1>2, <1>3, Division
<1>5. v = (2 * p) * (q \div 2) + (b * p + (v % p))
  <2> DEFINE h == q \div 2
             r == v % p
  <2>1. h \in Int /\ r \in Int /\ b \in Int /\ q = 2 * h + b /\ v = p * q + r BY <1>2, <1>4
  <2> HIDE DEF h, r, b
  <2>2. p * (2 * h + b) = (2 * p) * h + b * p BY <1>1, <2>1
  <2> QED BY <1>1, <2>1, <2>2 DEF h, r
<1>6. b * p + (v % p) \in 0 .. (2 * p) - 1 /\ 2 * p \in Nat \ {0}
  <2>1. b = 0 \/ b = 1 BY <1>4
  <2> HIDE DEF b
  <2> QED BY <1>1, <1>2, <2>1
<1>7. v % (2 * p) = b * p + (v % p)
  <2> DEFINE d == 2 * p
             h == q \div 2
             r == b * p + (v % p)
  <2>1. v \in Int /\ d \in Nat \ {0} /\ h \in Int /\ r \in 0 .. d - 1 /\ v = d * h + r
    BY <1>4, <1>5, <1>6
  <2> HIDE DEF d, h, r
  <2>2. v % d = r BY <2>1, Unique
  <2> QED BY <2>2 DEF d, r
<1>8. Bit(v, k) <=> b = 1 BY DEF Bit, p, q
<1>9. b * p = IF b = 1 THEN p ELSE 0
  <2>1. b = 0 \/ b = 1 BY <1>4
  <2> HIDE DEF b
  <2> QED BY <1>1, <2>1
<1> HIDE DEF b
<1>10. v % (2 * p) = (v % p) + (IF Bit(v, k) THEN p ELSE 0)
  <2>1. v % p \in Int /\ b * p \in Int BY <1>1, <1>2, <1>9
  <2> QED BY <2>1, <1>7, <1>8, <1>9
<1>11. v % 2 ^ (k + 1) = v % (2 * p) BY <1>1
<1> QED BY <1>10, <1>11 DEF p

\* The recursive function in Number: g meets its equation.
Sums(g, w, first, n) ==
  /\ g[first - 1] = 0
  /\ \A k \in first .. first + n - 1 :
       g[k] = g[k - 1] + (IF k \in w THEN 2 ^ (k - first) ELSE 0)
  /\ Number(w, first + n - 1, first) = g[first + n - 1]

\* There is such a function.
LEMMA NumberRec ==
  ASSUME NEW w, NEW first \in Nat, NEW n \in Nat
  PROVE  \E g : Sums(g, w, first, n)
<1> DEFINE last == first + n - 1
           D(m) == first - 1 .. first - 1 + m
           Term(k) == IF k \in w THEN 2 ^ (k - first) ELSE 0
           Step(g, k) == IF k = first - 1 THEN 0 ELSE g[k - 1] + Term(k)
           Good == { m \in Nat : \E g : g = [k \in D(m) |-> Step(g, k)] }
           value == CHOOSE g : g = [k \in first - 1 .. last |-> Step(g, k)]
<1>1. 0 \in Good
  <2> DEFINE g == [k \in D(0) |-> 0]
  <2>1. g = [k \in D(0) |-> Step(g, k)]
    <3>1. \A k \in D(0) : k = first - 1 OBVIOUS
    <3>2. \A k \in D(0) : Step(g, k) = 0 BY <3>1
    <3> QED BY <3>2
  <2> QED BY <2>1
<1>2. ASSUME NEW m \in 0 .. n - 1, m \in Good PROVE m + 1 \in Good
  <2>1. PICK g : g = [k \in D(m) |-> Step(g, k)] BY <1>2
  <2> DEFINE h == [k \in D(m + 1) |-> IF k \in D(m) THEN g[k] ELSE Step(g, k)]
  <2>2. \A k \in D(m + 1) : k = first - 1 \/ (k # first - 1 /\ k - 1 \in D(m) /\ k - 1 \in D(m + 1))
    OBVIOUS
  <2>3. \A k \in D(m) : g[k] = Step(g, k) BY <2>1
  <2>4. \A k \in D(m) : h[k] = g[k]
    <3>1. \A k \in D(m) : k \in D(m + 1) OBVIOUS
    <3> QED BY <3>1
  <2>5. \A k \in D(m + 1) : h[k] = Step(g, k)
    <3>1. \A k \in D(m + 1) : h[k] = IF k \in D(m) THEN g[k] ELSE Step(g, k) OBVIOUS
    <3> HIDE DEF h, Step
    <3> QED BY <2>3, <3>1
  <2>6. \A k \in D(m + 1) : Step(g, k) = Step(h, k)
    <3> TAKE k \in D(m + 1)
    <3>1. CASE k = first - 1 BY <3>1
    <3>2. CASE k # first - 1
      <4>1. h[k - 1] = g[k - 1] BY <2>2, <2>4, <3>2
      <4> HIDE DEF h
      <4> QED BY <4>1
    <3> QED BY <3>1, <3>2
  <2>7. h = [k \in D(m + 1) |-> h[k]] OBVIOUS
  <2>8. h = [k \in D(m + 1) |-> Step(h, k)]
    <3> HIDE DEF Step, h
    <3> QED BY <2>5, <2>6, <2>7
  <2> HIDE DEF h, Step
  <2> QED BY <2>8
<1>3. n \in Good
  <2> HIDE DEF Good
  <2>1. 0 .. n \subseteq Good BY <1>1, <1>2, BoundedInduction
  <2> QED BY <2>1
<1>4. D(n) = first - 1 .. last OBVIOUS
<1>5. \E g : g = [k \in first - 1 .. last |-> Step(g, k)] BY <1>3, <1>4
<1>6. value = [k \in first - 1 .. last |-> Step(value, k)]
  <2> HIDE DEF Step, last
  <2> QED BY <1>5, Zenon
<1>7. Number(w, last, first) = value[last] BY DEF Number
<1> HIDE DEF value
<1>8. value[first - 1] = 0
  <2>1. first - 1 \in first - 1 .. last OBVIOUS
  <2> QED BY <1>6, <2>1
<1>9. ASSUME NEW k \in first .. last PROVE value[k] = value[k - 1] + Term(k)
  <2>1. k \in first - 1 .. last /\ k # first - 1 OBVIOUS
  <2> HIDE DEF Term, last
  <2> QED BY <1>6, <2>1
<1> QED BY <1>7, <1>8, <1>9 DEF Sums

\* Number reads the field whose bits the word holds.
LEMMA NumberIs ==
  ASSUME NEW w, NEW first \in Nat, NEW n \in 0 .. 26, NEW v \in Int,
         \A b \in 0 .. n - 1 : first + b \in w <=> Bit(v, b)
  PROVE  Number(w, first + n - 1, first) = v % 2 ^ n
<1>1. n \in Nat OBVIOUS
<1>2. PICK g : Sums(g, w, first, n) BY <1>1, NumberRec
<1> DEFINE Good == { m \in 0 .. n : g[first - 1 + m] = v % 2 ^ m }
<1>3. 0 \in Good
  <2>1. v % 1 = 0 /\ first - 1 + 0 = first - 1 /\ 2 ^ 0 = 1 BY Powers
  <2> QED BY <1>2, <2>1 DEF Sums
<1>4. ASSUME NEW m \in 0 .. n - 1, m \in Good PROVE m + 1 \in Good
  <2> DEFINE k == first + m
  <2>1. /\ k \in first .. first + n - 1 /\ k - 1 = first - 1 + m /\ k = first - 1 + (m + 1)
        /\ k - first = m /\ m \in 0 .. 28 /\ m + 1 \in 0 .. n
    OBVIOUS
  <2>2. g[k] = g[k - 1] + (IF k \in w THEN 2 ^ m ELSE 0) BY <1>2, <2>1 DEF Sums
  <2>3. k \in w <=> Bit(v, m) OBVIOUS
  <2>4. g[k - 1] = v % 2 ^ m BY <1>4, <2>1
  <2>5. g[k] = v % 2 ^ (m + 1) BY <2>1, <2>2, <2>3, <2>4, NextBit
  <2> HIDE DEF k
  <2> QED BY <2>1, <2>5
<1>5. n \in Good
  <2> HIDE DEF Good
  <2>1. 0 .. n \subseteq Good BY <1>1, <1>3, <1>4, BoundedInduction
  <2> QED BY <1>1, <2>1
<1>6. first - 1 + n = first + n - 1 OBVIOUS
<1> QED BY <1>2, <1>5, <1>6 DEF Sums

\* FieldBits, with the bits of the value.
LEMMA PlacedAt ==
  ASSUME NEW v \in Int, NEW o \in Nat, NEW n \in Nat
  PROVE  /\ Placed(v, o, n) \subseteq o .. o + n - 1
         /\ \A b \in 0 .. n - 1 : o + b \in Placed(v, o, n) <=> Bit(v, b)
<1> DEFINE S == { k \in 0 .. n - 1 : Bit(v, k) }
<1>1. Placed(v, o, n) = { o + b : b \in S }
  BY DEF Placed, FieldBits, Field, Bit
<1>2. S \subseteq 0 .. n - 1 /\ \A b \in 0 .. n - 1 : b \in S <=> Bit(v, b)
  OBVIOUS
<1> HIDE DEF S
<1>3. ASSUME NEW x \in Placed(v, o, n) PROVE x \in o .. o + n - 1
  <2>1. PICK b \in S : x = o + b BY <1>1, <1>3
  <2> QED BY <1>2, <2>1
<1>4. ASSUME NEW b \in 0 .. n - 1, o + b \in Placed(v, o, n) PROVE Bit(v, b)
  <2>1. PICK c \in S : o + b = o + c BY <1>1, <1>4
  <2>2. c = b BY <1>2, <2>1
  <2> QED BY <1>2, <2>2
<1>5. ASSUME NEW b \in 0 .. n - 1, Bit(v, b) PROVE o + b \in Placed(v, o, n)
  BY <1>1, <1>2, <1>5
<1> QED BY <1>3, <1>4, <1>5

AreBits(v, S) == S \subseteq 0 .. 29 /\ \A k \in 0 .. 29 : Bit(v, k) <=> k \in S

Moved(S, o, T) == T \subseteq o .. o + 29 /\ \A x \in o .. o + 29 : x \in T <=> x - o \in S

\* A constant whose bits are S, at the places T.
LEMMA ConstantSet ==
  ASSUME NEW v, NEW o \in Nat, NEW S, NEW T, AreBits(v, S), Moved(S, o, T)
  PROVE  FieldBits(ConstantBits(v, o)) = T
<1>1. S \subseteq 0 .. 29 /\ \A k \in 0 .. 29 : Bit(v, k) <=> k \in S BY DEF AreBits
<1>2. T \subseteq o .. o + 29 /\ \A x \in o .. o + 29 : x \in T <=> x - o \in S BY DEF Moved
<1>3. 30 - 1 = 29 OBVIOUS
<1>4. { k \in 0 .. 29 : Bit(v, k) } = S BY <1>1
<1>5. FieldBits(ConstantBits(v, o)) = { o + b : b \in S }
  BY <1>3, <1>4 DEF FieldBits, ConstantBits, Field, Bit
<1>6. ASSUME NEW b \in S PROVE o + b \in T
  <2>1. o + b \in o .. o + 29 /\ (o + b) - o = b BY <1>1
  <2> QED BY <1>2, <2>1
<1>7. ASSUME NEW x \in T PROVE \E b \in S : x = o + b
  <2>1. x \in o .. o + 29 BY <1>2
  <2>2. x - o \in S /\ x = o + (x - o) BY <1>2, <2>1
  <2> QED BY <2>2
<1> QED BY <1>5, <1>6, <1>7

\* Bits up to 29, by division.
LEMMA BitAt ==
  ASSUME NEW v \in Int
  PROVE  /\ Bit(v, 0) <=> (v \div 1) % 2 = 1
         /\ Bit(v, 1) <=> (v \div 2) % 2 = 1
         /\ Bit(v, 2) <=> (v \div 4) % 2 = 1
         /\ Bit(v, 3) <=> (v \div 8) % 2 = 1
         /\ Bit(v, 4) <=> (v \div 16) % 2 = 1
         /\ Bit(v, 5) <=> (v \div 32) % 2 = 1
         /\ Bit(v, 6) <=> (v \div 64) % 2 = 1
         /\ Bit(v, 7) <=> (v \div 128) % 2 = 1
         /\ Bit(v, 8) <=> (v \div 256) % 2 = 1
         /\ Bit(v, 9) <=> (v \div 512) % 2 = 1
         /\ Bit(v, 10) <=> (v \div 1024) % 2 = 1
         /\ Bit(v, 11) <=> (v \div 2048) % 2 = 1
         /\ Bit(v, 12) <=> (v \div 4096) % 2 = 1
         /\ Bit(v, 13) <=> (v \div 8192) % 2 = 1
         /\ Bit(v, 14) <=> (v \div 16384) % 2 = 1
         /\ Bit(v, 15) <=> (v \div 32768) % 2 = 1
         /\ Bit(v, 16) <=> (v \div 65536) % 2 = 1
         /\ Bit(v, 17) <=> (v \div 131072) % 2 = 1
         /\ Bit(v, 18) <=> (v \div 262144) % 2 = 1
         /\ Bit(v, 19) <=> (v \div 524288) % 2 = 1
         /\ Bit(v, 20) <=> (v \div 1048576) % 2 = 1
         /\ Bit(v, 21) <=> (v \div 2097152) % 2 = 1
         /\ Bit(v, 22) <=> (v \div 4194304) % 2 = 1
         /\ Bit(v, 23) <=> (v \div 8388608) % 2 = 1
         /\ Bit(v, 24) <=> (v \div 16777216) % 2 = 1
         /\ Bit(v, 25) <=> (v \div 33554432) % 2 = 1
         /\ Bit(v, 26) <=> (v \div 67108864) % 2 = 1
         /\ Bit(v, 27) <=> (v \div 134217728) % 2 = 1
         /\ Bit(v, 28) <=> (v \div 268435456) % 2 = 1
         /\ Bit(v, 29) <=> (v \div 536870912) % 2 = 1
<1>1. /\ Bit(v, 0) <=> (v \div 1) % 2 = 1
      /\ Bit(v, 1) <=> (v \div 2) % 2 = 1
      /\ Bit(v, 2) <=> (v \div 4) % 2 = 1
      /\ Bit(v, 3) <=> (v \div 8) % 2 = 1
      /\ Bit(v, 4) <=> (v \div 16) % 2 = 1
      /\ Bit(v, 5) <=> (v \div 32) % 2 = 1
  BY Powers DEF Bit
<1>2. /\ Bit(v, 6) <=> (v \div 64) % 2 = 1
      /\ Bit(v, 7) <=> (v \div 128) % 2 = 1
      /\ Bit(v, 8) <=> (v \div 256) % 2 = 1
      /\ Bit(v, 9) <=> (v \div 512) % 2 = 1
      /\ Bit(v, 10) <=> (v \div 1024) % 2 = 1
      /\ Bit(v, 11) <=> (v \div 2048) % 2 = 1
  BY Powers DEF Bit
<1>3. /\ Bit(v, 12) <=> (v \div 4096) % 2 = 1
      /\ Bit(v, 13) <=> (v \div 8192) % 2 = 1
      /\ Bit(v, 14) <=> (v \div 16384) % 2 = 1
      /\ Bit(v, 15) <=> (v \div 32768) % 2 = 1
      /\ Bit(v, 16) <=> (v \div 65536) % 2 = 1
      /\ Bit(v, 17) <=> (v \div 131072) % 2 = 1
  BY Powers DEF Bit
<1>4. /\ Bit(v, 18) <=> (v \div 262144) % 2 = 1
      /\ Bit(v, 19) <=> (v \div 524288) % 2 = 1
      /\ Bit(v, 20) <=> (v \div 1048576) % 2 = 1
      /\ Bit(v, 21) <=> (v \div 2097152) % 2 = 1
      /\ Bit(v, 22) <=> (v \div 4194304) % 2 = 1
      /\ Bit(v, 23) <=> (v \div 8388608) % 2 = 1
  BY Powers DEF Bit
<1>5. /\ Bit(v, 24) <=> (v \div 16777216) % 2 = 1
      /\ Bit(v, 25) <=> (v \div 33554432) % 2 = 1
      /\ Bit(v, 26) <=> (v \div 67108864) % 2 = 1
      /\ Bit(v, 27) <=> (v \div 134217728) % 2 = 1
      /\ Bit(v, 28) <=> (v \div 268435456) % 2 = 1
      /\ Bit(v, 29) <=> (v \div 536870912) % 2 = 1
  BY Powers DEF Bit
<1> QED BY <1>1, <1>2, <1>3, <1>4, <1>5

\* The constants of the encoders, at their places.
LEMMA ConstantSets ==
  /\ FieldBits(ConstantBits(\b10101, 25)) = {25, 27, 29}
  /\ FieldBits(ConstantBits(\b10100101, 23)) = {23, 25, 28, 30}
  /\ FieldBits(ConstantBits(\b11100101, 23)) = {23, 25, 28, 29, 30}
  /\ FieldBits(ConstantBits(\b10001, 24)) = {24, 28}
  /\ FieldBits(ConstantBits(\b1011, 24)) = {24, 25, 27}
  /\ FieldBits(ConstantBits(\b1101011, 22)) = {22, 23, 25, 27, 28}
  /\ FieldBits(ConstantBits(\b110101, 23)) = {23, 25, 27, 28}
  /\ FieldBits(ConstantBits(\b111, 27)) = {27, 28, 29}
  /\ FieldBits(ConstantBits(\b011, 13)) = {13, 14}
  /\ FieldBits(ConstantBits(\b1010011, 23)) = {23, 24, 27, 29}
  /\ FieldBits(ConstantBits(\b1010001, 23)) = {23, 27, 29}
  /\ FieldBits(ConstantBits(\b1010010, 23)) = {24, 27, 29}
  /\ FieldBits(ConstantBits(\b101, 26)) = {26, 28}
  /\ FieldBits(ConstantBits(\b01010100, 24)) = {26, 28, 30}
<1>1. FieldBits(ConstantBits(\b10101, 25)) = {25, 27, 29}
  <2>1. AreBits(\b10101, {0, 2, 4})
    <3>1. \b10101 \in Int OBVIOUS
    <3> QED BY <3>1, UpTo29, BitAt DEF AreBits
  <2>2. Moved({0, 2, 4}, 25, {25, 27, 29}) BY DEF Moved
  <2> QED BY <2>1, <2>2, ConstantSet
<1>2. FieldBits(ConstantBits(\b10100101, 23)) = {23, 25, 28, 30}
  <2>1. AreBits(\b10100101, {0, 2, 5, 7})
    <3>1. \b10100101 \in Int OBVIOUS
    <3> QED BY <3>1, UpTo29, BitAt DEF AreBits
  <2>2. Moved({0, 2, 5, 7}, 23, {23, 25, 28, 30}) BY DEF Moved
  <2> QED BY <2>1, <2>2, ConstantSet
<1>3. FieldBits(ConstantBits(\b11100101, 23)) = {23, 25, 28, 29, 30}
  <2>1. AreBits(\b11100101, {0, 2, 5, 6, 7})
    <3>1. \b11100101 \in Int OBVIOUS
    <3> QED BY <3>1, UpTo29, BitAt DEF AreBits
  <2>2. Moved({0, 2, 5, 6, 7}, 23, {23, 25, 28, 29, 30}) BY DEF Moved
  <2> QED BY <2>1, <2>2, ConstantSet
<1>4. FieldBits(ConstantBits(\b10001, 24)) = {24, 28}
  <2>1. AreBits(\b10001, {0, 4})
    <3>1. \b10001 \in Int OBVIOUS
    <3> QED BY <3>1, UpTo29, BitAt DEF AreBits
  <2>2. Moved({0, 4}, 24, {24, 28}) BY DEF Moved
  <2> QED BY <2>1, <2>2, ConstantSet
<1>5. FieldBits(ConstantBits(\b1011, 24)) = {24, 25, 27}
  <2>1. AreBits(\b1011, {0, 1, 3})
    <3>1. \b1011 \in Int OBVIOUS
    <3> QED BY <3>1, UpTo29, BitAt DEF AreBits
  <2>2. Moved({0, 1, 3}, 24, {24, 25, 27}) BY DEF Moved
  <2> QED BY <2>1, <2>2, ConstantSet
<1>6. FieldBits(ConstantBits(\b1101011, 22)) = {22, 23, 25, 27, 28}
  <2>1. AreBits(\b1101011, {0, 1, 3, 5, 6})
    <3>1. \b1101011 \in Int OBVIOUS
    <3> QED BY <3>1, UpTo29, BitAt DEF AreBits
  <2>2. Moved({0, 1, 3, 5, 6}, 22, {22, 23, 25, 27, 28}) BY DEF Moved
  <2> QED BY <2>1, <2>2, ConstantSet
<1>7. FieldBits(ConstantBits(\b110101, 23)) = {23, 25, 27, 28}
  <2>1. AreBits(\b110101, {0, 2, 4, 5})
    <3>1. \b110101 \in Int OBVIOUS
    <3> QED BY <3>1, UpTo29, BitAt DEF AreBits
  <2>2. Moved({0, 2, 4, 5}, 23, {23, 25, 27, 28}) BY DEF Moved
  <2> QED BY <2>1, <2>2, ConstantSet
<1>8. FieldBits(ConstantBits(\b111, 27)) = {27, 28, 29}
  <2>1. AreBits(\b111, {0, 1, 2})
    <3>1. \b111 \in Int OBVIOUS
    <3> QED BY <3>1, UpTo29, BitAt DEF AreBits
  <2>2. Moved({0, 1, 2}, 27, {27, 28, 29}) BY DEF Moved
  <2> QED BY <2>1, <2>2, ConstantSet
<1>9. FieldBits(ConstantBits(\b011, 13)) = {13, 14}
  <2>1. AreBits(\b011, {0, 1})
    <3>1. \b011 \in Int OBVIOUS
    <3> QED BY <3>1, UpTo29, BitAt DEF AreBits
  <2>2. Moved({0, 1}, 13, {13, 14}) BY DEF Moved
  <2> QED BY <2>1, <2>2, ConstantSet
<1>10. FieldBits(ConstantBits(\b1010011, 23)) = {23, 24, 27, 29}
  <2>1. AreBits(\b1010011, {0, 1, 4, 6})
    <3>1. \b1010011 \in Int OBVIOUS
    <3> QED BY <3>1, UpTo29, BitAt DEF AreBits
  <2>2. Moved({0, 1, 4, 6}, 23, {23, 24, 27, 29}) BY DEF Moved
  <2> QED BY <2>1, <2>2, ConstantSet
<1>11. FieldBits(ConstantBits(\b1010001, 23)) = {23, 27, 29}
  <2>1. AreBits(\b1010001, {0, 4, 6})
    <3>1. \b1010001 \in Int OBVIOUS
    <3> QED BY <3>1, UpTo29, BitAt DEF AreBits
  <2>2. Moved({0, 4, 6}, 23, {23, 27, 29}) BY DEF Moved
  <2> QED BY <2>1, <2>2, ConstantSet
<1>12. FieldBits(ConstantBits(\b1010010, 23)) = {24, 27, 29}
  <2>1. AreBits(\b1010010, {1, 4, 6})
    <3>1. \b1010010 \in Int OBVIOUS
    <3> QED BY <3>1, UpTo29, BitAt DEF AreBits
  <2>2. Moved({1, 4, 6}, 23, {24, 27, 29}) BY DEF Moved
  <2> QED BY <2>1, <2>2, ConstantSet
<1>13. FieldBits(ConstantBits(\b101, 26)) = {26, 28}
  <2>1. AreBits(\b101, {0, 2})
    <3>1. \b101 \in Int OBVIOUS
    <3> QED BY <3>1, UpTo29, BitAt DEF AreBits
  <2>2. Moved({0, 2}, 26, {26, 28}) BY DEF Moved
  <2> QED BY <2>1, <2>2, ConstantSet
<1>14. FieldBits(ConstantBits(\b01010100, 24)) = {26, 28, 30}
  <2>1. AreBits(\b01010100, {2, 4, 6})
    <3>1. \b01010100 \in Int OBVIOUS
    <3> QED BY <3>1, UpTo29, BitAt DEF AreBits
  <2>2. Moved({2, 4, 6}, 24, {26, 28, 30}) BY DEF Moved
  <2> QED BY <2>1, <2>2, ConstantSet
<1> QED
  BY <1>1, <1>2, <1>3, <1>4, <1>5, <1>6, <1>7, <1>8, <1>9, <1>10, <1>11, <1>12, <1>13, <1>14

\* The constants of more than eight bits each stand alone: encodeMul,
LEMMA MulSet == FieldBits(ConstantBits(\h1B007C00, 0)) = {10, 11, 12, 13, 14, 24, 25, 27, 28}
<1>1. AreBits(\h1B007C00, {10, 11, 12, 13, 14, 24, 25, 27, 28})
  <2>1. \h1B007C00 \in Int BY SMT
  <2> QED BY <2>1, UpTo29, BitAt, SMT DEF AreBits
<1>2. Moved({10, 11, 12, 13, 14, 24, 25, 27, 28}, 0, {10, 11, 12, 13, 14, 24, 25, 27, 28})
  BY DEF Moved
<1> QED BY <1>1, <1>2, ConstantSet, SMT

\* encodeBranchRegister,
LEMMA BranchRegisterSet ==
  FieldBits(ConstantBits(\b1101011000011111000000, 10)) =
    {16, 17, 18, 19, 20, 25, 26, 28, 30, 31}
<1>1. AreBits(\b1101011000011111000000, {6, 7, 8, 9, 10, 15, 16, 18, 20, 21})
  <2>1. \b1101011000011111000000 \in Int BY SMT
  <2> QED BY <2>1, UpTo29, BitAt, SMT DEF AreBits
<1>2. Moved({6, 7, 8, 9, 10, 15, 16, 18, 20, 21}, 10, {16, 17, 18, 19, 20, 25, 26, 28, 30, 31})
  BY DEF Moved
<1> QED BY <1>1, <1>2, ConstantSet, SMT

\* encodeReturn
LEMMA ReturnSet ==
  FieldBits(ConstantBits(\b1101011001011111000000, 10)) =
    {16, 17, 18, 19, 20, 22, 25, 26, 28, 30, 31}
<1>1. AreBits(\b1101011001011111000000, {6, 7, 8, 9, 10, 12, 15, 16, 18, 20, 21})
  <2>1. \b1101011001011111000000 \in Int BY SMT
  <2> QED BY <2>1, UpTo29, BitAt, SMT DEF AreBits
<1>2. Moved({6, 7, 8, 9, 10, 12, 15, 16, 18, 20, 21}, 10,
            {16, 17, 18, 19, 20, 22, 25, 26, 28, 30, 31})
  BY DEF Moved
<1> QED BY <1>1, <1>2, ConstantSet, SMT

\* and encodeNop.
LEMMA NopBits ==
  /\ AreBits(\hD503, {0, 1, 8, 10, 12, 14, 15})
  /\ AreBits(\h201F, {0, 1, 2, 3, 4, 13})
<1>1. AreBits(\hD503, {0, 1, 8, 10, 12, 14, 15})
  <2>1. \hD503 \in Int BY SMT
  <2> QED BY <2>1, UpTo29, BitAt, SMT DEF AreBits
<1>2. AreBits(\h201F, {0, 1, 2, 3, 4, 13})
  <2>1. \h201F \in Int BY SMT
  <2> QED BY <2>1, UpTo29, BitAt, SMT DEF AreBits
<1> QED BY <1>1, <1>2, SMT

\* The two halves of a nop.
LEMMA NopSets ==
  /\ FieldBits(ConstantBits(\hD503, 16)) = {16, 17, 24, 26, 28, 30, 31}
  /\ FieldBits(ConstantBits(\h201F, 0)) = {0, 1, 2, 3, 4, 13}
<1>1. /\ Moved({0, 1, 8, 10, 12, 14, 15}, 16, {16, 17, 24, 26, 28, 30, 31})
      /\ Moved({0, 1, 2, 3, 4, 13}, 0, {0, 1, 2, 3, 4, 13})
  BY DEF Moved
<1>2. FieldBits(ConstantBits(\hD503, 16)) = {16, 17, 24, 26, 28, 30, 31}
  BY <1>1, NopBits, ConstantSet, SMT
<1>3. FieldBits(ConstantBits(\h201F, 0)) = {0, 1, 2, 3, 4, 13}
  BY <1>1, NopBits, ConstantSet, SMT
<1> QED BY <1>2, <1>3, SMT

\* Single bits, bit sf and fields of zeros.
LEMMA BitSets ==
  ASSUME NEW o \in Nat
  PROVE  /\ FieldBits(ConstantBits(1, o)) = {o}
         /\ FieldBits(ConstantBits(0, o)) = {}
         /\ \A n \in 1 .. 6 : FieldBits(Field(0, o, n)) = {}
         /\ \A e : FieldBits(SetSf(e)) = IF e.w = "X" THEN {31} ELSE {}
<1>1. AreBits(1, {0})
  <2>1. 1 \in Int OBVIOUS
  <2> QED BY <2>1, UpTo29, BitAt DEF AreBits
<1>2. AreBits(0, {})
  <2>1. 0 \in Int OBVIOUS
  <2> QED BY <2>1, UpTo29, BitAt DEF AreBits
<1>3. FieldBits(ConstantBits(1, o)) = {o}
  <2>1. Moved({0}, o, {o}) BY DEF Moved
  <2> QED BY <1>1, <2>1, ConstantSet
<1>4. FieldBits(ConstantBits(0, o)) = {}
  <2>1. Moved({}, o, {}) BY DEF Moved
  <2> QED BY <1>2, <2>1, ConstantSet
<1>5. \A n \in 1 .. 6 : Placed(0, o, n) = {}
  <2> TAKE n \in 1 .. 6
  <2>1. { k \in 0 .. n - 1 : Bit(0, k) } = {} BY <1>2 DEF AreBits
  <2> QED BY <2>1 DEF Placed, FieldBits, Field, Bit
<1>6. ASSUME NEW e PROVE FieldBits(SetSf(e)) = IF e.w = "X" THEN {31} ELSE {}
  <2>1. Bit(1, 0) /\ ~Bit(0, 0) BY <1>1, <1>2 DEF AreBits
  <2>2. FieldBits(Field(1, 31, 1)) = {31}
    <3>1. /\ Placed(1, 31, 1) \subseteq 31 .. 31 + 1 - 1 /\ 0 \in 0 .. 1 - 1
          /\ \A b \in 0 .. 1 - 1 : 31 + b \in Placed(1, 31, 1) <=> Bit(1, b)
      BY PlacedAt
    <3>2. 31 + 0 \in Placed(1, 31, 1) BY <2>1, <3>1
    <3>3. 31 + 0 = 31 /\ 31 .. 31 + 1 - 1 = {31} OBVIOUS
    <3> QED BY <3>1, <3>2, <3>3 DEF Placed
  <2>3. FieldBits(Field(0, 31, 1)) = {}
    <3>1. { k \in 0 .. 1 - 1 : Bit(0, k) } = {} BY <2>1
    <3> QED BY <3>1 DEF FieldBits, Field, Bit
  <2> QED BY <2>2, <2>3 DEF SetSf
<1> QED BY <1>3, <1>4, <1>5, <1>6 DEF Placed

\* What bit k adds to a number.
B(w, k, p) == IF k \in w THEN p ELSE 0

\* The slices of a word that tell instructions apart.
LEMMA Slices ==
  ASSUME NEW w
  PROVE  /\ Number(w, 28, 26) = B(w, 26, 1) + B(w, 27, 2) + B(w, 28, 4)
         /\ Number(w, 27, 25) = B(w, 25, 1) + B(w, 26, 2) + B(w, 27, 4)
         /\ Number(w, 25, 22) = B(w, 22, 1) + B(w, 23, 2) + B(w, 24, 4) + B(w, 25, 8)
         /\ Number(w, 25, 23) = B(w, 23, 1) + B(w, 24, 2) + B(w, 25, 4)
         /\ Number(w, 30, 29) = B(w, 29, 1) + B(w, 30, 2)
         /\ Number(w, 28, 21) = B(w, 21, 1) + B(w, 22, 2) + B(w, 23, 4) + B(w, 24, 8)
                + B(w, 25, 16) + B(w, 26, 32) + B(w, 27, 64) + B(w, 28, 128)
         /\ Number(w, 15, 10) = B(w, 10, 1) + B(w, 11, 2) + B(w, 12, 4) + B(w, 13, 8)
                + B(w, 14, 16) + B(w, 15, 32)
         /\ Number(w, 11, 10) = B(w, 10, 1) + B(w, 11, 2)
         /\ Number(w, 29, 26) = B(w, 26, 1) + B(w, 27, 2) + B(w, 28, 4) + B(w, 29, 8)
         /\ Number(w, 24, 23) = B(w, 23, 1) + B(w, 24, 2)
         /\ Number(w, 31, 24) = B(w, 24, 1) + B(w, 25, 2) + B(w, 26, 4) + B(w, 27, 8)
                + B(w, 28, 16) + B(w, 29, 32) + B(w, 30, 64) + B(w, 31, 128)
         /\ Number(w, 31, 23) = B(w, 23, 1) + B(w, 24, 2) + B(w, 25, 4) + B(w, 26, 8)
                + B(w, 27, 16) + B(w, 28, 32) + B(w, 29, 64) + B(w, 30, 128)
                + B(w, 31, 256)
         /\ Number(w, 20, 10) = B(w, 10, 1) + B(w, 11, 2) + B(w, 12, 4) + B(w, 13, 8)
                + B(w, 14, 16) + B(w, 15, 32) + B(w, 16, 64) + B(w, 17, 128)
                + B(w, 18, 256) + B(w, 19, 512) + B(w, 20, 1024)
         /\ Number(w, 22, 21) = B(w, 21, 1) + B(w, 22, 2)
         /\ Number(w, 31, 16) = B(w, 16, 1) + B(w, 17, 2) + B(w, 18, 4) + B(w, 19, 8)
                + B(w, 20, 16) + B(w, 21, 32) + B(w, 22, 64) + B(w, 23, 128)
                + B(w, 24, 256) + B(w, 25, 512) + B(w, 26, 1024) + B(w, 27, 2048)
                + B(w, 28, 4096) + B(w, 29, 8192) + B(w, 30, 16384) + B(w, 31, 32768)
         /\ Number(w, 15, 0) = B(w, 0, 1) + B(w, 1, 2) + B(w, 2, 4) + B(w, 3, 8)
                + B(w, 4, 16) + B(w, 5, 32) + B(w, 6, 64) + B(w, 7, 128) + B(w, 8, 256)
                + B(w, 9, 512) + B(w, 10, 1024) + B(w, 11, 2048) + B(w, 12, 4096)
                + B(w, 13, 8192) + B(w, 14, 16384) + B(w, 15, 32768)
<1>1. Number(w, 28, 26) = B(w, 26, 1) + B(w, 27, 2) + B(w, 28, 4)
  <2>1. PICK g : Sums(g, w, 26, 3) BY NumberRec
  <2>2. /\ g[25] = 0 /\ Number(w, 28, 26) = g[28]
        /\ g[26] = g[25] + B(w, 26, 1)
        /\ g[27] = g[26] + B(w, 27, 2)
        /\ g[28] = g[27] + B(w, 28, 4)
    BY <2>1, Powers DEF Sums, B
  <2>3. /\ B(w, 26, 1) \in Nat
        /\ B(w, 27, 2) \in Nat
        /\ B(w, 28, 4) \in Nat
    BY DEF B
  <2> QED BY <2>2, <2>3
<1>2. Number(w, 27, 25) = B(w, 25, 1) + B(w, 26, 2) + B(w, 27, 4)
  <2>1. PICK g : Sums(g, w, 25, 3) BY NumberRec
  <2>2. /\ g[24] = 0 /\ Number(w, 27, 25) = g[27]
        /\ g[25] = g[24] + B(w, 25, 1)
        /\ g[26] = g[25] + B(w, 26, 2)
        /\ g[27] = g[26] + B(w, 27, 4)
    BY <2>1, Powers DEF Sums, B
  <2>3. /\ B(w, 25, 1) \in Nat
        /\ B(w, 26, 2) \in Nat
        /\ B(w, 27, 4) \in Nat
    BY DEF B
  <2> QED BY <2>2, <2>3
<1>3. Number(w, 25, 22) = B(w, 22, 1) + B(w, 23, 2) + B(w, 24, 4) + B(w, 25, 8)
  <2>1. PICK g : Sums(g, w, 22, 4) BY NumberRec
  <2>2. /\ g[21] = 0 /\ Number(w, 25, 22) = g[25]
        /\ g[22] = g[21] + B(w, 22, 1)
        /\ g[23] = g[22] + B(w, 23, 2)
        /\ g[24] = g[23] + B(w, 24, 4)
        /\ g[25] = g[24] + B(w, 25, 8)
    BY <2>1, Powers DEF Sums, B
  <2>3. /\ B(w, 22, 1) \in Nat
        /\ B(w, 23, 2) \in Nat
        /\ B(w, 24, 4) \in Nat
        /\ B(w, 25, 8) \in Nat
    BY DEF B
  <2> QED BY <2>2, <2>3
<1>4. Number(w, 25, 23) = B(w, 23, 1) + B(w, 24, 2) + B(w, 25, 4)
  <2>1. PICK g : Sums(g, w, 23, 3) BY NumberRec
  <2>2. /\ g[22] = 0 /\ Number(w, 25, 23) = g[25]
        /\ g[23] = g[22] + B(w, 23, 1)
        /\ g[24] = g[23] + B(w, 24, 2)
        /\ g[25] = g[24] + B(w, 25, 4)
    BY <2>1, Powers DEF Sums, B
  <2>3. /\ B(w, 23, 1) \in Nat
        /\ B(w, 24, 2) \in Nat
        /\ B(w, 25, 4) \in Nat
    BY DEF B
  <2> QED BY <2>2, <2>3
<1>5. Number(w, 30, 29) = B(w, 29, 1) + B(w, 30, 2)
  <2>1. PICK g : Sums(g, w, 29, 2) BY NumberRec
  <2>2. /\ g[28] = 0 /\ Number(w, 30, 29) = g[30]
        /\ g[29] = g[28] + B(w, 29, 1)
        /\ g[30] = g[29] + B(w, 30, 2)
    BY <2>1, Powers DEF Sums, B
  <2>3. /\ B(w, 29, 1) \in Nat
        /\ B(w, 30, 2) \in Nat
    BY DEF B
  <2> QED BY <2>2, <2>3
<1>6. Number(w, 28, 21) = B(w, 21, 1) + B(w, 22, 2) + B(w, 23, 4) + B(w, 24, 8)
          + B(w, 25, 16) + B(w, 26, 32) + B(w, 27, 64) + B(w, 28, 128)
  <2>1. PICK g : Sums(g, w, 21, 8) BY NumberRec
  <2>2. /\ g[20] = 0 /\ Number(w, 28, 21) = g[28]
        /\ g[21] = g[20] + B(w, 21, 1)
        /\ g[22] = g[21] + B(w, 22, 2)
        /\ g[23] = g[22] + B(w, 23, 4)
        /\ g[24] = g[23] + B(w, 24, 8)
        /\ g[25] = g[24] + B(w, 25, 16)
        /\ g[26] = g[25] + B(w, 26, 32)
        /\ g[27] = g[26] + B(w, 27, 64)
        /\ g[28] = g[27] + B(w, 28, 128)
    BY <2>1, Powers DEF Sums, B
  <2>3. /\ B(w, 21, 1) \in Nat
        /\ B(w, 22, 2) \in Nat
        /\ B(w, 23, 4) \in Nat
        /\ B(w, 24, 8) \in Nat
        /\ B(w, 25, 16) \in Nat
        /\ B(w, 26, 32) \in Nat
        /\ B(w, 27, 64) \in Nat
        /\ B(w, 28, 128) \in Nat
    BY DEF B
  <2> QED BY <2>2, <2>3
<1>7. Number(w, 15, 10) = B(w, 10, 1) + B(w, 11, 2) + B(w, 12, 4) + B(w, 13, 8)
          + B(w, 14, 16) + B(w, 15, 32)
  <2>1. PICK g : Sums(g, w, 10, 6) BY NumberRec
  <2>2. /\ g[9] = 0 /\ Number(w, 15, 10) = g[15]
        /\ g[10] = g[9] + B(w, 10, 1)
        /\ g[11] = g[10] + B(w, 11, 2)
        /\ g[12] = g[11] + B(w, 12, 4)
        /\ g[13] = g[12] + B(w, 13, 8)
        /\ g[14] = g[13] + B(w, 14, 16)
        /\ g[15] = g[14] + B(w, 15, 32)
    BY <2>1, Powers DEF Sums, B
  <2>3. /\ B(w, 10, 1) \in Nat
        /\ B(w, 11, 2) \in Nat
        /\ B(w, 12, 4) \in Nat
        /\ B(w, 13, 8) \in Nat
        /\ B(w, 14, 16) \in Nat
        /\ B(w, 15, 32) \in Nat
    BY DEF B
  <2> QED BY <2>2, <2>3
<1>8. Number(w, 11, 10) = B(w, 10, 1) + B(w, 11, 2)
  <2>1. PICK g : Sums(g, w, 10, 2) BY NumberRec
  <2>2. /\ g[9] = 0 /\ Number(w, 11, 10) = g[11]
        /\ g[10] = g[9] + B(w, 10, 1)
        /\ g[11] = g[10] + B(w, 11, 2)
    BY <2>1, Powers DEF Sums, B
  <2>3. /\ B(w, 10, 1) \in Nat
        /\ B(w, 11, 2) \in Nat
    BY DEF B
  <2> QED BY <2>2, <2>3
<1>9. Number(w, 29, 26) = B(w, 26, 1) + B(w, 27, 2) + B(w, 28, 4) + B(w, 29, 8)
  <2>1. PICK g : Sums(g, w, 26, 4) BY NumberRec
  <2>2. /\ g[25] = 0 /\ Number(w, 29, 26) = g[29]
        /\ g[26] = g[25] + B(w, 26, 1)
        /\ g[27] = g[26] + B(w, 27, 2)
        /\ g[28] = g[27] + B(w, 28, 4)
        /\ g[29] = g[28] + B(w, 29, 8)
    BY <2>1, Powers DEF Sums, B
  <2>3. /\ B(w, 26, 1) \in Nat
        /\ B(w, 27, 2) \in Nat
        /\ B(w, 28, 4) \in Nat
        /\ B(w, 29, 8) \in Nat
    BY DEF B
  <2> QED BY <2>2, <2>3
<1>10. Number(w, 24, 23) = B(w, 23, 1) + B(w, 24, 2)
  <2>1. PICK g : Sums(g, w, 23, 2) BY NumberRec
  <2>2. /\ g[22] = 0 /\ Number(w, 24, 23) = g[24]
        /\ g[23] = g[22] + B(w, 23, 1)
        /\ g[24] = g[23] + B(w, 24, 2)
    BY <2>1, Powers DEF Sums, B
  <2>3. /\ B(w, 23, 1) \in Nat
        /\ B(w, 24, 2) \in Nat
    BY DEF B
  <2> QED BY <2>2, <2>3
<1>11. Number(w, 31, 24) = B(w, 24, 1) + B(w, 25, 2) + B(w, 26, 4) + B(w, 27, 8)
          + B(w, 28, 16) + B(w, 29, 32) + B(w, 30, 64) + B(w, 31, 128)
  <2>1. PICK g : Sums(g, w, 24, 8) BY NumberRec
  <2>2. /\ g[23] = 0 /\ Number(w, 31, 24) = g[31]
        /\ g[24] = g[23] + B(w, 24, 1)
        /\ g[25] = g[24] + B(w, 25, 2)
        /\ g[26] = g[25] + B(w, 26, 4)
        /\ g[27] = g[26] + B(w, 27, 8)
        /\ g[28] = g[27] + B(w, 28, 16)
        /\ g[29] = g[28] + B(w, 29, 32)
        /\ g[30] = g[29] + B(w, 30, 64)
        /\ g[31] = g[30] + B(w, 31, 128)
    BY <2>1, Powers DEF Sums, B
  <2>3. /\ B(w, 24, 1) \in Nat
        /\ B(w, 25, 2) \in Nat
        /\ B(w, 26, 4) \in Nat
        /\ B(w, 27, 8) \in Nat
        /\ B(w, 28, 16) \in Nat
        /\ B(w, 29, 32) \in Nat
        /\ B(w, 30, 64) \in Nat
        /\ B(w, 31, 128) \in Nat
    BY DEF B
  <2> QED BY <2>2, <2>3
<1>12. Number(w, 31, 23) = B(w, 23, 1) + B(w, 24, 2) + B(w, 25, 4) + B(w, 26, 8)
          + B(w, 27, 16) + B(w, 28, 32) + B(w, 29, 64) + B(w, 30, 128) + B(w, 31, 256)
  <2>1. PICK g : Sums(g, w, 23, 9) BY NumberRec
  <2>2. /\ g[22] = 0 /\ Number(w, 31, 23) = g[31]
        /\ g[23] = g[22] + B(w, 23, 1)
        /\ g[24] = g[23] + B(w, 24, 2)
        /\ g[25] = g[24] + B(w, 25, 4)
        /\ g[26] = g[25] + B(w, 26, 8)
        /\ g[27] = g[26] + B(w, 27, 16)
        /\ g[28] = g[27] + B(w, 28, 32)
        /\ g[29] = g[28] + B(w, 29, 64)
        /\ g[30] = g[29] + B(w, 30, 128)
        /\ g[31] = g[30] + B(w, 31, 256)
    BY <2>1, Powers DEF Sums, B
  <2>3. /\ B(w, 23, 1) \in Nat
        /\ B(w, 24, 2) \in Nat
        /\ B(w, 25, 4) \in Nat
        /\ B(w, 26, 8) \in Nat
        /\ B(w, 27, 16) \in Nat
        /\ B(w, 28, 32) \in Nat
        /\ B(w, 29, 64) \in Nat
        /\ B(w, 30, 128) \in Nat
        /\ B(w, 31, 256) \in Nat
    BY DEF B
  <2> QED BY <2>2, <2>3
<1>13. Number(w, 20, 10) = B(w, 10, 1) + B(w, 11, 2) + B(w, 12, 4) + B(w, 13, 8)
          + B(w, 14, 16) + B(w, 15, 32) + B(w, 16, 64) + B(w, 17, 128) + B(w, 18, 256)
          + B(w, 19, 512) + B(w, 20, 1024)
  <2>1. PICK g : Sums(g, w, 10, 11) BY NumberRec
  <2>2. /\ g[9] = 0 /\ Number(w, 20, 10) = g[20]
        /\ g[10] = g[9] + B(w, 10, 1)
        /\ g[11] = g[10] + B(w, 11, 2)
        /\ g[12] = g[11] + B(w, 12, 4)
        /\ g[13] = g[12] + B(w, 13, 8)
        /\ g[14] = g[13] + B(w, 14, 16)
        /\ g[15] = g[14] + B(w, 15, 32)
        /\ g[16] = g[15] + B(w, 16, 64)
        /\ g[17] = g[16] + B(w, 17, 128)
        /\ g[18] = g[17] + B(w, 18, 256)
        /\ g[19] = g[18] + B(w, 19, 512)
        /\ g[20] = g[19] + B(w, 20, 1024)
    BY <2>1, Powers DEF Sums, B
  <2>3. /\ B(w, 10, 1) \in Nat
        /\ B(w, 11, 2) \in Nat
        /\ B(w, 12, 4) \in Nat
        /\ B(w, 13, 8) \in Nat
        /\ B(w, 14, 16) \in Nat
        /\ B(w, 15, 32) \in Nat
        /\ B(w, 16, 64) \in Nat
        /\ B(w, 17, 128) \in Nat
        /\ B(w, 18, 256) \in Nat
        /\ B(w, 19, 512) \in Nat
        /\ B(w, 20, 1024) \in Nat
    BY DEF B
  <2> QED BY <2>2, <2>3
<1>14. Number(w, 22, 21) = B(w, 21, 1) + B(w, 22, 2)
  <2>1. PICK g : Sums(g, w, 21, 2) BY NumberRec
  <2>2. /\ g[20] = 0 /\ Number(w, 22, 21) = g[22]
        /\ g[21] = g[20] + B(w, 21, 1)
        /\ g[22] = g[21] + B(w, 22, 2)
    BY <2>1, Powers DEF Sums, B
  <2>3. /\ B(w, 21, 1) \in Nat
        /\ B(w, 22, 2) \in Nat
    BY DEF B
  <2> QED BY <2>2, <2>3
<1>15. Number(w, 31, 16) = B(w, 16, 1) + B(w, 17, 2) + B(w, 18, 4) + B(w, 19, 8)
          + B(w, 20, 16) + B(w, 21, 32) + B(w, 22, 64) + B(w, 23, 128) + B(w, 24, 256)
          + B(w, 25, 512) + B(w, 26, 1024) + B(w, 27, 2048) + B(w, 28, 4096)
          + B(w, 29, 8192) + B(w, 30, 16384) + B(w, 31, 32768)
  <2>1. PICK g : Sums(g, w, 16, 16) BY NumberRec
  <2>2. /\ g[15] = 0 /\ Number(w, 31, 16) = g[31]
        /\ g[16] = g[15] + B(w, 16, 1)
        /\ g[17] = g[16] + B(w, 17, 2)
        /\ g[18] = g[17] + B(w, 18, 4)
        /\ g[19] = g[18] + B(w, 19, 8)
        /\ g[20] = g[19] + B(w, 20, 16)
        /\ g[21] = g[20] + B(w, 21, 32)
        /\ g[22] = g[21] + B(w, 22, 64)
        /\ g[23] = g[22] + B(w, 23, 128)
        /\ g[24] = g[23] + B(w, 24, 256)
        /\ g[25] = g[24] + B(w, 25, 512)
        /\ g[26] = g[25] + B(w, 26, 1024)
        /\ g[27] = g[26] + B(w, 27, 2048)
        /\ g[28] = g[27] + B(w, 28, 4096)
        /\ g[29] = g[28] + B(w, 29, 8192)
        /\ g[30] = g[29] + B(w, 30, 16384)
        /\ g[31] = g[30] + B(w, 31, 32768)
    BY <2>1, Powers DEF Sums, B
  <2>3. /\ B(w, 16, 1) \in Nat
        /\ B(w, 17, 2) \in Nat
        /\ B(w, 18, 4) \in Nat
        /\ B(w, 19, 8) \in Nat
        /\ B(w, 20, 16) \in Nat
        /\ B(w, 21, 32) \in Nat
        /\ B(w, 22, 64) \in Nat
        /\ B(w, 23, 128) \in Nat
        /\ B(w, 24, 256) \in Nat
        /\ B(w, 25, 512) \in Nat
        /\ B(w, 26, 1024) \in Nat
        /\ B(w, 27, 2048) \in Nat
        /\ B(w, 28, 4096) \in Nat
        /\ B(w, 29, 8192) \in Nat
        /\ B(w, 30, 16384) \in Nat
        /\ B(w, 31, 32768) \in Nat
    BY DEF B
  <2> QED BY <2>2, <2>3
<1>16. Number(w, 15, 0) = B(w, 0, 1) + B(w, 1, 2) + B(w, 2, 4) + B(w, 3, 8) + B(w, 4, 16)
          + B(w, 5, 32) + B(w, 6, 64) + B(w, 7, 128) + B(w, 8, 256) + B(w, 9, 512)
          + B(w, 10, 1024) + B(w, 11, 2048) + B(w, 12, 4096) + B(w, 13, 8192)
          + B(w, 14, 16384) + B(w, 15, 32768)
  <2>1. PICK g : Sums(g, w, 0, 16) BY NumberRec
  <2>2. /\ g[-1] = 0 /\ Number(w, 15, 0) = g[15]
        /\ g[0] = g[-1] + B(w, 0, 1)
        /\ g[1] = g[0] + B(w, 1, 2)
        /\ g[2] = g[1] + B(w, 2, 4)
        /\ g[3] = g[2] + B(w, 3, 8)
        /\ g[4] = g[3] + B(w, 4, 16)
        /\ g[5] = g[4] + B(w, 5, 32)
        /\ g[6] = g[5] + B(w, 6, 64)
        /\ g[7] = g[6] + B(w, 7, 128)
        /\ g[8] = g[7] + B(w, 8, 256)
        /\ g[9] = g[8] + B(w, 9, 512)
        /\ g[10] = g[9] + B(w, 10, 1024)
        /\ g[11] = g[10] + B(w, 11, 2048)
        /\ g[12] = g[11] + B(w, 12, 4096)
        /\ g[13] = g[12] + B(w, 13, 8192)
        /\ g[14] = g[13] + B(w, 14, 16384)
        /\ g[15] = g[14] + B(w, 15, 32768)
    BY <2>1, Powers DEF Sums, B
  <2>3. /\ B(w, 0, 1) \in Nat
        /\ B(w, 1, 2) \in Nat
        /\ B(w, 2, 4) \in Nat
        /\ B(w, 3, 8) \in Nat
        /\ B(w, 4, 16) \in Nat
        /\ B(w, 5, 32) \in Nat
        /\ B(w, 6, 64) \in Nat
        /\ B(w, 7, 128) \in Nat
        /\ B(w, 8, 256) \in Nat
        /\ B(w, 9, 512) \in Nat
        /\ B(w, 10, 1024) \in Nat
        /\ B(w, 11, 2048) \in Nat
        /\ B(w, 12, 4096) \in Nat
        /\ B(w, 13, 8192) \in Nat
        /\ B(w, 14, 16384) \in Nat
        /\ B(w, 15, 32768) \in Nat
    BY DEF B
  <2> QED BY <2>2, <2>3
<1> QED
  BY <1>1, <1>2, <1>3, <1>4, <1>5, <1>6, <1>7, <1>8, <1>9, <1>10, <1>11, <1>12, <1>13,
     <1>14, <1>15, <1>16

\* The word has, at the place of a field, what the field sets.
Bears(w, v, o, n) == \A k \in o .. o + n - 1 : k \in w <=> k \in Placed(v, o, n)

\* A field that a word holds is read as the number in it, cut at its length.
LEMMA HeldNumber ==
  ASSUME NEW w, NEW v \in Int, NEW o \in Nat, NEW n \in 0 .. 26, Bears(w, v, o, n)
  PROVE  /\ Number(w, o + n - 1, o) = v % 2 ^ n
         /\ \A b \in 0 .. n - 1 : o + b \in w <=> Bit(v, b)
<1>1. \A b \in 0 .. n - 1 : o + b \in w <=> Bit(v, b)
  <2> TAKE b \in 0 .. n - 1
  <2>1. o + b \in o .. o + n - 1 OBVIOUS
  <2>2. o + b \in Placed(v, o, n) <=> Bit(v, b) BY PlacedAt
  <2> QED BY <2>1, <2>2 DEF Bears
<1> QED BY <1>1, NumberIs

\* The registers of a word.
LEMMA RegisterReads ==
  ASSUME NEW w
  PROVE  /\ \A v \in Register : Bears(w, v, 0, 5) => Rd(w) = v
         /\ \A v \in Register : Bears(w, v, 5, 5) => Rn(w) = v
         /\ \A v \in Register : Bears(w, v, 16, 5) => Rm(w) = v
         /\ \A v \in Register : Bears(w, v, 10, 5) => Number(w, 14, 10) = v
<1>1. ASSUME NEW v \in Register, Bears(w, v, 0, 5) PROVE Rd(w) = v
  <2>1. v \in Int /\ v % 32 = v BY DEF Register
  <2>2. Number(w, 4, 0) = v % 2 ^ 5 /\ 2 ^ 5 = 32 BY <1>1, <2>1, HeldNumber, Powers
  <2> QED BY <2>1, <2>2 DEF Rd
<1>2. ASSUME NEW v \in Register, Bears(w, v, 5, 5) PROVE Rn(w) = v
  <2>1. v \in Int /\ v % 32 = v BY DEF Register
  <2>2. Number(w, 9, 5) = v % 2 ^ 5 /\ 2 ^ 5 = 32 BY <1>2, <2>1, HeldNumber, Powers
  <2> QED BY <2>1, <2>2 DEF Rn
<1>3. ASSUME NEW v \in Register, Bears(w, v, 16, 5) PROVE Rm(w) = v
  <2>1. v \in Int /\ v % 32 = v BY DEF Register
  <2>2. Number(w, 20, 16) = v % 2 ^ 5 /\ 2 ^ 5 = 32 BY <1>3, <2>1, HeldNumber, Powers
  <2> QED BY <2>1, <2>2 DEF Rm
<1>4. ASSUME NEW v \in Register, Bears(w, v, 10, 5) PROVE Number(w, 14, 10) = v
  <2>1. v \in Int /\ v % 32 = v BY DEF Register
  <2>2. Number(w, 14, 10) = v % 2 ^ 5 /\ 2 ^ 5 = 32 BY <1>4, <2>1, HeldNumber, Powers
  <2> QED BY <2>1, <2>2
<1> QED BY <1>1, <1>2, <1>3, <1>4

\* Its unsigned immediates and its condition.
LEMMA ImmediateReads ==
  ASSUME NEW w
  PROVE  /\ \A v \in 0 .. 3 : Bears(w, v, 21, 2) => Number(w, 22, 21) = v
         /\ \A v \in 0 .. 15 : Bears(w, v, 12, 4) => Number(w, 15, 12) = v
         /\ \A v \in 0 .. 15 : Bears(w, v, 0, 4) => Number(w, 3, 0) = v
         /\ \A v \in Offset12 : Bears(w, v, 10, 12) => Number(w, 21, 10) = v
         /\ \A v \in Half : Bears(w, v, 5, 16) => Number(w, 20, 5) = v
<1>1. ASSUME NEW v \in 0 .. 3, Bears(w, v, 21, 2) PROVE Number(w, 22, 21) = v
  <2>1. v \in Int /\ v % 4 = v OBVIOUS
  <2>2. Number(w, 22, 21) = v % 2 ^ 2 /\ 2 ^ 2 = 4 BY <1>1, <2>1, HeldNumber, Powers
  <2> QED BY <2>1, <2>2
<1>2. ASSUME NEW v \in 0 .. 15, Bears(w, v, 12, 4) PROVE Number(w, 15, 12) = v
  <2>1. v \in Int /\ v % 16 = v OBVIOUS
  <2>2. Number(w, 15, 12) = v % 2 ^ 4 /\ 2 ^ 4 = 16 BY <1>2, <2>1, HeldNumber, Powers
  <2> QED BY <2>1, <2>2
<1>3. ASSUME NEW v \in 0 .. 15, Bears(w, v, 0, 4) PROVE Number(w, 3, 0) = v
  <2>1. v \in Int /\ v % 16 = v OBVIOUS
  <2>2. Number(w, 3, 0) = v % 2 ^ 4 /\ 2 ^ 4 = 16 BY <1>3, <2>1, HeldNumber, Powers
  <2> QED BY <2>1, <2>2
<1>4. ASSUME NEW v \in Offset12, Bears(w, v, 10, 12) PROVE Number(w, 21, 10) = v
  <2>1. v \in Int /\ v % 4096 = v BY DEF Offset12
  <2>2. Number(w, 21, 10) = v % 2 ^ 12 /\ 2 ^ 12 = 4096 BY <1>4, <2>1, HeldNumber, Powers
  <2> QED BY <2>1, <2>2
<1>5. ASSUME NEW v \in Half, Bears(w, v, 5, 16) PROVE Number(w, 20, 5) = v
  <2>1. v \in Int /\ v % 65536 = v BY DEF Half
  <2>2. Number(w, 20, 5) = v % 2 ^ 16 /\ 2 ^ 16 = 65536 BY <1>5, <2>1, HeldNumber, Powers
  <2> QED BY <2>1, <2>2
<1> QED BY <1>1, <1>2, <1>3, <1>4, <1>5

\* Its signed immediates.
LEMMA SignedReads ==
  ASSUME NEW w
  PROVE  /\ \A v \in Offset7 : Bears(w, v, 15, 7) => SignedNumber(w, 21, 15) = v
         /\ \A v \in Near : Bears(w, v, 5, 19) => SignedNumber(w, 23, 5) = v
         /\ \A v \in Near : Bears(w, v, 0, 26) => SignedNumber(w, 25, 0) = v
<1>1. ASSUME NEW v \in Offset7, Bears(w, v, 15, 7) PROVE SignedNumber(w, 21, 15) = v
  <2>1. v \in Int BY DEF Offset7
  <2>2. /\ Number(w, 21, 15) = v % 2 ^ 7 /\ 2 ^ 7 = 128 /\ 2 ^ (21 - 15 + 1) = 128
        /\ \A b \in 0 .. 7 - 1 : 15 + b \in w <=> Bit(v, b)
    BY <1>1, <2>1, HeldNumber, Powers
  <2>3. 21 \in w <=> Bit(v, 6)
    <3>1. 6 \in 0 .. 7 - 1 /\ 15 + 6 = 21 OBVIOUS
    <3> QED BY <2>2, <3>1
  <2>4. Bit(v, 6) <=> (v \div 64) % 2 = 1 BY <2>1, BitAt
  <2>5. CASE v < 0
    <3>1. (v \div 64) % 2 = 1 /\ (v % 128) - 128 = v BY <2>5 DEF Offset7
    <3> QED BY <2>2, <2>3, <2>4, <3>1 DEF SignedNumber
  <2>6. CASE v >= 0
    <3>1. (v \div 64) % 2 # 1 /\ (v % 128) - 0 = v BY <2>6 DEF Offset7
    <3> QED BY <2>2, <2>3, <2>4, <3>1 DEF SignedNumber
  <2> QED BY <2>1, <2>5, <2>6
<1>2. ASSUME NEW v \in Near, Bears(w, v, 5, 19) PROVE SignedNumber(w, 23, 5) = v
  <2>1. v \in Int BY DEF Near
  <2>2. /\ Number(w, 23, 5) = v % 2 ^ 19 /\ 2 ^ 19 = 524288 /\ 2 ^ (23 - 5 + 1) = 524288
        /\ \A b \in 0 .. 19 - 1 : 5 + b \in w <=> Bit(v, b)
    BY <1>2, <2>1, HeldNumber, Powers
  <2>3. 23 \in w <=> Bit(v, 18)
    <3>1. 18 \in 0 .. 19 - 1 /\ 5 + 18 = 23 OBVIOUS
    <3> QED BY <2>2, <3>1
  <2>4. Bit(v, 18) <=> (v \div 262144) % 2 = 1 BY <2>1, BitAt
  <2>5. CASE v < 0
    <3>1. (v \div 262144) % 2 = 1 /\ (v % 524288) - 524288 = v BY <2>5 DEF Near
    <3> QED BY <2>2, <2>3, <2>4, <3>1 DEF SignedNumber
  <2>6. CASE v >= 0
    <3>1. (v \div 262144) % 2 # 1 /\ (v % 524288) - 0 = v BY <2>6 DEF Near
    <3> QED BY <2>2, <2>3, <2>4, <3>1 DEF SignedNumber
  <2> QED BY <2>1, <2>5, <2>6
<1>3. ASSUME NEW v \in Near, Bears(w, v, 0, 26) PROVE SignedNumber(w, 25, 0) = v
  <2>1. v \in Int BY DEF Near
  <2>2. /\ Number(w, 25, 0) = v % 2 ^ 26 /\ 2 ^ 26 = 67108864 /\ 2 ^ (25 - 0 + 1) = 67108864
        /\ \A b \in 0 .. 26 - 1 : 0 + b \in w <=> Bit(v, b)
    BY <1>3, <2>1, HeldNumber, Powers
  <2>3. 25 \in w <=> Bit(v, 25)
    <3>1. 25 \in 0 .. 26 - 1 /\ 0 + 25 = 25 OBVIOUS
    <3> QED BY <2>2, <3>1
  <2>4. Bit(v, 25) <=> (v \div 33554432) % 2 = 1 BY <2>1, BitAt
  <2>5. CASE v < 0
    <3>1. (v \div 33554432) % 2 = 1 /\ (v % 67108864) - 67108864 = v BY <2>5 DEF Near
    <3> QED BY <2>2, <2>3, <2>4, <3>1 DEF SignedNumber
  <2>6. CASE v >= 0
    <3>1. (v \div 33554432) % 2 # 1 /\ (v % 67108864) - 0 = v BY <2>6 DEF Near
    <3> QED BY <2>2, <2>3, <2>4, <3>1 DEF SignedNumber
  <2> QED BY <2>1, <2>5, <2>6
<1> QED BY <1>1, <1>2, <1>3

-----------------------------------------------------------------------------
(***************************************************************************)
(* Every encoder is decoded.  Each proof goes the same way: the word is    *)
(* the bits that mark the instruction and the fields of its operands       *)
(* (<1>3), which lie in places of their own (<1>4, <1>5); so the bits of   *)
(* the marks are as they were set and every operand is held (<1>6, <1>7);  *)
(* so the operands (<1>8) and the slices by which the processor tells      *)
(* instructions apart (<1>9) are read as they were written.                *)
(***************************************************************************)
\* The processor reads the word of e as e.
Decodes(e) == Word(e) \subseteq 0 .. 31 /\ Decoded(Word(e)) = e

\* A field lies within its place.
LEMMA PlacedWithin ==
  /\ \A v \in Register : /\ Placed(v, 0, 5) \subseteq 0 .. 4 /\ Placed(v, 5, 5) \subseteq 5 .. 9
                         /\ Placed(v, 16, 5) \subseteq 16 .. 20 /\ Placed(v, 10, 5) \subseteq 10 .. 14
  /\ \A v \in Offset12 : Placed(v, 10, 12) \subseteq 10 .. 21
  /\ \A v \in Half : Placed(v, 5, 16) \subseteq 5 .. 20
  /\ \A v \in 0 .. 3 : Placed(v, 21, 2) \subseteq 21 .. 22
  /\ \A v \in 0 .. 15 : Placed(v, 12, 4) \subseteq 12 .. 15 /\ Placed(v, 0, 4) \subseteq 0 .. 3
  /\ \A v \in Offset7 : Placed(v, 15, 7) \subseteq 15 .. 21
  /\ \A v \in Near : Placed(v, 0, 26) \subseteq 0 .. 25 /\ Placed(v, 5, 19) \subseteq 5 .. 23
<1>1. ASSUME NEW v \in Register
      PROVE  /\ Placed(v, 0, 5) \subseteq 0 .. 4
             /\ Placed(v, 5, 5) \subseteq 5 .. 9
             /\ Placed(v, 16, 5) \subseteq 16 .. 20
             /\ Placed(v, 10, 5) \subseteq 10 .. 14
  <2>1. v \in Int BY DEF Register
  <2>2. /\ Placed(v, 0, 5) \subseteq 0 .. 0 + 5 - 1
        /\ Placed(v, 5, 5) \subseteq 5 .. 5 + 5 - 1
        /\ Placed(v, 16, 5) \subseteq 16 .. 16 + 5 - 1
        /\ Placed(v, 10, 5) \subseteq 10 .. 10 + 5 - 1
    BY <2>1, PlacedAt
  <2> QED BY <2>2
<1>2. ASSUME NEW v \in Offset12
      PROVE  Placed(v, 10, 12) \subseteq 10 .. 21
  <2>1. v \in Int BY DEF Offset12
  <2>2. Placed(v, 10, 12) \subseteq 10 .. 10 + 12 - 1
    BY <2>1, PlacedAt
  <2> QED BY <2>2
<1>3. ASSUME NEW v \in Half
      PROVE  Placed(v, 5, 16) \subseteq 5 .. 20
  <2>1. v \in Int BY DEF Half
  <2>2. Placed(v, 5, 16) \subseteq 5 .. 5 + 16 - 1
    BY <2>1, PlacedAt
  <2> QED BY <2>2
<1>4. ASSUME NEW v \in 0 .. 3
      PROVE  Placed(v, 21, 2) \subseteq 21 .. 22
  <2>1. v \in Int OBVIOUS
  <2>2. Placed(v, 21, 2) \subseteq 21 .. 21 + 2 - 1
    BY <2>1, PlacedAt
  <2> QED BY <2>2
<1>5. ASSUME NEW v \in 0 .. 15
      PROVE  /\ Placed(v, 12, 4) \subseteq 12 .. 15
             /\ Placed(v, 0, 4) \subseteq 0 .. 3
  <2>1. v \in Int OBVIOUS
  <2>2. /\ Placed(v, 12, 4) \subseteq 12 .. 12 + 4 - 1
        /\ Placed(v, 0, 4) \subseteq 0 .. 0 + 4 - 1
    BY <2>1, PlacedAt
  <2> QED BY <2>2
<1>6. ASSUME NEW v \in Offset7
      PROVE  Placed(v, 15, 7) \subseteq 15 .. 21
  <2>1. v \in Int BY DEF Offset7
  <2>2. Placed(v, 15, 7) \subseteq 15 .. 15 + 7 - 1
    BY <2>1, PlacedAt
  <2> QED BY <2>2
<1>7. ASSUME NEW v \in Near
      PROVE  /\ Placed(v, 0, 26) \subseteq 0 .. 25
             /\ Placed(v, 5, 19) \subseteq 5 .. 23
  <2>1. v \in Int BY DEF Near
  <2>2. /\ Placed(v, 0, 26) \subseteq 0 .. 0 + 26 - 1
        /\ Placed(v, 5, 19) \subseteq 5 .. 5 + 19 - 1
    BY <2>1, PlacedAt
  <2> QED BY <2>2
<1> QED BY <1>1, <1>2, <1>3, <1>4, <1>5, <1>6, <1>7

\* The numbers of the conditions that the encoders know.
LEMMA ConditionNumbers ==
  \A c \in Condition :
    reverse_cond_str_map[c] \in 0 .. 15 /\ ConditionOf[1 + reverse_cond_str_map[c]] = c
BY DEF Condition, reverse_cond_str_map, ConditionOf

\* The bits of the addressing modes.
LEMMA PairSets ==
  \A mode \in EncodingMode :
    FieldBits(ConstantBits(PairMode[mode], 23)) =
      (IF mode = "PreIndex" THEN {23, 24} ELSE IF mode = "PostIndex" THEN {23} ELSE {24}) \cup {27, 29}
<1>1. /\ PairMode["PreIndex"] = \b1010011 /\ PairMode["PostIndex"] = \b1010001
      /\ PairMode["SignedOffset"] = \b1010010
  BY DEF PairMode
<1>2. {23, 24, 27, 29} = {23, 24} \cup {27, 29} /\ {23, 27, 29} = {23} \cup {27, 29}
      /\ {24, 27, 29} = {24} \cup {27, 29}
  OBVIOUS
<1> QED BY <1>1, <1>2, ConstantSets DEF EncodingMode

\* encodeMovRegister.
LEMMA MovDecodes ==
  ASSUME NEW r, NEW d \in Register, NEW m \in Register
  PROVE  Decodes(Ins("mov", r, d, 31, m, 0, "none"))
<1> DEFINE e == Ins("mov", r, d, 31, m, 0, "none")
           word == Word(e)
           marks == (IF e.w = "X" THEN {31} ELSE {}) \cup {25, 27, 29}
           mm == Placed(m, 16, 5)
           nn == Placed(31, 5, 5)
           dd == Placed(d, 0, 5)
<1>1. e.op = "mov" /\ e.w = Width(r) /\ e.d = d /\ e.m = m /\ 31 \in Register
  BY DEF Ins, Register
<1>2. e.w \in {"W", "X"} /\ Ins("mov", e.w, d, 31, m, 0, "none") = e BY <1>1 DEF Ins, Width
<1> HIDE DEF e
<1>3. word = marks \cup mm \cup nn \cup dd
  <2>1. FieldsOf(e) = MovFields(e) BY <1>1 DEF FieldsOf
  <2>2. word = FieldBits(SetSf(e)) \cup Placed(e.m, 16, 5) \cup Placed(e.d, 0, 5)
        \cup FieldBits(ConstantBits(\b10101, 25)) \cup Placed(31, 5, 5)
    BY <1>1, <2>1 DEF Word, MovFields, SetRd, SetRn, SetRm, Placed
  <2>3. FieldBits(SetSf(e)) = (IF e.w = "X" THEN {31} ELSE {}) BY BitSets
  <2>4. FieldBits(ConstantBits(\b10101, 25)) = {25, 27, 29} BY ConstantSets
  <2> QED BY <1>1, <2>2, <2>3, <2>4 DEF marks, mm, nn, dd
<1>4. mm \subseteq 16 .. 20 /\ nn \subseteq 5 .. 9 /\ dd \subseteq 0 .. 4
  BY <1>1, PlacedWithin
<1>5. marks \subseteq 22 .. 31 /\ (31 \in marks <=> e.w = "X")
      /\ {25, 27, 29} \subseteq marks
      /\ {10, 11, 12, 13, 14, 15, 21, 22, 23, 24, 26, 28, 30} \cap marks = {}
  BY <1>1
<1> HIDE DEF marks, mm, nn, dd
<1>6. word \subseteq 0 .. 31 /\ (31 \in word <=> e.w = "X") /\ {25, 27, 29} \subseteq word
      /\ {10, 11, 12, 13, 14, 15, 21, 22, 23, 24, 26, 28, 30} \cap word = {}
  <2>1. word \subseteq 0 .. 31
    <3>1. marks \subseteq 0 .. 31 BY <1>5
    <3>2. mm \subseteq 0 .. 31 BY <1>4
    <3>3. nn \subseteq 0 .. 31 BY <1>4
    <3>4. dd \subseteq 0 .. 31 BY <1>4
    <3> QED BY <1>3, <3>1, <3>2, <3>3, <3>4
  <2>2. (31 \in word <=> e.w = "X") BY <1>3, <1>4, <1>5
  <2>3. {25, 27, 29} \subseteq word BY <1>3, <1>4, <1>5
  <2>4. {10, 11, 12, 13, 14, 15, 21, 22, 23, 24, 26, 28, 30} \cap word = {}
    BY <1>3, <1>4, <1>5
  <2> QED BY <2>1, <2>2, <2>3, <2>4
<1>7. Bears(word, m, 16, 5) /\ Bears(word, 31, 5, 5) /\ Bears(word, d, 0, 5)
  <2>1. \A k \in 16 .. 20 : k \in word <=> k \in mm BY <1>3, <1>4, <1>5
  <2>2. \A k \in 5 .. 9 : k \in word <=> k \in nn BY <1>3, <1>4, <1>5
  <2>3. \A k \in 0 .. 4 : k \in word <=> k \in dd BY <1>3, <1>4, <1>5
  <2> QED BY <2>1, <2>2, <2>3 DEF Bears, mm, nn, dd
<1> HIDE DEF word
<1>8. Rm(word) = m /\ Rn(word) = 31 /\ Rd(word) = d
  BY <1>1, <1>7, RegisterReads, ImmediateReads, SignedReads
<1>9. Number(word, 28, 26) = 2 /\ Number(word, 27, 25) = 5 /\ Number(word, 28, 21) = 80
      /\ Number(word, 15, 10) = 0
  BY <1>6, Slices DEF B
<1>10. DataRegister(word) = Ins("mov", e.w, d, 31, m, 0, "none")
  BY <1>1, <1>2, <1>6, <1>8, <1>9 DEF DataRegister, Sf
<1>11. Decoded(word) = DataRegister(word) BY <1>6, <1>9 DEF Decoded
<1> QED BY <1>2, <1>6, <1>10, <1>11 DEF Decodes, word, e

\* encodeMovz and encodeMovk.
LEMMA MovWideDecodes ==
  ASSUME NEW op \in {"movz", "movk"}, NEW r, NEW d \in Register, NEW h \in 0 .. 3,
         NEW imm \in Half
  PROVE  Decodes(Ins(op, r, d, 0, h, imm, "none"))
<1> DEFINE e == Ins(op, r, d, 0, h, imm, "none")
           word == Word(e)
           marks == (IF e.w = "X" THEN {31} ELSE {}) \cup (IF op = "movk" THEN {29} ELSE {})
                    \cup {23, 25, 28, 30}
           half == Placed(h, 21, 2)
           number == Placed(imm, 5, 16)
           dd == Placed(d, 0, 5)
<1>1. e.op = op /\ e.w = Width(r) /\ e.d = d /\ e.m = h /\ e.imm = imm BY DEF Ins
<1>2. e.w \in {"W", "X"} /\ Ins(op, e.w, d, 0, h, imm, "none") = e BY <1>1 DEF Ins, Width
<1> HIDE DEF e
<1>3. word = marks \cup half \cup number \cup dd
  <2>1. FieldsOf(e) = MovWideFields(e) BY <1>1 DEF FieldsOf
  <2>2. word = FieldBits(SetSf(e))
        \cup FieldBits(ConstantBits(IF e.op = "movz" THEN \b10100101 ELSE \b11100101, 23))
        \cup Placed(e.m, 21, 2) \cup Placed(e.imm, 5, 16) \cup Placed(e.d, 0, 5)
    BY <1>1, <2>1 DEF Word, MovWideFields, SetRd, Placed
  <2>3. FieldBits(SetSf(e)) = (IF e.w = "X" THEN {31} ELSE {}) BY BitSets
  <2>4. FieldBits(ConstantBits(IF e.op = "movz" THEN \b10100101 ELSE \b11100101, 23)) =
        (IF op = "movk" THEN {29} ELSE {}) \cup {23, 25, 28, 30}
    BY <1>1, ConstantSets
  <2> QED BY <1>1, <2>2, <2>3, <2>4 DEF marks, half, number, dd
<1>4. half \subseteq 21 .. 22 /\ number \subseteq 5 .. 20 /\ dd \subseteq 0 .. 4
  BY <1>1, PlacedWithin
<1>5. marks \subseteq 23 .. 31 /\ (31 \in marks <=> e.w = "X")
      /\ (29 \in marks <=> op = "movk") /\ {23, 25, 28, 30} \subseteq marks
      /\ {24, 26, 27} \cap marks = {}
  BY <1>1
<1> HIDE DEF marks, half, number, dd
<1>6. word \subseteq 0 .. 31 /\ (31 \in word <=> e.w = "X") /\ (29 \in word <=> op = "movk")
      /\ {23, 25, 28, 30} \subseteq word /\ {24, 26, 27} \cap word = {}
  <2>1. word \subseteq 0 .. 31
    <3>1. marks \subseteq 0 .. 31 BY <1>5
    <3>2. half \subseteq 0 .. 31 BY <1>4
    <3>3. number \subseteq 0 .. 31 BY <1>4
    <3>4. dd \subseteq 0 .. 31 BY <1>4
    <3> QED BY <1>3, <3>1, <3>2, <3>3, <3>4
  <2>2. (31 \in word <=> e.w = "X") BY <1>3, <1>4, <1>5
  <2>3. (29 \in word <=> op = "movk") BY <1>3, <1>4, <1>5
  <2>4. {23, 25, 28, 30} \subseteq word BY <1>3, <1>4, <1>5
  <2>5. {24, 26, 27} \cap word = {} BY <1>3, <1>4, <1>5
  <2> QED BY <2>1, <2>2, <2>3, <2>4, <2>5
<1>7. Bears(word, h, 21, 2) /\ Bears(word, imm, 5, 16) /\ Bears(word, d, 0, 5)
  <2>1. \A k \in 21 .. 22 : k \in word <=> k \in half BY <1>3, <1>4, <1>5
  <2>2. \A k \in 5 .. 20 : k \in word <=> k \in number BY <1>3, <1>4, <1>5
  <2>3. \A k \in 0 .. 4 : k \in word <=> k \in dd BY <1>3, <1>4, <1>5
  <2> QED BY <2>1, <2>2, <2>3 DEF Bears, half, number, dd
<1> HIDE DEF word
<1>8. Number(word, 22, 21) = h /\ Number(word, 20, 5) = imm /\ Rd(word) = d
  BY <1>1, <1>7, RegisterReads, ImmediateReads, SignedReads
<1>9. Number(word, 28, 26) = 4 /\ Number(word, 27, 25) = 1 /\ Number(word, 25, 23) = 5
  BY <1>6, Slices DEF B
<1>10. Number(word, 25, 22) # 4 /\ Number(word, 30, 29) = (IF op = "movk" THEN 3 ELSE 2)
  BY <1>6, Slices DEF B
<1>11. DataImmediate(word) = Ins(op, e.w, d, 0, h, imm, "none")
  BY <1>1, <1>2, <1>6, <1>8, <1>9, <1>10 DEF DataImmediate, Sf
<1>12. Decoded(word) = DataImmediate(word) BY <1>6, <1>9 DEF Decoded
<1> QED BY <1>2, <1>6, <1>11, <1>12 DEF Decodes, word, e

\* encodeAddSubImm and encodeCompareImm.
LEMMA AddSubImmDecodes ==
  ASSUME NEW op \in {"add", "sub", "cmpi"}, NEW r, NEW d \in Register, NEW n \in Register,
         NEW imm \in Offset12, op = "cmpi" => d = 31
  PROVE  Decodes(Ins(op, r, d, n, 0, imm, "none"))
<1> DEFINE e == Ins(op, r, d, n, 0, imm, "none")
           word == Word(e)
           marks == (IF e.w = "X" THEN {31} ELSE {}) \cup (IF op # "add" THEN {30} ELSE {})
                    \cup (IF op = "cmpi" THEN {29} ELSE {}) \cup {24, 28}
           offset == Placed(imm, 10, 12)
           nn == Placed(n, 5, 5)
           dd == Placed(d, 0, 5)
<1>1. e.op = op /\ e.w = Width(r) /\ e.d = d /\ e.n = n /\ e.imm = imm BY DEF Ins
<1>2. e.w \in {"W", "X"} /\ Ins(op, e.w, d, n, 0, imm, "none") = e BY <1>1 DEF Ins, Width
<1> HIDE DEF e
<1>3. word = marks \cup offset \cup nn \cup dd
  <2>1. FieldsOf(e) = AddSubImmFields(e) BY <1>1 DEF FieldsOf
  <2>2. word = FieldBits(SetSf(e)) \cup FieldBits(Flag(e.op # "add", 30))
        \cup FieldBits(Flag(e.op = "cmpi", 29)) \cup FieldBits(ConstantBits(\b10001, 24))
        \cup FieldBits(Field(0, 22, 1)) \cup Placed(e.imm, 10, 12) \cup Placed(e.n, 5, 5)
        \cup Placed(e.d, 0, 5)
    BY <1>1, <2>1 DEF Word, AddSubImmFields, SetRd, SetRn, Placed
  <2>3. FieldBits(SetSf(e)) = (IF e.w = "X" THEN {31} ELSE {}) BY BitSets
  <2>4. FieldBits(Flag(e.op # "add", 30)) = (IF op # "add" THEN {30} ELSE {})
    BY <1>1, BitSets DEF Flag
  <2>5. FieldBits(Flag(e.op = "cmpi", 29)) = (IF op = "cmpi" THEN {29} ELSE {})
    BY <1>1, BitSets DEF Flag
  <2>6. FieldBits(ConstantBits(\b10001, 24)) = {24, 28} BY ConstantSets
  <2>7. FieldBits(Field(0, 22, 1)) = {} BY BitSets
  <2> QED BY <1>1, <2>2, <2>3, <2>4, <2>5, <2>6, <2>7 DEF marks, offset, nn, dd
<1>4. offset \subseteq 10 .. 21 /\ nn \subseteq 5 .. 9 /\ dd \subseteq 0 .. 4
  BY <1>1, PlacedWithin
<1>5. marks \subseteq 22 .. 31 /\ (31 \in marks <=> e.w = "X")
      /\ (30 \in marks <=> op # "add") /\ (29 \in marks <=> op = "cmpi")
      /\ {24, 28} \subseteq marks /\ {22, 23, 25, 26, 27} \cap marks = {}
  BY <1>1
<1> HIDE DEF marks, offset, nn, dd
<1>6. word \subseteq 0 .. 31 /\ (31 \in word <=> e.w = "X") /\ (30 \in word <=> op # "add")
      /\ (29 \in word <=> op = "cmpi") /\ {24, 28} \subseteq word
      /\ {22, 23, 25, 26, 27} \cap word = {}
  <2>1. word \subseteq 0 .. 31
    <3>1. marks \subseteq 0 .. 31 BY <1>5
    <3>2. offset \subseteq 0 .. 31 BY <1>4
    <3>3. nn \subseteq 0 .. 31 BY <1>4
    <3>4. dd \subseteq 0 .. 31 BY <1>4
    <3> QED BY <1>3, <3>1, <3>2, <3>3, <3>4
  <2>2. (31 \in word <=> e.w = "X") BY <1>3, <1>4, <1>5
  <2>3. (30 \in word <=> op # "add") BY <1>3, <1>4, <1>5
  <2>4. (29 \in word <=> op = "cmpi") BY <1>3, <1>4, <1>5
  <2>5. {24, 28} \subseteq word BY <1>3, <1>4, <1>5
  <2>6. {22, 23, 25, 26, 27} \cap word = {} BY <1>3, <1>4, <1>5
  <2> QED BY <2>1, <2>2, <2>3, <2>4, <2>5, <2>6
<1>7. Bears(word, imm, 10, 12) /\ Bears(word, n, 5, 5) /\ Bears(word, d, 0, 5)
  <2>1. \A k \in 10 .. 21 : k \in word <=> k \in offset BY <1>3, <1>4, <1>5
  <2>2. \A k \in 5 .. 9 : k \in word <=> k \in nn BY <1>3, <1>4, <1>5
  <2>3. \A k \in 0 .. 4 : k \in word <=> k \in dd BY <1>3, <1>4, <1>5
  <2> QED BY <2>1, <2>2, <2>3 DEF Bears, offset, nn, dd
<1> HIDE DEF word
<1>8. Number(word, 21, 10) = imm /\ Rn(word) = n /\ Rd(word) = d
  BY <1>1, <1>7, RegisterReads, ImmediateReads, SignedReads
<1>9. Number(word, 28, 26) = 4 /\ Number(word, 27, 25) = 0 /\ Number(word, 25, 22) = 4
      /\ Number(word, 25, 23) = 2
  BY <1>6, Slices DEF B
<1>10. DataImmediate(word) = Ins(op, e.w, d, n, 0, imm, "none")
  BY <1>1, <1>2, <1>6, <1>8, <1>9 DEF DataImmediate, AddOrSub, Sf
<1>11. Decoded(word) = DataImmediate(word) BY <1>6, <1>9 DEF Decoded
<1> QED BY <1>2, <1>6, <1>10, <1>11 DEF Decodes, word, e

\* encodeAddSubShift and encodeCompareShift.
LEMMA AddSubShiftDecodes ==
  ASSUME NEW op \in {"addr", "subr", "cmpr"}, NEW r, NEW d \in Register, NEW n \in Register,
         NEW m \in Register, op = "cmpr" => d = 31
  PROVE  Decodes(Ins(op, r, d, n, m, 0, "none"))
<1> DEFINE e == Ins(op, r, d, n, m, 0, "none")
           word == Word(e)
           marks == (IF e.w = "X" THEN {31} ELSE {}) \cup (IF op # "addr" THEN {30} ELSE {})
                    \cup (IF op = "cmpr" THEN {29} ELSE {}) \cup {24, 25, 27}
           mm == Placed(m, 16, 5)
           nn == Placed(n, 5, 5)
           dd == Placed(d, 0, 5)
<1>1. e.op = op /\ e.w = Width(r) /\ e.d = d /\ e.n = n /\ e.m = m BY DEF Ins
<1>2. e.w \in {"W", "X"} /\ Ins(op, e.w, d, n, m, 0, "none") = e BY <1>1 DEF Ins, Width
<1> HIDE DEF e
<1>3. word = marks \cup mm \cup nn \cup dd
  <2>1. FieldsOf(e) = AddSubShiftFields(e) BY <1>1 DEF FieldsOf
  <2>2. word = FieldBits(SetSf(e)) \cup FieldBits(ConstantBits(\b1011, 24))
        \cup FieldBits(Flag(e.op # "addr", 30)) \cup FieldBits(Flag(e.op = "cmpr", 29))
        \cup FieldBits(Field(0, 22, 2)) \cup FieldBits(Field(0, 10, 6))
        \cup Placed(e.d, 0, 5) \cup Placed(e.n, 5, 5) \cup Placed(e.m, 16, 5)
    BY <1>1, <2>1 DEF Word, AddSubShiftFields, Registers, SetRd, SetRn, SetRm, Placed
  <2>3. FieldBits(SetSf(e)) = (IF e.w = "X" THEN {31} ELSE {}) BY BitSets
  <2>4. FieldBits(ConstantBits(\b1011, 24)) = {24, 25, 27} BY ConstantSets
  <2>5. FieldBits(Flag(e.op # "addr", 30)) = (IF op # "addr" THEN {30} ELSE {})
    BY <1>1, BitSets DEF Flag
  <2>6. FieldBits(Flag(e.op = "cmpr", 29)) = (IF op = "cmpr" THEN {29} ELSE {})
    BY <1>1, BitSets DEF Flag
  <2>7. FieldBits(Field(0, 22, 2)) = {} BY BitSets
  <2>8. FieldBits(Field(0, 10, 6)) = {} BY BitSets
  <2> QED BY <1>1, <2>2, <2>3, <2>4, <2>5, <2>6, <2>7, <2>8 DEF marks, mm, nn, dd
<1>4. mm \subseteq 16 .. 20 /\ nn \subseteq 5 .. 9 /\ dd \subseteq 0 .. 4
  BY <1>1, PlacedWithin
<1>5. marks \subseteq 22 .. 31 /\ (31 \in marks <=> e.w = "X")
      /\ (30 \in marks <=> op # "addr") /\ (29 \in marks <=> op = "cmpr")
      /\ {24, 25, 27} \subseteq marks
      /\ {10, 11, 12, 13, 14, 15, 21, 22, 23, 26, 28} \cap marks = {}
  BY <1>1
<1> HIDE DEF marks, mm, nn, dd
<1>6. word \subseteq 0 .. 31 /\ (31 \in word <=> e.w = "X") /\ (30 \in word <=> op # "addr")
      /\ (29 \in word <=> op = "cmpr") /\ {24, 25, 27} \subseteq word
      /\ {10, 11, 12, 13, 14, 15, 21, 22, 23, 26, 28} \cap word = {}
  <2>1. word \subseteq 0 .. 31
    <3>1. marks \subseteq 0 .. 31 BY <1>5
    <3>2. mm \subseteq 0 .. 31 BY <1>4
    <3>3. nn \subseteq 0 .. 31 BY <1>4
    <3>4. dd \subseteq 0 .. 31 BY <1>4
    <3> QED BY <1>3, <3>1, <3>2, <3>3, <3>4
  <2>2. (31 \in word <=> e.w = "X") BY <1>3, <1>4, <1>5
  <2>3. (30 \in word <=> op # "addr") BY <1>3, <1>4, <1>5
  <2>4. (29 \in word <=> op = "cmpr") BY <1>3, <1>4, <1>5
  <2>5. {24, 25, 27} \subseteq word BY <1>3, <1>4, <1>5
  <2>6. {10, 11, 12, 13, 14, 15, 21, 22, 23, 26, 28} \cap word = {} BY <1>3, <1>4, <1>5
  <2> QED BY <2>1, <2>2, <2>3, <2>4, <2>5, <2>6
<1>7. Bears(word, m, 16, 5) /\ Bears(word, n, 5, 5) /\ Bears(word, d, 0, 5)
  <2>1. \A k \in 16 .. 20 : k \in word <=> k \in mm BY <1>3, <1>4, <1>5
  <2>2. \A k \in 5 .. 9 : k \in word <=> k \in nn BY <1>3, <1>4, <1>5
  <2>3. \A k \in 0 .. 4 : k \in word <=> k \in dd BY <1>3, <1>4, <1>5
  <2> QED BY <2>1, <2>2, <2>3 DEF Bears, mm, nn, dd
<1> HIDE DEF word
<1>8. Rm(word) = m /\ Rn(word) = n /\ Rd(word) = d
  BY <1>1, <1>7, RegisterReads, ImmediateReads, SignedReads
<1>9. Number(word, 28, 26) = 2 /\ Number(word, 27, 25) = 5 /\ Number(word, 28, 21) = 88
      /\ Number(word, 15, 10) = 0
  BY <1>6, Slices DEF B
<1>10. DataRegister(word) = Ins(op, e.w, d, n, m, 0, "none")
  BY <1>1, <1>2, <1>6, <1>8, <1>9 DEF DataRegister, AddOrSub, Sf
<1>11. Decoded(word) = DataRegister(word) BY <1>6, <1>9 DEF Decoded
<1> QED BY <1>2, <1>6, <1>10, <1>11 DEF Decodes, word, e

\* encodeMul.
LEMMA MulDecodes ==
  ASSUME NEW r, NEW d \in Register, NEW n \in Register, NEW m \in Register
  PROVE  Decodes(Ins("mul", r, d, n, m, 0, "none"))
<1> DEFINE e == Ins("mul", r, d, n, m, 0, "none")
           word == Word(e)
           marks == (IF e.w = "X" THEN {31} ELSE {})
                    \cup {10, 11, 12, 13, 14, 24, 25, 27, 28}
           mm == Placed(m, 16, 5)
           nn == Placed(n, 5, 5)
           dd == Placed(d, 0, 5)
<1>1. e.op = "mul" /\ e.w = Width(r) /\ e.d = d /\ e.n = n /\ e.m = m BY DEF Ins
<1>2. e.w \in {"W", "X"} /\ Ins("mul", e.w, d, n, m, 0, "none") = e BY <1>1 DEF Ins, Width
<1> HIDE DEF e
<1>3. word = marks \cup mm \cup nn \cup dd
  <2>1. FieldsOf(e) = MulFields(e) BY <1>1 DEF FieldsOf
  <2>2. word = FieldBits(SetSf(e)) \cup FieldBits(ConstantBits(\h1B007C00, 0))
        \cup Placed(e.d, 0, 5) \cup Placed(e.n, 5, 5) \cup Placed(e.m, 16, 5)
    BY <1>1, <2>1, SMTT(20) DEF Word, MulFields, Registers, SetRd, SetRn, SetRm, Placed
  <2>3. FieldBits(SetSf(e)) = (IF e.w = "X" THEN {31} ELSE {}) BY BitSets
  <2>4. FieldBits(ConstantBits(\h1B007C00, 0)) = {10, 11, 12, 13, 14, 24, 25, 27, 28}
    BY MulSet, SMTT(20)
  <2> QED BY <1>1, <2>2, <2>3, <2>4, SMTT(20) DEF marks, mm, nn, dd
<1>4. mm \subseteq 16 .. 20 /\ nn \subseteq 5 .. 9 /\ dd \subseteq 0 .. 4
  BY <1>1, PlacedWithin
<1>5. marks \subseteq (10 .. 14) \cup (22 .. 31) /\ (31 \in marks <=> e.w = "X")
      /\ {10, 11, 12, 13, 14, 24, 25, 27, 28} \subseteq marks
      /\ {15, 21, 22, 23, 26, 29, 30} \cap marks = {}
  BY <1>1
<1> HIDE DEF marks, mm, nn, dd
<1>6. word \subseteq 0 .. 31 /\ (31 \in word <=> e.w = "X")
      /\ {10, 11, 12, 13, 14, 24, 25, 27, 28} \subseteq word
      /\ {15, 21, 22, 23, 26, 29, 30} \cap word = {}
  <2>1. word \subseteq 0 .. 31
    <3>1. marks \subseteq 0 .. 31 BY <1>5
    <3>2. mm \subseteq 0 .. 31 BY <1>4
    <3>3. nn \subseteq 0 .. 31 BY <1>4
    <3>4. dd \subseteq 0 .. 31 BY <1>4
    <3> QED BY <1>3, <3>1, <3>2, <3>3, <3>4
  <2>2. (31 \in word <=> e.w = "X") BY <1>3, <1>4, <1>5
  <2>3. {10, 11, 12, 13, 14, 24, 25, 27, 28} \subseteq word BY <1>3, <1>4, <1>5
  <2>4. {15, 21, 22, 23, 26, 29, 30} \cap word = {} BY <1>3, <1>4, <1>5
  <2> QED BY <2>1, <2>2, <2>3, <2>4
<1>7. Bears(word, m, 16, 5) /\ Bears(word, n, 5, 5) /\ Bears(word, d, 0, 5)
  <2>1. \A k \in 16 .. 20 : k \in word <=> k \in mm BY <1>3, <1>4, <1>5
  <2>2. \A k \in 5 .. 9 : k \in word <=> k \in nn BY <1>3, <1>4, <1>5
  <2>3. \A k \in 0 .. 4 : k \in word <=> k \in dd BY <1>3, <1>4, <1>5
  <2> QED BY <2>1, <2>2, <2>3 DEF Bears, mm, nn, dd
<1> HIDE DEF word
<1>8. Rm(word) = m /\ Rn(word) = n /\ Rd(word) = d
  BY <1>1, <1>7, RegisterReads, ImmediateReads, SignedReads
<1>9. Number(word, 28, 26) = 6 /\ Number(word, 27, 25) = 5 /\ Number(word, 28, 21) = 216
      /\ Number(word, 15, 10) = 31
  BY <1>6, Slices DEF B
<1>10. DataRegister(word) = Ins("mul", e.w, d, n, m, 0, "none")
  BY <1>1, <1>2, <1>6, <1>8, <1>9 DEF DataRegister, Sf
<1>11. Decoded(word) = DataRegister(word) BY <1>6, <1>9 DEF Decoded
<1> QED BY <1>2, <1>6, <1>10, <1>11 DEF Decodes, word, e

\* encodeDiv.
LEMMA DivDecodes ==
  ASSUME NEW op \in {"sdiv", "udiv"}, NEW r, NEW d \in Register, NEW n \in Register,
         NEW m \in Register
  PROVE  Decodes(Ins(op, r, d, n, m, 0, "none"))
<1> DEFINE e == Ins(op, r, d, n, m, 0, "none")
           word == Word(e)
           marks == (IF e.w = "X" THEN {31} ELSE {}) \cup (IF op = "sdiv" THEN {10} ELSE {})
                    \cup {11, 22, 23, 25, 27, 28}
           mm == Placed(m, 16, 5)
           nn == Placed(n, 5, 5)
           dd == Placed(d, 0, 5)
<1>1. e.op = op /\ e.w = Width(r) /\ e.d = d /\ e.n = n /\ e.m = m BY DEF Ins
<1>2. e.w \in {"W", "X"} /\ Ins(op, e.w, d, n, m, 0, "none") = e BY <1>1 DEF Ins, Width
<1> HIDE DEF e
<1>3. word = marks \cup mm \cup nn \cup dd
  <2>1. FieldsOf(e) = DivFields(e) BY <1>1 DEF FieldsOf
  <2>2. word = FieldBits(SetSf(e)) \cup FieldBits(ConstantBits(\b1101011, 22))
        \cup FieldBits(ConstantBits(1, 11)) \cup FieldBits(Flag(e.op = "sdiv", 10))
        \cup Placed(e.d, 0, 5) \cup Placed(e.n, 5, 5) \cup Placed(e.m, 16, 5)
    BY <1>1, <2>1 DEF Word, DivFields, Registers, SetRd, SetRn, SetRm, Placed
  <2>3. FieldBits(SetSf(e)) = (IF e.w = "X" THEN {31} ELSE {}) BY BitSets
  <2>4. FieldBits(ConstantBits(\b1101011, 22)) = {22, 23, 25, 27, 28} BY ConstantSets
  <2>5. FieldBits(ConstantBits(1, 11)) = {11} BY BitSets
  <2>6. FieldBits(Flag(e.op = "sdiv", 10)) = (IF op = "sdiv" THEN {10} ELSE {})
    BY <1>1, BitSets DEF Flag
  <2> QED BY <1>1, <2>2, <2>3, <2>4, <2>5, <2>6 DEF marks, mm, nn, dd
<1>4. mm \subseteq 16 .. 20 /\ nn \subseteq 5 .. 9 /\ dd \subseteq 0 .. 4
  BY <1>1, PlacedWithin
<1>5. marks \subseteq (10 .. 11) \cup (22 .. 31) /\ (31 \in marks <=> e.w = "X")
      /\ (10 \in marks <=> op = "sdiv") /\ {11, 22, 23, 25, 27, 28} \subseteq marks
      /\ {12, 13, 14, 15, 21, 24, 26, 29, 30} \cap marks = {}
  BY <1>1
<1> HIDE DEF marks, mm, nn, dd
<1>6. word \subseteq 0 .. 31 /\ (31 \in word <=> e.w = "X") /\ (10 \in word <=> op = "sdiv")
      /\ {11, 22, 23, 25, 27, 28} \subseteq word
      /\ {12, 13, 14, 15, 21, 24, 26, 29, 30} \cap word = {}
  <2>1. word \subseteq 0 .. 31
    <3>1. marks \subseteq 0 .. 31 BY <1>5
    <3>2. mm \subseteq 0 .. 31 BY <1>4
    <3>3. nn \subseteq 0 .. 31 BY <1>4
    <3>4. dd \subseteq 0 .. 31 BY <1>4
    <3> QED BY <1>3, <3>1, <3>2, <3>3, <3>4
  <2>2. (31 \in word <=> e.w = "X") BY <1>3, <1>4, <1>5
  <2>3. (10 \in word <=> op = "sdiv") BY <1>3, <1>4, <1>5
  <2>4. {11, 22, 23, 25, 27, 28} \subseteq word BY <1>3, <1>4, <1>5
  <2>5. {12, 13, 14, 15, 21, 24, 26, 29, 30} \cap word = {} BY <1>3, <1>4, <1>5
  <2> QED BY <2>1, <2>2, <2>3, <2>4, <2>5
<1>7. Bears(word, m, 16, 5) /\ Bears(word, n, 5, 5) /\ Bears(word, d, 0, 5)
  <2>1. \A k \in 16 .. 20 : k \in word <=> k \in mm BY <1>3, <1>4, <1>5
  <2>2. \A k \in 5 .. 9 : k \in word <=> k \in nn BY <1>3, <1>4, <1>5
  <2>3. \A k \in 0 .. 4 : k \in word <=> k \in dd BY <1>3, <1>4, <1>5
  <2> QED BY <2>1, <2>2, <2>3 DEF Bears, mm, nn, dd
<1> HIDE DEF word
<1>8. Rm(word) = m /\ Rn(word) = n /\ Rd(word) = d
  BY <1>1, <1>7, RegisterReads, ImmediateReads, SignedReads
<1>9. Number(word, 28, 26) = 6 /\ Number(word, 27, 25) = 5 /\ Number(word, 28, 21) = 214
      /\ Number(word, 15, 10) = (IF op = "sdiv" THEN 3 ELSE 2)
  BY <1>6, Slices DEF B
<1>10. DataRegister(word) = Ins(op, e.w, d, n, m, 0, "none")
  BY <1>1, <1>2, <1>6, <1>8, <1>9 DEF DataRegister, Sf
<1>11. Decoded(word) = DataRegister(word) BY <1>6, <1>9 DEF Decoded
<1> QED BY <1>2, <1>6, <1>10, <1>11 DEF Decodes, word, e

\* encodeCSEL.
LEMMA CselDecodes ==
  ASSUME NEW r, NEW d \in Register, NEW n \in Register, NEW m \in Register,
         NEW c \in Condition
  PROVE  Decodes(Ins("csel", r, d, n, m, 0, c))
<1> DEFINE e == Ins("csel", r, d, n, m, 0, c)
           word == Word(e)
           marks == (IF e.w = "X" THEN {31} ELSE {}) \cup {23, 25, 27, 28}
           condition == Placed(reverse_cond_str_map[c], 12, 4)
           mm == Placed(m, 16, 5)
           nn == Placed(n, 5, 5)
           dd == Placed(d, 0, 5)
<1>1. e.op = "csel" /\ e.w = Width(r) /\ e.d = d /\ e.n = n /\ e.m = m /\ e.c = c
      /\ reverse_cond_str_map[c] \in 0 .. 15 BY ConditionNumbers DEF Ins
<1>2. e.w \in {"W", "X"} /\ Ins("csel", e.w, d, n, m, 0, c) = e BY <1>1 DEF Ins, Width
<1> HIDE DEF e
<1>3. word = marks \cup condition \cup mm \cup nn \cup dd
  <2>1. FieldsOf(e) = CselFields(e) BY <1>1 DEF FieldsOf
  <2>2. word = FieldBits(SetSf(e)) \cup FieldBits(ConstantBits(\b110101, 23))
        \cup Placed(reverse_cond_str_map[e.c], 12, 4) \cup Placed(e.d, 0, 5)
        \cup Placed(e.n, 5, 5) \cup Placed(e.m, 16, 5)
    BY <1>1, <2>1 DEF Word, CselFields, Registers, SetRd, SetRn, SetRm, Placed
  <2>3. FieldBits(SetSf(e)) = (IF e.w = "X" THEN {31} ELSE {}) BY BitSets
  <2>4. FieldBits(ConstantBits(\b110101, 23)) = {23, 25, 27, 28} BY ConstantSets
  <2> QED BY <1>1, <2>2, <2>3, <2>4 DEF marks, condition, mm, nn, dd
<1>4. condition \subseteq 12 .. 15 /\ mm \subseteq 16 .. 20 /\ nn \subseteq 5 .. 9
      /\ dd \subseteq 0 .. 4
  BY <1>1, PlacedWithin
<1>5. marks \subseteq 22 .. 31 /\ (31 \in marks <=> e.w = "X")
      /\ {23, 25, 27, 28} \subseteq marks
      /\ {10, 11, 21, 22, 24, 26, 29, 30} \cap marks = {}
  BY <1>1
<1> HIDE DEF marks, condition, mm, nn, dd
<1>6. word \subseteq 0 .. 31 /\ (31 \in word <=> e.w = "X")
      /\ {23, 25, 27, 28} \subseteq word /\ {10, 11, 21, 22, 24, 26, 29, 30} \cap word = {}
  <2>1. word \subseteq 0 .. 31
    <3>1. marks \subseteq 0 .. 31 BY <1>5
    <3>2. condition \subseteq 0 .. 31 BY <1>4
    <3>3. mm \subseteq 0 .. 31 BY <1>4
    <3>4. nn \subseteq 0 .. 31 BY <1>4
    <3>5. dd \subseteq 0 .. 31 BY <1>4
    <3> QED BY <1>3, <3>1, <3>2, <3>3, <3>4, <3>5
  <2>2. (31 \in word <=> e.w = "X") BY <1>3, <1>4, <1>5
  <2>3. {23, 25, 27, 28} \subseteq word BY <1>3, <1>4, <1>5
  <2>4. {10, 11, 21, 22, 24, 26, 29, 30} \cap word = {} BY <1>3, <1>4, <1>5
  <2> QED BY <2>1, <2>2, <2>3, <2>4
<1>7. Bears(word, reverse_cond_str_map[c], 12, 4) /\ Bears(word, m, 16, 5)
      /\ Bears(word, n, 5, 5) /\ Bears(word, d, 0, 5)
  <2>1. \A k \in 12 .. 15 : k \in word <=> k \in condition BY <1>3, <1>4, <1>5
  <2>2. \A k \in 16 .. 20 : k \in word <=> k \in mm BY <1>3, <1>4, <1>5
  <2>3. \A k \in 5 .. 9 : k \in word <=> k \in nn BY <1>3, <1>4, <1>5
  <2>4. \A k \in 0 .. 4 : k \in word <=> k \in dd BY <1>3, <1>4, <1>5
  <2> QED BY <2>1, <2>2, <2>3, <2>4 DEF Bears, condition, mm, nn, dd
<1> HIDE DEF word
<1>8. Number(word, 15, 12) = reverse_cond_str_map[c] /\ Rm(word) = m /\ Rn(word) = n
      /\ Rd(word) = d
  BY <1>1, <1>7, RegisterReads, ImmediateReads, SignedReads
<1>9. Number(word, 28, 26) = 6 /\ Number(word, 27, 25) = 5 /\ Number(word, 28, 21) = 212
      /\ Number(word, 11, 10) = 0
  BY <1>6, Slices DEF B
<1>10. DataRegister(word) = Ins("csel", e.w, d, n, m, 0, c)
  BY <1>1, <1>2, <1>6, <1>8, <1>9, ConditionNumbers DEF DataRegister, Sf
<1>11. Decoded(word) = DataRegister(word) BY <1>6, <1>9 DEF Decoded
<1> QED BY <1>2, <1>6, <1>10, <1>11 DEF Decodes, word, e

\* encodeLdStImm.
LEMMA LoadStoreImmDecodes ==
  ASSUME NEW op \in {"ldr", "str"}, NEW r, NEW d \in Register, NEW n \in Register,
         NEW imm \in Offset12
  PROVE  Decodes(Ins(op, r, d, n, 0, imm, "none"))
<1> DEFINE e == Ins(op, r, d, n, 0, imm, "none")
           word == Word(e)
           marks == (IF e.w = "X" THEN {30} ELSE {}) \cup (IF op = "ldr" THEN {22} ELSE {})
                    \cup {24, 27, 28, 29, 31}
           offset == Placed(imm, 10, 12)
           nn == Placed(n, 5, 5)
           dd == Placed(d, 0, 5)
<1>1. e.op = op /\ e.w = Width(r) /\ e.d = d /\ e.n = n /\ e.imm = imm BY DEF Ins
<1>2. e.w \in {"W", "X"} /\ Ins(op, e.w, d, n, 0, imm, "none") = e BY <1>1 DEF Ins, Width
<1> HIDE DEF e
<1>3. word = marks \cup offset \cup nn \cup dd
  <2>1. FieldsOf(e) = LoadStoreImmFields(e) BY <1>1 DEF FieldsOf
  <2>2. word = FieldBits(ConstantBits(1, 31)) \cup FieldBits(Flag(e.w = "X", 30))
        \cup FieldBits(ConstantBits(\b111, 27)) \cup Placed(e.d, 0, 5)
        \cup Placed(e.n, 5, 5) \cup FieldBits(Flag(e.op = "ldr", 22))
        \cup FieldBits(ConstantBits(1, 24)) \cup Placed(e.imm, 10, 12)
    BY <1>1, <2>1 DEF Word, LoadStoreImmFields, LoadStoreFields, SetRd, SetRn, Placed
  <2>3. FieldBits(ConstantBits(1, 31)) = {31} BY BitSets
  <2>4. FieldBits(Flag(e.w = "X", 30)) = (IF e.w = "X" THEN {30} ELSE {})
    BY <1>1, BitSets DEF Flag
  <2>5. FieldBits(ConstantBits(\b111, 27)) = {27, 28, 29} BY ConstantSets
  <2>6. FieldBits(Flag(e.op = "ldr", 22)) = (IF op = "ldr" THEN {22} ELSE {})
    BY <1>1, BitSets DEF Flag
  <2>7. FieldBits(ConstantBits(1, 24)) = {24} BY BitSets
  <2> QED BY <1>1, <2>2, <2>3, <2>4, <2>5, <2>6, <2>7 DEF marks, offset, nn, dd
<1>4. offset \subseteq 10 .. 21 /\ nn \subseteq 5 .. 9 /\ dd \subseteq 0 .. 4
  BY <1>1, PlacedWithin
<1>5. marks \subseteq 22 .. 31 /\ (30 \in marks <=> e.w = "X")
      /\ (22 \in marks <=> op = "ldr") /\ {24, 27, 28, 29, 31} \subseteq marks
      /\ {23, 25, 26} \cap marks = {}
  BY <1>1
<1> HIDE DEF marks, offset, nn, dd
<1>6. word \subseteq 0 .. 31 /\ (30 \in word <=> e.w = "X") /\ (22 \in word <=> op = "ldr")
      /\ {24, 27, 28, 29, 31} \subseteq word /\ {23, 25, 26} \cap word = {}
  <2>1. word \subseteq 0 .. 31
    <3>1. marks \subseteq 0 .. 31 BY <1>5
    <3>2. offset \subseteq 0 .. 31 BY <1>4
    <3>3. nn \subseteq 0 .. 31 BY <1>4
    <3>4. dd \subseteq 0 .. 31 BY <1>4
    <3> QED BY <1>3, <3>1, <3>2, <3>3, <3>4
  <2>2. (30 \in word <=> e.w = "X") BY <1>3, <1>4, <1>5
  <2>3. (22 \in word <=> op = "ldr") BY <1>3, <1>4, <1>5
  <2>4. {24, 27, 28, 29, 31} \subseteq word BY <1>3, <1>4, <1>5
  <2>5. {23, 25, 26} \cap word = {} BY <1>3, <1>4, <1>5
  <2> QED BY <2>1, <2>2, <2>3, <2>4, <2>5
<1>7. Bears(word, imm, 10, 12) /\ Bears(word, n, 5, 5) /\ Bears(word, d, 0, 5)
  <2>1. \A k \in 10 .. 21 : k \in word <=> k \in offset BY <1>3, <1>4, <1>5
  <2>2. \A k \in 5 .. 9 : k \in word <=> k \in nn BY <1>3, <1>4, <1>5
  <2>3. \A k \in 0 .. 4 : k \in word <=> k \in dd BY <1>3, <1>4, <1>5
  <2> QED BY <2>1, <2>2, <2>3 DEF Bears, offset, nn, dd
<1> HIDE DEF word
<1>8. Number(word, 21, 10) = imm /\ Rn(word) = n /\ Rd(word) = d
  BY <1>1, <1>7, RegisterReads, ImmediateReads, SignedReads
<1>9. Number(word, 28, 26) = 6 /\ Number(word, 27, 25) = 4 /\ Number(word, 29, 26) = 14
  BY <1>6, Slices DEF B
<1>10. LoadsStores(word) = Ins(op, e.w, d, n, 0, imm, "none")
  BY <1>1, <1>2, <1>6, <1>8, <1>9 DEF LoadsStores, Sf
<1>11. Decoded(word) = LoadsStores(word) BY <1>6, <1>9 DEF Decoded
<1> QED BY <1>2, <1>6, <1>10, <1>11 DEF Decodes, word, e

\* encodeLdStReg.
LEMMA LoadStoreRegDecodes ==
  ASSUME NEW op \in {"ldrr", "strr"}, NEW r, NEW d \in Register, NEW n \in Register,
         NEW m \in Register
  PROVE  Decodes(Ins(op, r, d, n, m, 0, "none"))
<1> DEFINE e == Ins(op, r, d, n, m, 0, "none")
           word == Word(e)
           marks == (IF e.w = "X" THEN {30} ELSE {}) \cup (IF op = "ldrr" THEN {22} ELSE {})
                    \cup {11, 13, 14, 21, 27, 28, 29, 31}
           mm == Placed(m, 16, 5)
           nn == Placed(n, 5, 5)
           dd == Placed(d, 0, 5)
<1>1. e.op = op /\ e.w = Width(r) /\ e.d = d /\ e.n = n /\ e.m = m BY DEF Ins
<1>2. e.w \in {"W", "X"} /\ Ins(op, e.w, d, n, m, 0, "none") = e BY <1>1 DEF Ins, Width
<1> HIDE DEF e
<1>3. word = marks \cup mm \cup nn \cup dd
  <2>1. FieldsOf(e) = LoadStoreRegFields(e) BY <1>1 DEF FieldsOf
  <2>2. word = FieldBits(ConstantBits(1, 31)) \cup FieldBits(Flag(e.w = "X", 30))
        \cup FieldBits(ConstantBits(\b111, 27)) \cup Placed(e.d, 0, 5)
        \cup Placed(e.n, 5, 5) \cup FieldBits(Flag(e.op = "ldrr", 22))
        \cup FieldBits(ConstantBits(1, 21)) \cup FieldBits(ConstantBits(\b011, 13))
        \cup FieldBits(ConstantBits(1, 11)) \cup Placed(e.m, 16, 5)
    BY <1>1, <2>1 DEF Word, LoadStoreRegFields, LoadStoreFields, SetRd, SetRn, SetRm, Placed
  <2>3. FieldBits(ConstantBits(1, 31)) = {31} BY BitSets
  <2>4. FieldBits(Flag(e.w = "X", 30)) = (IF e.w = "X" THEN {30} ELSE {})
    BY <1>1, BitSets DEF Flag
  <2>5. FieldBits(ConstantBits(\b111, 27)) = {27, 28, 29} BY ConstantSets
  <2>6. FieldBits(Flag(e.op = "ldrr", 22)) = (IF op = "ldrr" THEN {22} ELSE {})
    BY <1>1, BitSets DEF Flag
  <2>7. FieldBits(ConstantBits(1, 21)) = {21} BY BitSets
  <2>8. FieldBits(ConstantBits(\b011, 13)) = {13, 14} BY ConstantSets
  <2>9. FieldBits(ConstantBits(1, 11)) = {11} BY BitSets
  <2> QED BY <1>1, <2>2, <2>3, <2>4, <2>5, <2>6, <2>7, <2>8, <2>9 DEF marks, mm, nn, dd
<1>4. mm \subseteq 16 .. 20 /\ nn \subseteq 5 .. 9 /\ dd \subseteq 0 .. 4
  BY <1>1, PlacedWithin
<1>5. marks \subseteq (10 .. 15) \cup (21 .. 31) /\ (30 \in marks <=> e.w = "X")
      /\ (22 \in marks <=> op = "ldrr") /\ {11, 13, 14, 21, 27, 28, 29, 31} \subseteq marks
      /\ {10, 12, 15, 23, 24, 25, 26} \cap marks = {}
  BY <1>1
<1> HIDE DEF marks, mm, nn, dd
<1>6. word \subseteq 0 .. 31 /\ (30 \in word <=> e.w = "X") /\ (22 \in word <=> op = "ldrr")
      /\ {11, 13, 14, 21, 27, 28, 29, 31} \subseteq word
      /\ {10, 12, 15, 23, 24, 25, 26} \cap word = {}
  <2>1. word \subseteq 0 .. 31
    <3>1. marks \subseteq 0 .. 31 BY <1>5
    <3>2. mm \subseteq 0 .. 31 BY <1>4
    <3>3. nn \subseteq 0 .. 31 BY <1>4
    <3>4. dd \subseteq 0 .. 31 BY <1>4
    <3> QED BY <1>3, <3>1, <3>2, <3>3, <3>4
  <2>2. (30 \in word <=> e.w = "X") BY <1>3, <1>4, <1>5
  <2>3. (22 \in word <=> op = "ldrr") BY <1>3, <1>4, <1>5
  <2>4. {11, 13, 14, 21, 27, 28, 29, 31} \subseteq word BY <1>3, <1>4, <1>5
  <2>5. {10, 12, 15, 23, 24, 25, 26} \cap word = {} BY <1>3, <1>4, <1>5
  <2> QED BY <2>1, <2>2, <2>3, <2>4, <2>5
<1>7. Bears(word, m, 16, 5) /\ Bears(word, n, 5, 5) /\ Bears(word, d, 0, 5)
  <2>1. \A k \in 16 .. 20 : k \in word <=> k \in mm BY <1>3, <1>4, <1>5
  <2>2. \A k \in 5 .. 9 : k \in word <=> k \in nn BY <1>3, <1>4, <1>5
  <2>3. \A k \in 0 .. 4 : k \in word <=> k \in dd BY <1>3, <1>4, <1>5
  <2> QED BY <2>1, <2>2, <2>3 DEF Bears, mm, nn, dd
<1> HIDE DEF word
<1>8. Rm(word) = m /\ Rn(word) = n /\ Rd(word) = d
  BY <1>1, <1>7, RegisterReads, ImmediateReads, SignedReads
<1>9. Number(word, 28, 26) = 6 /\ Number(word, 27, 25) = 4 /\ Number(word, 29, 26) = 14
      /\ Number(word, 15, 10) = 26
  BY <1>6, Slices DEF B
<1>10. LoadsStores(word) = Ins(op, e.w, d, n, m, 0, "none")
  BY <1>1, <1>2, <1>6, <1>8, <1>9 DEF LoadsStores, Sf
<1>11. Decoded(word) = LoadsStores(word) BY <1>6, <1>9 DEF Decoded
<1> QED BY <1>2, <1>6, <1>10, <1>11 DEF Decodes, word, e

\* encodeLdpStp, for the offsets that its seven bits hold.
LEMMA LdpStpDecodes ==
  ASSUME NEW op \in {"ldp", "stp"}, NEW d \in Register, NEW m \in Register,
         NEW n \in Register, NEW half \in Offset7, NEW mode \in EncodingMode
  PROVE  Decodes(Ins(op, "X", d, n, m, 8 * half, mode))
<1> DEFINE e == Ins(op, "X", d, n, m, 8 * half, mode)
           word == Word(e)
           marks == (IF op = "ldp" THEN {22} ELSE {})
                    \cup (IF mode = "PreIndex" THEN {23, 24} ELSE IF mode = "PostIndex" THEN {23} ELSE {24})
                    \cup {27, 29, 31}
           offset == Placed(half, 15, 7)
           second == Placed(m, 10, 5)
           nn == Placed(n, 5, 5)
           dd == Placed(d, 0, 5)
<1>1. e.op = op /\ e.w = "X" /\ e.d = d /\ e.n = n /\ e.m = m /\ e.c = mode
      /\ ((e.imm \div 8 + 128) % 256) - 128 = half BY DEF Ins, Width, Offset7
<1>2. Ins(op, "X", d, n, m, 8 * half, mode) = e OBVIOUS
<1> HIDE DEF e
<1>3. word = marks \cup offset \cup second \cup nn \cup dd
  <2>1. FieldsOf(e) = LdpStpFields(e) BY <1>1 DEF FieldsOf
  <2>2. word = FieldBits(SetSf(e)) \cup FieldBits(Flag(e.op = "ldp", 22))
        \cup FieldBits(ConstantBits(PairMode[e.c], 23))
        \cup Placed(((e.imm \div 8 + 128) % 256) - 128, 15, 7) \cup Placed(e.m, 10, 5)
        \cup Placed(e.n, 5, 5) \cup Placed(e.d, 0, 5)
    BY <1>1, <2>1 DEF Word, LdpStpFields, SetRt2, SetRd, SetRn, Placed
  <2>3. FieldBits(SetSf(e)) = (IF e.w = "X" THEN {31} ELSE {}) BY BitSets
  <2>4. FieldBits(Flag(e.op = "ldp", 22)) = (IF op = "ldp" THEN {22} ELSE {})
    BY <1>1, BitSets DEF Flag
  <2>5. FieldBits(ConstantBits(PairMode[e.c], 23)) =
        (IF mode = "PreIndex" THEN {23, 24} ELSE IF mode = "PostIndex" THEN {23} ELSE {24}) \cup {27, 29}
    BY <1>1, PairSets
  <2> QED BY <1>1, <2>2, <2>3, <2>4, <2>5 DEF marks, offset, second, nn, dd
<1>4. offset \subseteq 15 .. 21 /\ second \subseteq 10 .. 14 /\ nn \subseteq 5 .. 9
      /\ dd \subseteq 0 .. 4
  BY <1>1, PlacedWithin
<1>5. marks \subseteq 22 .. 31 /\ (22 \in marks <=> op = "ldp")
      /\ (23 \in marks <=> mode \in {"PreIndex", "PostIndex"})
      /\ (24 \in marks <=> mode \in {"PreIndex", "SignedOffset"})
      /\ {27, 29, 31} \subseteq marks /\ {25, 26, 28, 30} \cap marks = {}
  BY <1>1 DEF EncodingMode
<1> HIDE DEF marks, offset, second, nn, dd
<1>6. word \subseteq 0 .. 31 /\ (22 \in word <=> op = "ldp")
      /\ (23 \in word <=> mode \in {"PreIndex", "PostIndex"})
      /\ (24 \in word <=> mode \in {"PreIndex", "SignedOffset"})
      /\ {27, 29, 31} \subseteq word /\ {25, 26, 28, 30} \cap word = {}
  <2>1. word \subseteq 0 .. 31
    <3>1. marks \subseteq 0 .. 31 BY <1>5
    <3>2. offset \subseteq 0 .. 31 BY <1>4
    <3>3. second \subseteq 0 .. 31 BY <1>4
    <3>4. nn \subseteq 0 .. 31 BY <1>4
    <3>5. dd \subseteq 0 .. 31 BY <1>4
    <3> QED BY <1>3, <3>1, <3>2, <3>3, <3>4, <3>5
  <2>2. (22 \in word <=> op = "ldp") BY <1>3, <1>4, <1>5
  <2>3. (23 \in word <=> mode \in {"PreIndex", "PostIndex"}) BY <1>3, <1>4, <1>5
  <2>4. (24 \in word <=> mode \in {"PreIndex", "SignedOffset"}) BY <1>3, <1>4, <1>5
  <2>5. {27, 29, 31} \subseteq word BY <1>3, <1>4, <1>5
  <2>6. {25, 26, 28, 30} \cap word = {} BY <1>3, <1>4, <1>5
  <2> QED BY <2>1, <2>2, <2>3, <2>4, <2>5, <2>6
<1>7. Bears(word, half, 15, 7) /\ Bears(word, m, 10, 5) /\ Bears(word, n, 5, 5)
      /\ Bears(word, d, 0, 5)
  <2>1. \A k \in 15 .. 21 : k \in word <=> k \in offset BY <1>3, <1>4, <1>5
  <2>2. \A k \in 10 .. 14 : k \in word <=> k \in second BY <1>3, <1>4, <1>5
  <2>3. \A k \in 5 .. 9 : k \in word <=> k \in nn BY <1>3, <1>4, <1>5
  <2>4. \A k \in 0 .. 4 : k \in word <=> k \in dd BY <1>3, <1>4, <1>5
  <2> QED BY <2>1, <2>2, <2>3, <2>4 DEF Bears, offset, second, nn, dd
<1> HIDE DEF word
<1>8. SignedNumber(word, 21, 15) = half /\ Number(word, 14, 10) = m /\ Rn(word) = n
      /\ Rd(word) = d
  BY <1>1, <1>7, RegisterReads, ImmediateReads, SignedReads
<1>9. Number(word, 28, 26) = 2 /\ Number(word, 27, 25) = 4 /\ Number(word, 29, 26) = 10
      /\ Number(word, 24, 23) = (IF mode = "PreIndex" THEN 3 ELSE IF mode = "PostIndex" THEN 1 ELSE 2)
  BY <1>6, Slices DEF B, EncodingMode
<1>10. /\ << "PostIndex", "SignedOffset", "PreIndex" >>[Number(word, 24, 23)] = mode
       /\ half * 8 = 8 * half /\ Number(word, 24, 23) # 0
  BY <1>9 DEF EncodingMode, Offset7
<1>11. LoadsStores(word) = Ins(op, "X", d, n, m, 8 * half, mode)
  BY <1>1, <1>2, <1>6, <1>8, <1>9, <1>10 DEF LoadsStores, Sf
<1>12. Decoded(word) = LoadsStores(word) BY <1>6, <1>9 DEF Decoded
<1> QED BY <1>2, <1>6, <1>11, <1>12 DEF Decodes, word, e

\* encodeBranch.
LEMMA BranchDecodes ==
  ASSUME NEW op \in {"b", "bl"}, NEW imm \in Near
  PROVE  Decodes(Ins(op, "X", 0, 0, 0, imm, "none"))
<1> DEFINE e == Ins(op, "X", 0, 0, 0, imm, "none")
           word == Word(e)
           marks == (IF op = "bl" THEN {31} ELSE {}) \cup {26, 28}
           offset == Placed(imm, 0, 26)
<1>1. e.op = op /\ e.imm = imm BY DEF Ins
<1>2. Ins(op, "X", 0, 0, 0, imm, "none") = e OBVIOUS
<1> HIDE DEF e
<1>3. word = marks \cup offset
  <2>1. FieldsOf(e) = BranchFields(e) BY <1>1 DEF FieldsOf
  <2>2. word = FieldBits(ConstantBits(\b101, 26)) \cup FieldBits(Flag(e.op = "bl", 31))
        \cup Placed(e.imm, 0, 26)
    BY <1>1, <2>1 DEF Word, BranchFields, Placed
  <2>3. FieldBits(ConstantBits(\b101, 26)) = {26, 28} BY ConstantSets
  <2>4. FieldBits(Flag(e.op = "bl", 31)) = (IF op = "bl" THEN {31} ELSE {})
    BY <1>1, BitSets DEF Flag
  <2> QED BY <1>1, <2>2, <2>3, <2>4 DEF marks, offset
<1>4. offset \subseteq 0 .. 25
  BY <1>1, PlacedWithin
<1>5. marks \subseteq 26 .. 31 /\ (31 \in marks <=> op = "bl") /\ {26, 28} \subseteq marks
      /\ {27, 29, 30} \cap marks = {}
  BY <1>1
<1> HIDE DEF marks, offset
<1>6. word \subseteq 0 .. 31 /\ (31 \in word <=> op = "bl") /\ {26, 28} \subseteq word
      /\ {27, 29, 30} \cap word = {}
  <2>1. word \subseteq 0 .. 31
    <3>1. marks \subseteq 0 .. 31 BY <1>5
    <3>2. offset \subseteq 0 .. 31 BY <1>4
    <3> QED BY <1>3, <3>1, <3>2
  <2>2. (31 \in word <=> op = "bl") BY <1>3, <1>4, <1>5
  <2>3. {26, 28} \subseteq word BY <1>3, <1>4, <1>5
  <2>4. {27, 29, 30} \cap word = {} BY <1>3, <1>4, <1>5
  <2> QED BY <2>1, <2>2, <2>3, <2>4
<1>7. Bears(word, imm, 0, 26)
  <2>1. \A k \in 0 .. 25 : k \in word <=> k \in offset BY <1>3, <1>4, <1>5
  <2> QED BY <2>1 DEF Bears, offset
<1> HIDE DEF word
<1>8. SignedNumber(word, 25, 0) = imm
  BY <1>1, <1>7, RegisterReads, ImmediateReads, SignedReads
<1>9. Number(word, 28, 26) = 5 /\ Number(word, 30, 29) = 0 /\ Number(word, 27, 25) # 5
      /\ Number(word, 31, 24) # 84 /\ Number(word, 31, 23) # 428
      /\ Number(word, 31, 16) # \hD503
  BY <1>6, Slices, SMTT(20) DEF B
<1>10. Branches(word) = Ins(op, "X", 0, 0, 0, imm, "none")
  BY <1>1, <1>2, <1>6, <1>8, <1>9, SMTT(20) DEF Branches, Sf
<1>11. Decoded(word) = Branches(word) BY <1>6, <1>9, SMTT(20) DEF Decoded
<1> QED BY <1>2, <1>6, <1>10, <1>11 DEF Decodes, word, e

\* encodeBranchCondition.
LEMMA BranchConditionDecodes ==
  ASSUME NEW imm \in Near, NEW c \in Condition
  PROVE  Decodes(Ins("bcond", "X", 0, 0, 0, imm, c))
<1> DEFINE e == Ins("bcond", "X", 0, 0, 0, imm, c)
           word == Word(e)
           marks == {26, 28, 30}
           offset == Placed(imm, 5, 19)
           condition == Placed(reverse_cond_str_map[c], 0, 4)
<1>1. e.op = "bcond" /\ e.imm = imm /\ e.c = c /\ reverse_cond_str_map[c] \in 0 .. 15
  BY ConditionNumbers DEF Ins
<1>2. Ins("bcond", "X", 0, 0, 0, imm, c) = e OBVIOUS
<1> HIDE DEF e
<1>3. word = marks \cup offset \cup condition
  <2>1. FieldsOf(e) = BranchConditionFields(e) BY <1>1 DEF FieldsOf
  <2>2. word = FieldBits(ConstantBits(\b01010100, 24)) \cup Placed(e.imm, 5, 19)
        \cup Placed(reverse_cond_str_map[e.c], 0, 4)
    BY <1>1, <2>1 DEF Word, BranchConditionFields, Placed
  <2>3. FieldBits(ConstantBits(\b01010100, 24)) = {26, 28, 30} BY ConstantSets
  <2> QED BY <1>1, <2>2, <2>3 DEF marks, offset, condition
<1>4. offset \subseteq 5 .. 23 /\ condition \subseteq 0 .. 3
  BY <1>1, PlacedWithin
<1>5. marks \subseteq 24 .. 31 /\ {26, 28, 30} \subseteq marks
      /\ {4, 24, 25, 27, 29, 31} \cap marks = {}
  BY <1>1
<1> HIDE DEF marks, offset, condition
<1>6. word \subseteq 0 .. 31 /\ {26, 28, 30} \subseteq word
      /\ {4, 24, 25, 27, 29, 31} \cap word = {}
  <2>1. word \subseteq 0 .. 31
    <3>1. marks \subseteq 0 .. 31 BY <1>5
    <3>2. offset \subseteq 0 .. 31 BY <1>4
    <3>3. condition \subseteq 0 .. 31 BY <1>4
    <3> QED BY <1>3, <3>1, <3>2, <3>3
  <2>2. {26, 28, 30} \subseteq word BY <1>3, <1>4, <1>5
  <2>3. {4, 24, 25, 27, 29, 31} \cap word = {} BY <1>3, <1>4, <1>5
  <2> QED BY <2>1, <2>2, <2>3
<1>7. Bears(word, imm, 5, 19) /\ Bears(word, reverse_cond_str_map[c], 0, 4)
  <2>1. \A k \in 5 .. 23 : k \in word <=> k \in offset BY <1>3, <1>4, <1>5
  <2>2. \A k \in 0 .. 3 : k \in word <=> k \in condition BY <1>3, <1>4, <1>5
  <2> QED BY <2>1, <2>2 DEF Bears, offset, condition
<1> HIDE DEF word
<1>8. SignedNumber(word, 23, 5) = imm /\ Number(word, 3, 0) = reverse_cond_str_map[c]
  BY <1>1, <1>7, RegisterReads, ImmediateReads, SignedReads
<1>9. Number(word, 28, 26) = 5 /\ Number(word, 30, 29) = 2 /\ Number(word, 31, 24) = 84
      /\ Number(word, 27, 25) # 5 /\ Number(word, 31, 23) # 428
      /\ Number(word, 31, 16) # \hD503
  BY <1>6, Slices, SMTT(20) DEF B
<1>10. Branches(word) = Ins("bcond", "X", 0, 0, 0, imm, c)
  BY <1>1, <1>2, <1>6, <1>8, <1>9, ConditionNumbers, SMTT(20) DEF Branches, Sf
<1>11. Decoded(word) = Branches(word) BY <1>6, <1>9, SMTT(20) DEF Decoded
<1> QED BY <1>2, <1>6, <1>10, <1>11 DEF Decodes, word, e

\* encodeBranchRegister.
LEMMA BranchRegisterDecodes ==
  ASSUME NEW n \in Register
  PROVE  Decodes(Ins("br", "X", 0, n, 0, 0, "none"))
<1> DEFINE e == Ins("br", "X", 0, n, 0, 0, "none")
           word == Word(e)
           marks == {16, 17, 18, 19, 20, 25, 26, 28, 30, 31}
           nn == Placed(n, 5, 5)
<1>1. e.op = "br" /\ e.n = n BY DEF Ins
<1>2. Ins("br", "X", 0, n, 0, 0, "none") = e OBVIOUS
<1> HIDE DEF e
<1>3. word = marks \cup nn
  <2>1. FieldsOf(e) = BranchRegisterFields(e) BY <1>1 DEF FieldsOf
  <2>2. word = FieldBits(ConstantBits(\b1101011000011111000000, 10)) \cup Placed(e.n, 5, 5)
    BY <1>1, <2>1, SMTT(20) DEF Word, BranchRegisterFields, SetRn, Placed
  <2>3. FieldBits(ConstantBits(\b1101011000011111000000, 10)) =
        {16, 17, 18, 19, 20, 25, 26, 28, 30, 31}
    BY BranchRegisterSet, SMTT(20)
  <2> QED BY <1>1, <2>2, <2>3, SMTT(20) DEF marks, nn
<1>4. nn \subseteq 5 .. 9
  BY <1>1, PlacedWithin
<1>5. marks \subseteq 16 .. 31 /\ {16, 17, 18, 19, 20, 25, 26, 28, 30, 31} \subseteq marks
      /\ {0, 1, 2, 3, 4, 10, 11, 12, 13, 14, 15, 21, 22, 23, 24, 27, 29} \cap marks = {}
  BY <1>1
<1> HIDE DEF marks, nn
<1>6. word \subseteq 0 .. 31 /\ {16, 17, 18, 19, 20, 25, 26, 28, 30, 31} \subseteq word
      /\ {0, 1, 2, 3, 4, 10, 11, 12, 13, 14, 15, 21, 22, 23, 24, 27, 29} \cap word = {}
  <2>1. word \subseteq 0 .. 31
    <3>1. marks \subseteq 0 .. 31 BY <1>5
    <3>2. nn \subseteq 0 .. 31 BY <1>4
    <3> QED BY <1>3, <3>1, <3>2
  <2>2. {16, 17, 18, 19, 20, 25, 26, 28, 30, 31} \subseteq word BY <1>3, <1>4, <1>5
  <2>3. {0, 1, 2, 3, 4, 10, 11, 12, 13, 14, 15, 21, 22, 23, 24, 27, 29} \cap word = {}
    BY <1>3, <1>4, <1>5
  <2> QED BY <2>1, <2>2, <2>3
<1>7. Bears(word, n, 5, 5)
  <2>1. \A k \in 5 .. 9 : k \in word <=> k \in nn BY <1>3, <1>4, <1>5
  <2> QED BY <2>1 DEF Bears, nn
<1> HIDE DEF word
<1>8. Rn(word) = n
  BY <1>1, <1>7, RegisterReads, ImmediateReads, SignedReads
<1>9. Number(word, 28, 26) = 5 /\ Number(word, 30, 29) = 2 /\ Number(word, 31, 24) = 214
      /\ Number(word, 31, 23) = 428 /\ Number(word, 20, 10) = 1984
      /\ Number(word, 22, 21) = 0 /\ Number(word, 27, 25) # 5
      /\ Number(word, 31, 16) # \hD503
  BY <1>6, Slices, SMTT(20) DEF B
<1>10. Rd(word) = 0
  <2>1. Placed(0, 0, 5) = {} /\ 0 \in Register BY BitSets DEF Placed, Register
  <2>2. \A k \in 0 .. 4 : k \notin word BY <1>6
  <2>3. Bears(word, 0, 0, 5) BY <2>1, <2>2 DEF Bears
  <2> QED BY <2>1, <2>3, RegisterReads
<1>11. Branches(word) = Ins("br", "X", 0, n, 0, 0, "none")
  BY <1>1, <1>2, <1>6, <1>8, <1>9, <1>10, SMTT(20) DEF Branches, Sf
<1>12. Decoded(word) = Branches(word) BY <1>6, <1>9, SMTT(20) DEF Decoded
<1> QED BY <1>2, <1>6, <1>11, <1>12 DEF Decodes, word, e

\* encodeReturn.
LEMMA ReturnDecodes ==
  ASSUME NEW n \in Register
  PROVE  Decodes(Ins("ret", "X", 0, n, 0, 0, "none"))
<1> DEFINE e == Ins("ret", "X", 0, n, 0, 0, "none")
           word == Word(e)
           marks == {16, 17, 18, 19, 20, 22, 25, 26, 28, 30, 31}
           nn == Placed(n, 5, 5)
<1>1. e.op = "ret" /\ e.n = n BY DEF Ins
<1>2. Ins("ret", "X", 0, n, 0, 0, "none") = e OBVIOUS
<1> HIDE DEF e
<1>3. word = marks \cup nn
  <2>1. FieldsOf(e) = ReturnFields(e) BY <1>1 DEF FieldsOf
  <2>2. word = FieldBits(ConstantBits(\b1101011001011111000000, 10)) \cup Placed(e.n, 5, 5)
    BY <1>1, <2>1, SMTT(20) DEF Word, ReturnFields, SetRn, Placed
  <2>3. FieldBits(ConstantBits(\b1101011001011111000000, 10)) =
        {16, 17, 18, 19, 20, 22, 25, 26, 28, 30, 31}
    BY ReturnSet, SMTT(20)
  <2> QED BY <1>1, <2>2, <2>3, SMTT(20) DEF marks, nn
<1>4. nn \subseteq 5 .. 9
  BY <1>1, PlacedWithin
<1>5. marks \subseteq 16 .. 31
      /\ {16, 17, 18, 19, 20, 22, 25, 26, 28, 30, 31} \subseteq marks
      /\ {0, 1, 2, 3, 4, 10, 11, 12, 13, 14, 15, 21, 23, 24, 27, 29} \cap marks = {}
  BY <1>1
<1> HIDE DEF marks, nn
<1>6. word \subseteq 0 .. 31 /\ {16, 17, 18, 19, 20, 22, 25, 26, 28, 30, 31} \subseteq word
      /\ {0, 1, 2, 3, 4, 10, 11, 12, 13, 14, 15, 21, 23, 24, 27, 29} \cap word = {}
  <2>1. word \subseteq 0 .. 31
    <3>1. marks \subseteq 0 .. 31 BY <1>5
    <3>2. nn \subseteq 0 .. 31 BY <1>4
    <3> QED BY <1>3, <3>1, <3>2
  <2>2. {16, 17, 18, 19, 20, 22, 25, 26, 28, 30, 31} \subseteq word BY <1>3, <1>4, <1>5
  <2>3. {0, 1, 2, 3, 4, 10, 11, 12, 13, 14, 15, 21, 23, 24, 27, 29} \cap word = {}
    BY <1>3, <1>4, <1>5
  <2> QED BY <2>1, <2>2, <2>3
<1>7. Bears(word, n, 5, 5)
  <2>1. \A k \in 5 .. 9 : k \in word <=> k \in nn BY <1>3, <1>4, <1>5
  <2> QED BY <2>1 DEF Bears, nn
<1> HIDE DEF word
<1>8. Rn(word) = n
  BY <1>1, <1>7, RegisterReads, ImmediateReads, SignedReads
<1>9. Number(word, 28, 26) = 5 /\ Number(word, 30, 29) = 2 /\ Number(word, 31, 24) = 214
      /\ Number(word, 31, 23) = 428 /\ Number(word, 20, 10) = 1984
      /\ Number(word, 22, 21) = 2 /\ Number(word, 27, 25) # 5
      /\ Number(word, 31, 16) # \hD503
  BY <1>6, Slices, SMTT(20) DEF B
<1>10. Rd(word) = 0
  <2>1. Placed(0, 0, 5) = {} /\ 0 \in Register BY BitSets DEF Placed, Register
  <2>2. \A k \in 0 .. 4 : k \notin word BY <1>6
  <2>3. Bears(word, 0, 0, 5) BY <2>1, <2>2 DEF Bears
  <2> QED BY <2>1, <2>3, RegisterReads
<1>11. Branches(word) = Ins("ret", "X", 0, n, 0, 0, "none")
  BY <1>1, <1>2, <1>6, <1>8, <1>9, <1>10, SMTT(20) DEF Branches, Sf
<1>12. Decoded(word) = Branches(word) BY <1>6, <1>9, SMTT(20) DEF Decoded
<1> QED BY <1>2, <1>6, <1>11, <1>12 DEF Decodes, word, e

\* Two bytes of a word that hold a number.
LEMMA HalfNumber ==
  ASSUME NEW w, NEW v \in Half, NEW o \in Nat, \A b \in 0 .. 15 : o + b \in w <=> Bit(v, b)
  PROVE  Number(w, o + 15, o) = v
<1>1. v \in Int /\ o + 16 - 1 = o + 15 /\ 16 - 1 = 15 BY DEF Half
<1>2. \A n \in 0 .. 26 : (\A b \in 0 .. n - 1 : o + b \in w <=> Bit(v, b))
                            => Number(w, o + n - 1, o) = v % 2 ^ n
  BY <1>1, NumberIs
<1>3. Number(w, o + 16 - 1, o) = v % 2 ^ 16 BY <1>1, <1>2
<1>4. 2 ^ 16 = 65536 /\ v % 65536 = v BY Powers DEF Half
<1> QED BY <1>1, <1>3, <1>4

\* The same by the set of the bits.
LEMMA HalfReads ==
  ASSUME NEW w, NEW v \in Half, NEW o \in Nat, NEW S, AreBits(v, S),
         \A b \in 0 .. 15 : o + b \in w <=> b \in S
  PROVE  Number(w, o + 15, o) = v
<1>1. \A b \in 0 .. 15 : b \in 0 .. 29 OBVIOUS
<1>2. \A b \in 0 .. 15 : o + b \in w <=> Bit(v, b) BY <1>1 DEF AreBits
<1> QED BY <1>2, HalfNumber

\* encodeNop.
LEMMA NopDecodes == Decodes(EncodeNop)
<1> DEFINE word == Word(EncodeNop)
           high == {16, 17, 24, 26, 28, 30, 31}
           low == {0, 1, 2, 3, 4, 13}
<1>1. word = high \cup low
  <2>1. FieldsOf(EncodeNop) = NopFields BY DEF FieldsOf, EncodeNop, Ins
  <2>2. word = FieldBits(ConstantBits(\hD503, 16)) \cup FieldBits(ConstantBits(\h201F, 0))
    BY <2>1, SMTT(20) DEF Word, NopFields
  <2> QED BY <2>2, NopSets, SMTT(20)
<1>2. word \subseteq 0 .. 31 BY <1>1
<1>3. /\ \A b \in 0 .. 15 : 16 + b \in word <=> b \in {0, 1, 8, 10, 12, 14, 15}
      /\ \A b \in 0 .. 15 : 0 + b \in word <=> b \in low
  BY <1>1
<1>4. /\ Number(word, 28, 26) = 5 /\ Number(word, 30, 29) = 2 /\ Number(word, 31, 24) # 84
      /\ Number(word, 31, 23) = 426 /\ Number(word, 27, 25) = 2 /\ 27 \notin word
  BY <1>1, Slices DEF B
<1> HIDE DEF word
<1>5. Number(word, 31, 16) = \hD503
  <2> DEFINE v == \hD503
             S == {0, 1, 8, 10, 12, 14, 15}
  <2>1. v \in Half /\ AreBits(v, S) BY NopBits, SMT DEF Half
  <2>2. \A b \in 0 .. 15 : 16 + b \in word <=> b \in S BY <1>3
  <2> HIDE DEF v, S
  <2>3. Number(word, 16 + 15, 16) = v BY <2>1, <2>2, HalfReads
  <2>4. 16 + 15 = 31 OBVIOUS
  <2>5. Number(word, 31, 16) = v BY <2>3, <2>4
  <2> QED BY <2>5, SMT DEF v
<1>6. Number(word, 15, 0) = \h201F
  <2> DEFINE v == \h201F
             S == {0, 1, 2, 3, 4, 13}
  <2>1. v \in Half /\ AreBits(v, S) BY NopBits, SMT DEF Half
  <2>2. \A b \in 0 .. 15 : 0 + b \in word <=> b \in S BY <1>3
  <2> HIDE DEF v, S
  <2>3. Number(word, 0 + 15, 0) = v BY <2>1, <2>2, HalfReads
  <2>4. 0 + 15 = 15 OBVIOUS
  <2>5. Number(word, 15, 0) = v BY <2>3, <2>4
  <2> QED BY <2>5, SMT DEF v
<1>7. Branches(word) = EncodeNop BY <1>4, <1>5, <1>6, SMTT(20) DEF Branches
<1>8. Decoded(word) = Branches(word) BY <1>4, SMTT(20) DEF Decoded
<1> QED BY <1>2, <1>7, <1>8 DEF Decodes, word

-----------------------------------------------------------------------------
(***************************************************************************)
(* The bytes of the text.                                                  *)
(***************************************************************************)
\* The bytes are swapped, and printed from the highest on.
LEMMA SwappedBits ==
  ASSUME NEW word \in SUBSET (0 .. 31), NEW j \in 0 .. 3, NEW b \in 0 .. 7
  PROVE  8 * (3 - j) + b \in Swapped(word) <=> 8 * j + b \in word
<1>1. ASSUME 8 * j + b \in word PROVE 8 * (3 - j) + b \in Swapped(word)
  <2>1. (8 * j + b) \div 8 = j /\ (8 * j + b) % 8 = b OBVIOUS
  <2>2. 8 * (3 - ((8 * j + b) \div 8)) + ((8 * j + b) % 8) \in Swapped(word)
    BY <1>1 DEF Swapped
  <2> QED BY <2>1, <2>2
<1>2. ASSUME 8 * (3 - j) + b \in Swapped(word) PROVE 8 * j + b \in word
  <2>1. PICK x \in word : 8 * (3 - j) + b = 8 * (3 - (x \div 8)) + (x % 8)
    BY <1>2 DEF Swapped
  <2>2. x \in 0 .. 31 OBVIOUS
  <2>3. x \div 8 \in 0 .. 3 /\ x % 8 \in 0 .. 7 /\ x = 8 * (x \div 8) + (x % 8) BY <2>2
  <2>4. x \div 8 = j /\ x % 8 = b BY <2>1, <2>3
  <2> QED BY <2>3, <2>4
<1> QED BY <1>1, <1>2

\* Byte j of instruction k.
LEMMA ByteAt ==
  ASSUME NEW s, Len(s) \in Nat, DOMAIN s = 1 .. Len(s), NEW k \in 1 .. Len(s), NEW j \in 0 .. 3
  PROVE  /\ CharArray(s)[4 * (k - 1) + j] \subseteq 0 .. 7
         /\ \A b \in 0 .. 7 : b \in CharArray(s)[4 * (k - 1) + j]
                                <=> 8 * (3 - j) + b \in Swapped(Word(s[k]))
<1> DEFINE a == 4 * (k - 1) + j
<1>1. a \in 0 .. 4 * Len(s) - 1 /\ 1 + a \div 4 = k /\ 1 + (a % 4) = 1 + j OBVIOUS
<1>2. CharArray(s)[a] = InstructionText(s[k])[1 + j]
  <2> DEFINE texts == [x \in DOMAIN s |-> InstructionText(s[x])]
  <2>1. CharArray(s) = [x \in 0 .. 4 * Len(s) - 1 |-> texts[1 + x \div 4][1 + (x % 4)]]
    BY DEF CharArray
  <2>2. texts[k] = InstructionText(s[k]) OBVIOUS
  <2> HIDE DEF texts, a
  <2> QED BY <1>1, <2>1, <2>2
<1>3. 1 + j \in 1 .. 4 /\ 4 - (1 + j) = 3 - j OBVIOUS
<1>4. InstructionText(s[k])[1 + j] = { b \in 0 .. 7 : 8 * (4 - (1 + j)) + b \in Swapped(Word(s[k])) }
  BY <1>3 DEF InstructionText
<1> QED BY <1>2, <1>3, <1>4

\* What is fetched is the word.
LEMMA FetchedWord ==
  ASSUME NEW s, Len(s) \in Nat, DOMAIN s = 1 .. Len(s), NEW k \in 1 .. Len(s),
         Word(s[k]) \subseteq 0 .. 31
  PROVE  Fetched(CharArray(s), 4 * (k - 1)) = Word(s[k])
<1> DEFINE word == Word(s[k])
           byte(j) == CharArray(s)[4 * (k - 1) + j]
<1>1. \A j \in 0 .. 3 :
        byte(j) \subseteq 0 .. 7 /\ \A b \in 0 .. 7 : b \in byte(j) <=> 8 * j + b \in word
  <2> TAKE j \in 0 .. 3
  <2>1. /\ byte(j) \subseteq 0 .. 7
        /\ \A b \in 0 .. 7 : b \in byte(j) <=> 8 * (3 - j) + b \in Swapped(word)
    BY ByteAt
  <2>2. \A b \in 0 .. 7 : 8 * (3 - j) + b \in Swapped(word) <=> 8 * j + b \in word
    BY SwappedBits
  <2> HIDE DEF byte, word
  <2> QED BY <2>1, <2>2
<1>2. Fetched(CharArray(s), 4 * (k - 1)) =
        UNION { { 8 * j + b : b \in byte(j) } : j \in 0 .. 3 }
  BY DEF Fetched
<1>3. word \subseteq 0 .. 31 OBVIOUS
<1> HIDE DEF word, byte
<1>4. ASSUME NEW x \in word PROVE \E j \in 0 .. 3 : \E b \in byte(j) : x = 8 * j + b
  <2>1. x \in 0 .. 31 BY <1>3
  <2>2. x \div 8 \in 0 .. 3 /\ x % 8 \in 0 .. 7 /\ x = 8 * (x \div 8) + (x % 8) BY <2>1
  <2>3. x % 8 \in byte(x \div 8) BY <1>1, <2>2
  <2> QED BY <2>2, <2>3
<1>5. ASSUME NEW j \in 0 .. 3, NEW b \in byte(j) PROVE 8 * j + b \in word
  BY <1>1
<1>6. UNION { { 8 * j + b : b \in byte(j) } : j \in 0 .. 3 } = word BY <1>4, <1>5
<1> QED BY <1>2, <1>6 DEF word
=============================================================================
