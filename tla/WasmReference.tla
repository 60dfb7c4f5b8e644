---------------------------- MODULE WasmReference ---------------------------
(***************************************************************************)
(* What a call of a WebAssembly function returns: an interpreter of the    *)
(* opcodes the translator knows, written from the semantics of WebAssembly *)
(* and not from the repository.  It is defined for valid functions.        *)
(***************************************************************************)
EXTENDS Integers, Sequences

CONSTANTS WordSize, XWordSize   \* how many values an i32 and an i64 have

Trap == [kind |-> "trap", value |-> << >>]
Value(v) == [kind |-> "value", value |-> v]

ConstOpcodes == {\h41, \h42}

\* The operand of a constant at k, signed LEB128: bytes up to the first below
\* 128, seven bits each, the lowest first, the highest one the sign.
ConstBytes(code, k) ==
  CHOOSE n \in 1 .. Len(code) - k :
    /\ code[k + n] < 128
    /\ \A j \in 1 .. n - 1 : code[k + j] >= 128

ConstValue(code, k, size) ==
  LET n == ConstBytes(code, k)
      bits[j \in 0 .. n] ==
        IF j = 0 THEN 0 ELSE bits[j - 1] + (code[k + j] % 128) * 128 ^ (j - 1)
  IN (IF code[k + n] >= 64 THEN bits[n] - 128 ^ n ELSE bits[n]) % size

\* How many bytes the instruction at k has.
SizeAt(code, k) ==
  CASE code[k] \in {\h04, \h20, \h21, \h22} -> 2
    [] code[k] \in ConstOpcodes -> 1 + ConstBytes(code, k)
    [] OTHER -> 1

\* From position k on, inside no block opened since: the position of the
\* end, or of the else if one is asked for, of the enclosing block.
Closing(code, k, stops) ==
  LET closing[j \in Nat, depth \in Nat] ==
        IF depth = 0 /\ code[j] \in stops THEN j
        ELSE closing[j + SizeAt(code, j),
                     CASE code[j] = \h04 -> depth + 1
                       [] code[j] = \h0B -> depth - 1
                       [] OTHER -> depth]
  IN closing[k, 0]

ToSigned(v, size) == IF v >= size \div 2 THEN v - size ELSE v

Truncated(a, b) ==
  LET abs(n) == IF n < 0 THEN -n ELSE n
      q == abs(a) \div abs(b)
  IN IF (a < 0) = (b < 0) THEN q ELSE -q

CompareNames ==
  << "eq", "ne", "lt_s", "lt_u", "gt_s", "gt_u", "le_s", "le_u", "ge_s", "ge_u" >>

ComparesTrue(name, a, b, size) ==
  LET sa == ToSigned(a, size)   sb == ToSigned(b, size)
  IN CASE name = "eq" -> a = b      [] name = "ne" -> a # b
       [] name = "lt_s" -> sa < sb  [] name = "lt_u" -> a < b
       [] name = "gt_s" -> sa > sb  [] name = "gt_u" -> a > b
       [] name = "le_s" -> sa <= sb [] name = "le_u" -> a <= b
       [] name = "ge_s" -> sa >= sb [] name = "ge_u" -> a >= b

ArithNames == [op \in \h6A .. \h6E \cup \h7C .. \h80 |->
  << "add", "sub", "mul", "div_s", "div_u" >>
    [IF op < \h70 THEN op - \h69 ELSE op - \h7B]]

Traps(name, a, b, size) ==
  \/ name \in {"div_s", "div_u"} /\ b = 0
  \/ name = "div_s" /\ ToSigned(a, size) = -(size \div 2) /\ ToSigned(b, size) = -1

Arithmetic(name, a, b, size) ==
  (CASE name = "add" -> a + b
     [] name = "sub" -> a - b
     [] name = "mul" -> ToSigned(a, size) * ToSigned(b, size)
     [] name = "div_s" -> Truncated(ToSigned(a, size), ToSigned(b, size))
     [] name = "div_u" -> a \div b) % size

\* The outcome of the code from position start (from 1) with these values of
\* the locals and an empty operand stack; arity: how many results it has.
Outcome(code, start, values, arity) ==
  LET from[k \in Nat, locals \in Seq(Nat), stack \in Seq(Nat)] ==
      LET op == code[k]
          n == Len(stack)
          pops(m) == SubSeq(stack, 1, n - m)
          next(l, s) == from[k + SizeAt(code, k), l, s]
          result == Value(SubSeq(stack, n + 1 - arity, n))
      IN CASE k >= Len(code) \/ op = \h0F -> result
           [] op \in {\h01, \h0B} -> next(locals, stack)
           [] op = \h20 -> next(locals, Append(stack, locals[code[k + 1] + 1]))
           [] op = \h21 -> next([locals EXCEPT ![code[k + 1] + 1] = stack[n]], pops(1))
           [] op = \h22 -> next([locals EXCEPT ![code[k + 1] + 1] = stack[n]], stack)
           [] op \in ConstOpcodes ->
                next(locals, Append(stack,
                  ConstValue(code, k, IF op = \h41 THEN WordSize ELSE XWordSize)))
           [] op = \h04 ->
                IF stack[n] # 0 THEN next(locals, pops(1))
                ELSE from[Closing(code, k + 2, {\h05, \h0B}) + 1, locals, pops(1)]
           [] op = \h05 -> from[Closing(code, k + 1, {\h0B}) + 1, locals, stack]
           [] op \in \h46 .. \h4F \cup \h51 .. \h5A ->
                LET size == IF op <= \h4F THEN WordSize ELSE XWordSize
                    name == CompareNames[IF op <= \h4F THEN op - \h45 ELSE op - \h50]
                IN next(locals, Append(pops(2),
                     IF ComparesTrue(name, stack[n - 1], stack[n], size) THEN 1 ELSE 0))
           [] op \in DOMAIN ArithNames ->
                LET size == IF op < \h70 THEN WordSize ELSE XWordSize
                IN IF Traps(ArithNames[op], stack[n - 1], stack[n], size) THEN Trap
                   ELSE next(locals, Append(pops(2),
                          Arithmetic(ArithNames[op], stack[n - 1], stack[n], size)))
  IN from[start, values, << >>]

\* The declared locals start as zero.
LocalCount(code, declares) ==
  LET count[d \in 0 .. declares] ==
        IF d = 0 THEN 0 ELSE count[d - 1] + code[2 * d - 1]
  IN count[declares]

Invoke(f, args) ==
  Outcome(f.code_vec, 2 * f.local_var_declare_count + 1,
          args \o [k \in 1 .. LocalCount(f.code_vec, f.local_var_declare_count) |-> 0],
          Len(f.results))
=============================================================================
