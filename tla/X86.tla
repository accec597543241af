-------------------------------- MODULE X86 --------------------------------
(***************************************************************************)
(* The built-in x86-64 interpreter (CPU/wg_x86_decode.c, wg_x86_interp.c,     *)
(* wg_x86_state.c).  A guest program is assembled code: each instruction has  *)
(* the form of its opcode, its prefixes, its operands and `len', the length   *)
(* the instruction set gives it, by which the code is laid out.  The          *)
(* interpreter finds the length and the addresses by itself, byte count by    *)
(* byte count, and executes what it finds at rip.                             *)
(*                                                                            *)
(* The stack is counted in its 8-byte words.  Words are numbers; operand sizes have few bits (Bits), the arithmetic is    *)
(* the code's, wrapped at the size of its uint64_t ("qword").  Of the flags,   *)
(* AF and PF are left out, as are BSWAP and the xmm registers.                                                    *)
(***************************************************************************)
EXTENDS Integers, Sequences, FiniteSets, TLC, Bitwise

CONSTANTS Bits,         \* the width of each operand size
          Codes,        \* the guest programs: [code, data, answer]
          Seeds,        \* what the two inputs may be
          StackTop,     \* the first address above the stack
          Stubs         \* the addresses of the Win32 stubs, 0xDEAD0000-0xDEAEFFFF

Two(n) == 2 ^ n
Word == 0 .. (Two(Bits["qword"]) - 1)
Regs == {"AX", "BX", "CX", "DX", "SP", "BP", "SI", "DI"}
ConditionCodes == {"O", "NO", "B", "AE", "Z", "NZ", "BE", "A", "S", "NS", "L", "GE", "LE", "G"}

X86Assumption ==
    /\ Bits["byte"] < Bits["dword"] /\ Bits["word"] < Bits["dword"]
    /\ Bits["dword"] < Bits["qword"]
    /\ Stubs \subseteq Word /\ StackTop \in Word
ASSUME X86Assumption

VARIABLES gpr,          \* the registers
          flags,        \* CF, ZF, SF and OF of rflags
          rip,
          memory,       \* what was stored, by address; the rest reads as 0
          assembled,      \* the code that runs
          seed,         \* its inputs, first in SI and DI
          status,       \* "runs", or how exec_block returned
          compared,     \* the operands of the last comparison whose flags still stand
          frames,       \* the calls that have not returned: where to, and with which SP
          strayed       \* a return went elsewhere
x86Vars == <<gpr, flags, rip, memory, assembled, seed, status, compared, frames, strayed>>

----------------------------------------------------------------------------
(* Layout: where the assembler put each instruction.                          *)

RECURSIVE StartOf(_, _)
StartOf(code, n) == IF n = 1 THEN 0 ELSE StartOf(code, n - 1) + code[n - 1].len

Starts == {StartOf(assembled.code, n) : n \in 1 .. Len(assembled.code)}
Current == assembled.code[CHOOSE n \in 1 .. Len(assembled.code) : StartOf(assembled.code, n) = rip]

----------------------------------------------------------------------------
(* The decoder.                                                               *)

Form(opcode, modrm, imm) == [opcode |-> opcode, modrm |-> modrm, imm |-> imm]

\* MOV, XCHG, LEA, PUSH and POP; the immediate of MOV r, imm is 8 bytes with REX.W, else 4
MoveForms ==
    [mov_rm |-> Form(1, TRUE, 0), mov_r_imm |-> Form(1, FALSE, 8), mov_rm_imm |-> Form(1, TRUE, 4),
     lea |-> Form(1, TRUE, 0), xchg_ax |-> Form(1, FALSE, 0), push |-> Form(1, FALSE, 0),
     pop |-> Form(1, FALSE, 0), push_imm8 |-> Form(1, FALSE, 1), push_imm |-> Form(1, FALSE, 4)]

\* the ALU group, TEST, groups F6/F7 and FF, shifts, IMUL
AluForms ==
    [alu |-> Form(1, TRUE, 0), alu8 |-> Form(1, TRUE, 0), alu_imm8 |-> Form(1, TRUE, 1),
     alu_imm |-> Form(1, TRUE, 4), alu_ax_imm |-> Form(1, FALSE, 4)]
UnaryForms ==
    [unary |-> Form(1, TRUE, 0), test_imm |-> Form(1, TRUE, 4), group_ff |-> Form(1, TRUE, 0)]
ShiftForms ==
    [shift_imm |-> Form(1, TRUE, 1), shift_one |-> Form(1, TRUE, 0), imul_imm8 |-> Form(1, TRUE, 1),
     imul_imm |-> Form(1, TRUE, 4)]
BranchForms ==
    [jcc8 |-> Form(1, FALSE, 1), jmp8 |-> Form(1, FALSE, 1), jmp |-> Form(1, FALSE, 4),
     call |-> Form(1, FALSE, 4), ret |-> Form(1, FALSE, 0), ret_imm |-> Form(1, FALSE, 2)]
PlainForms == [plain |-> Form(1, FALSE, 0), int |-> Form(1, FALSE, 1)]
TwoByteForms ==
    [jcc |-> Form(2, FALSE, 4), plain2 |-> Form(2, FALSE, 0), rm2 |-> Form(2, TRUE, 0),
     narrow2 |-> Form(2, TRUE, 0)]

Forms == MoveForms @@ AluForms @@ UnaryForms @@ ShiftForms @@ BranchForms @@ PlainForms @@ TwoByteForms

\* An operand in memory: [kind, base, index, scale, disp, mod].
NeedsSib(o) == o.index # "none" \/ o.base \in {"SP", "none"}
DisplacementBytes(o) ==
    CASE o.mod = 1 -> 1
      [] o.mod = 2 -> 4
      [] o.mod = 0 /\ o.base \in {"rip", "none"} -> 4
      [] OTHER -> 0

RmBytes(i) ==
    LET inMemory == {o \in {i.dst, i.src} : o.kind = "mem"}
    IN  IF inMemory = {} THEN 1
        ELSE LET o == CHOOSE o \in inMemory : TRUE
             IN  1 + DisplacementBytes(o) + (IF NeedsSib(o) THEN 1 ELSE 0)

\* Where the decoder stands after the displacement, from which an address relative
\* to rip is measured
AfterModrm(i) == Cardinality(i.prefixes) + Forms[i.form].opcode + (IF Forms[i.form].modrm THEN RmBytes(i) ELSE 0)

\* A 66 prefix does not shorten the immediate: fetch_simm32.
ImmediateBytes(i) ==
    IF Forms[i.form].imm = 8 THEN (IF "rexw" \in i.prefixes THEN 8 ELSE 4) ELSE Forms[i.form].imm

Length(i) == AfterModrm(i) + ImmediateBytes(i)

OpSize(i) ==
    IF "rexw" \in i.prefixes THEN "qword" ELSE IF "66" \in i.prefixes THEN "word" ELSE "dword"

\* The size of an operand: bytes for the byte forms and the source of MOVZX and MOVSX,
\* whole registers for the stack and the targets of indirect jumps.
SizeOf(i, o) ==
    CASE i.form = "alu8" -> "byte"
      [] i.form = "narrow2" /\ (o = i.src \/ i.op = "SETCC") -> "byte"
      [] i.op \in {"PUSH", "POP", "CALL", "JMP"} -> "qword"
      [] OTHER -> OpSize(i)

----------------------------------------------------------------------------
(* Operands.                                                                  *)

Cut(v, s) == v % Two(Bits[s])
Wrap(v) == v % Two(Bits["qword"])
TopBit(s) == Two(Bits[s] - 1)
Signed(v, s) == IF Cut(v, s) >= TopBit(s) THEN Cut(v, s) - Two(Bits[s]) ELSE Cut(v, s)
SignExtend(v, s) == Wrap(Signed(v, s))

\* with the registers g
EaWith(g, i, o) ==
    IF o.base = "rip" THEN rip + AfterModrm(i) + o.disp
    ELSE Wrap((IF o.base = "none" THEN 0 ELSE g[o.base])
              + (IF o.index = "none" THEN 0 ELSE g[o.index] * o.scale) + o.disp)
Ea(i, o) == EaWith(gpr, i, o)

Load64(a) == IF a \in DOMAIN memory THEN memory[a] ELSE 0

ReadWith(g, i, o) ==
    Cut(CASE o.kind = "reg" -> g[o.reg]
          [] o.kind = "imm" -> o.value
          [] o.kind = "mem" -> Load64(EaWith(g, i, o)),
        SizeOf(i, o))
ReadOperand(i, o) == ReadWith(gpr, i, o)

\* A narrow write keeps the rest of the register, one of 32 bits clears it.
Merged(old, v, s) ==
    IF s = "qword" THEN Wrap(v)
    ELSE IF s = "dword" THEN Cut(v, s)
    ELSE old - Cut(old, s) + Cut(v, s)

Store(i, o, v) ==
    LET s == SizeOf(i, o)
    IN  IF o.kind = "reg"
        THEN gpr' = [gpr EXCEPT ![o.reg] = Merged(@, v, s)] /\ UNCHANGED memory
        ELSE /\ memory' = (Ea(i, o) :> (Load64(Ea(i, o)) - Cut(Load64(Ea(i, o)), s) + Cut(v, s))) @@ memory
             /\ UNCHANGED gpr

----------------------------------------------------------------------------
(* Flags.                                                                     *)

Bit(v, s) == (Wrap(v) & TopBit(s)) # 0
Flags(c, r, o, s) == [CF |-> c, ZF |-> Cut(r, s) = 0, SF |-> Bit(r, s), OF |-> o]

AddFlags(a, b, s) ==
    LET r == Wrap(a + b)
    IN  Flags(r > Two(Bits[s]) - 1, r, Bit((a ^^ r) & (b ^^ r), s), s)

\* Mutant of SubFlags: the overflow is that of a sum.
SubFlagsUnsigned(a, b, s) ==
    LET r == Wrap(a - b) IN Flags(a < b, r, Bit((a ^^ b) & (b ^^ r), s), s)

SubFlags(a, b, s) ==
    LET r == Wrap(a - b) IN Flags(a < b, r, Bit((a ^^ b) & (a ^^ r), s), s)

LogicFlags(r, s) == Flags(FALSE, r, FALSE, s)

Holds(f, cc) ==
    CASE cc = "O" -> f.OF                    [] cc = "NO" -> ~f.OF
      [] cc = "B" -> f.CF                    [] cc = "AE" -> ~f.CF
      [] cc = "Z" -> f.ZF                    [] cc = "NZ" -> ~f.ZF
      [] cc = "BE" -> f.CF \/ f.ZF           [] cc = "A" -> ~f.CF /\ ~f.ZF
      [] cc = "S" -> f.SF                    [] cc = "NS" -> ~f.SF
      [] cc = "L" -> f.SF # f.OF             [] cc = "GE" -> f.SF = f.OF
      [] cc = "LE" -> f.ZF \/ f.SF # f.OF    [] cc = "G" -> ~f.ZF /\ f.SF = f.OF

----------------------------------------------------------------------------
(* wg_x86_exec_one: an action for each kind of instruction.                   *)

X86Init ==
    /\ assembled \in Codes /\ seed \in Seeds \X Seeds
    /\ gpr = [r \in Regs |-> CASE r = "SI" -> seed[1] [] r = "DI" -> seed[2]
                               [] r = "SP" -> StackTop [] OTHER -> 0]
    /\ flags = [CF |-> FALSE, ZF |-> FALSE, SF |-> FALSE, OF |-> FALSE]
    /\ rip = 0 /\ memory = assembled.data /\ status = "runs"
    /\ compared = << >> /\ frames = << >> /\ strayed = FALSE

Fetched(ops) == status = "runs" /\ rip \in Starts /\ Current.op \in ops
Onward == rip' = rip + Length(Current)
Same == UNCHANGED <<assembled, seed, status>>
KeepsFlow == UNCHANGED <<frames, strayed>>
KeepsFlags == UNCHANGED <<flags, compared>>

Move ==
    /\ Fetched({"MOV", "MOVZX", "MOVSX", "LEA"})
    /\ LET i == Current
       IN  Store(i, i.dst, CASE i.op \in {"MOV", "MOVZX"} -> ReadOperand(i, i.src)
                             [] i.op = "MOVSX" -> SignExtend(ReadOperand(i, i.src), SizeOf(i, i.src))
                             [] i.op = "LEA" -> Ea(i, i.src))
    /\ Onward /\ Same /\ KeepsFlow /\ KeepsFlags

Exchange ==
    /\ Fetched({"XCHG"})
    /\ LET i == Current
       IN  gpr' = [gpr EXCEPT ![i.dst.reg] = Merged(@, ReadOperand(i, i.src), SizeOf(i, i.src)),
                              ![i.src.reg] = Merged(@, ReadOperand(i, i.dst), SizeOf(i, i.dst))]
    /\ Onward /\ Same /\ KeepsFlow /\ KeepsFlags /\ UNCHANGED memory

\* ADD, SUB, AND, OR, XOR and, without the result, CMP and TEST
Alu ==
    /\ Fetched({"ADD", "SUB", "AND", "OR", "XOR", "CMP", "TEST"})
    /\ LET i == Current
           a == ReadOperand(i, i.dst)
           b == ReadOperand(i, i.src)
           r == CASE i.op = "ADD" -> Wrap(a + b)
                  [] i.op \in {"SUB", "CMP"} -> Wrap(a - b)
                  [] i.op \in {"AND", "TEST"} -> a & b
                  [] i.op = "OR" -> a | b
                  [] i.op = "XOR" -> a ^^ b
       IN  /\ IF i.op \in {"CMP", "TEST"} THEN UNCHANGED <<gpr, memory>> ELSE Store(i, i.dst, r)
           /\ flags' = CASE i.op = "ADD" -> AddFlags(a, b, OpSize(i))
                         [] i.op \in {"SUB", "CMP"} -> SubFlags(a, b, OpSize(i))
                         [] OTHER -> LogicFlags(r, OpSize(i))
           /\ compared' = IF i.op \in {"SUB", "CMP"} THEN <<a, b, SizeOf(i, i.dst)>> ELSE << >>
    /\ Onward /\ Same /\ KeepsFlow

\* INC and DEC leave CF as it was; NOT leaves every flag.
Unary ==
    /\ Fetched({"NOT", "NEG", "INC", "DEC"})
    /\ LET i == Current
           v == ReadOperand(i, i.dst)
           s == OpSize(i)
       IN  /\ Store(i, i.dst, CASE i.op = "NOT" -> -v - 1 [] i.op = "NEG" -> -v
                                [] i.op = "INC" -> v + 1 [] i.op = "DEC" -> v - 1)
           /\ flags' = CASE i.op = "NOT" -> flags
                         [] i.op = "NEG" -> SubFlags(0, v, s)
                         [] i.op = "INC" -> [AddFlags(v, 1, s) EXCEPT !.CF = flags.CF]
                         [] i.op = "DEC" -> [SubFlags(v, 1, s) EXCEPT !.CF = flags.CF]
           /\ compared' = IF i.op = "NOT" THEN compared ELSE << >>
    /\ Onward /\ Same /\ KeepsFlow

\* The count is cut to six bits whatever the operand's size; OF is always cleared.
Shift ==
    /\ Fetched({"SHL", "SHR", "SAR"})
    /\ LET i == Current
           s == OpSize(i)
           v == ReadOperand(i, i.dst)
           n == ReadOperand(i, i.src) % 64
           r == CASE i.op = "SHL" -> Wrap(v * Two(n))
                  [] i.op = "SHR" -> Cut(v, s) \div Two(n)
                  [] i.op = "SAR" -> Wrap(Signed(v, s) \div Two(n))
           lost == IF i.op = "SHL" THEN v \div Two(Bits[s] - n) ELSE v \div Two(n - 1)
       IN  IF n = 0 THEN UNCHANGED <<gpr, memory, flags, compared>>
           ELSE /\ Store(i, i.dst, r) /\ compared' = << >>
                /\ flags' = [LogicFlags(r, s) EXCEPT !.CF = lost % 2 = 1]
    /\ Onward /\ Same /\ KeepsFlow

\* The forms with two and three operands set no flag; that with one fills DX:AX.
Multiply ==
    /\ Fetched({"IMUL", "IMUL1"})
    /\ LET i == Current
           s == OpSize(i)
           p == Signed(ReadOperand(i, i.src), s) *
                (CASE i.op = "IMUL1" -> Signed(gpr["AX"], s)
                   [] Forms[i.form].imm # 0 -> Signed(i.imm, s)
                   [] OTHER -> Signed(ReadOperand(i, i.dst), s))
       IN  IF i.op = "IMUL" THEN Store(i, i.dst, p)
           ELSE /\ gpr' = [gpr EXCEPT !["AX"] = Cut(p, s), !["DX"] = Cut(p \div Two(Bits[s]), s)]
                /\ UNCHANGED memory
    /\ Onward /\ Same /\ KeepsFlow /\ KeepsFlags

\* CDQ, CQO, CDQE, CWDE and CPUID
Widen ==
    /\ Fetched({"CDQ", "CQO", "CDQE", "CWDE", "CPUID"})
    /\ LET upper(v) == v - Cut(v, "dword")
       IN  gpr' = CASE Current.op = "CDQ" ->
                        [gpr EXCEPT !["DX"] = upper(@) + (IF Signed(gpr["AX"], "dword") < 0 THEN Two(Bits["dword"]) - 1 ELSE 0)]
                    [] Current.op = "CQO" ->
                        [gpr EXCEPT !["DX"] = IF Signed(gpr["AX"], "qword") < 0 THEN Two(Bits["qword"]) - 1 ELSE 0]
                    [] Current.op = "CDQE" -> [gpr EXCEPT !["AX"] = SignExtend(@, "dword")]
                    [] Current.op = "CWDE" -> [gpr EXCEPT !["AX"] = upper(@) + Cut(SignExtend(@, "word"), "dword")]
                    [] Current.op = "CPUID" ->
                        [gpr EXCEPT !["AX"] = 1, !["BX"] = 1, !["CX"] = 1, !["DX"] = 1]
    /\ Onward /\ Same /\ KeepsFlow /\ KeepsFlags /\ UNCHANGED memory

Pushed(v) == [m \in {Wrap(gpr["SP"] - 1)} |-> v] @@ memory

Stack ==
    /\ Fetched({"PUSH", "POP", "LEAVE"})
    /\ LET i == Current
       IN  CASE i.op = "PUSH" -> /\ memory' = Pushed(ReadOperand(i, i.dst))
                                 /\ gpr' = [gpr EXCEPT !["SP"] = Wrap(@ - 1)]
             [] i.op = "POP" -> /\ gpr' = [[gpr EXCEPT !["SP"] = Wrap(@ + 1)] EXCEPT ![i.dst.reg] = Load64(gpr["SP"])]
                                /\ UNCHANGED memory
             [] i.op = "LEAVE" -> /\ gpr' = [gpr EXCEPT !["SP"] = Wrap(gpr["BP"] + 1), !["BP"] = Load64(gpr["BP"])]
                                  /\ UNCHANGED memory
    /\ Onward /\ Same /\ KeepsFlow /\ KeepsFlags

Jump ==
    /\ Fetched({"JMP", "JCC"})
    /\ rip' = IF Current.op = "JCC" /\ ~Holds(flags, Current.cc) THEN rip + Length(Current)
              ELSE IF Current.dst.kind = "imm" THEN rip + Length(Current) + Current.dst.value
              ELSE ReadOperand(Current, Current.dst)
    /\ Same /\ KeepsFlow /\ KeepsFlags /\ UNCHANGED <<gpr, memory>>

\* The target is read after the return address is pushed.  A call of a stub pops the return address it pushed, and exec_block returns to
\* let the engine do the call.
CallInsn ==
    /\ Fetched({"CALL"})
    /\ LET i == Current
           next == rip + Length(i)
           target == IF i.dst.kind = "imm" THEN next + i.dst.value
                     ELSE ReadWith([gpr EXCEPT !["SP"] = Wrap(@ - 1)], i, i.dst)
           isStub == target \in Stubs
       IN  /\ memory' = Pushed(next)
           /\ rip' = IF isStub THEN next ELSE target
           /\ gpr' = [gpr EXCEPT !["SP"] = IF isStub THEN @ ELSE Wrap(@ - 1)]
           /\ status' = IF isStub THEN "syscall" ELSE status
           /\ frames' = IF isStub THEN frames ELSE Append(frames, <<rip + i.len, gpr["SP"]>>)
           /\ strayed' = (strayed \/ (isStub /\ rip' # rip + i.len))
    /\ KeepsFlags /\ UNCHANGED <<assembled, seed>>

PoppedByRet(i) == 1 + (IF Forms[i.form].imm = 2 THEN i.dst.value ELSE 0)

\* The outermost return, to address 0, stops the interpreter.
Return ==
    /\ Fetched({"RET"})
    /\ LET i == Current
           to == Load64(gpr["SP"])
       IN  /\ gpr' = [gpr EXCEPT !["SP"] = Wrap(@ + PoppedByRet(i))]
           /\ rip' = to
           /\ status' = IF to = 0 THEN "halted" ELSE status
           /\ IF frames = << >> THEN KeepsFlow
              ELSE LET f == frames[Len(frames)]
                   IN  /\ frames' = SubSeq(frames, 1, Len(frames) - 1)
                       /\ strayed' = (strayed \/ to # f[1] \/ gpr'["SP"] # f[2] + i.args)
    /\ KeepsFlags /\ UNCHANGED <<memory, assembled, seed>>

Conditional ==
    /\ Fetched({"CMOVCC", "SETCC"})
    /\ LET i == Current
       IN  CASE i.op = "SETCC" -> Store(i, i.dst, IF Holds(flags, i.cc) THEN 1 ELSE 0)
             [] i.op = "CMOVCC" /\ Holds(flags, i.cc) -> Store(i, i.dst, ReadOperand(i, i.src))
             [] OTHER -> UNCHANGED <<gpr, memory>>
    /\ Onward /\ Same /\ KeepsFlow /\ KeepsFlags

CarryInsn ==
    /\ Fetched({"CLC", "STC", "CMC"})
    /\ flags' = [flags EXCEPT !.CF = CASE Current.op = "CLC" -> FALSE [] Current.op = "STC" -> TRUE
                                       [] Current.op = "CMC" -> ~@]
    /\ compared' = << >>
    /\ Onward /\ Same /\ KeepsFlow /\ UNCHANGED <<gpr, memory>>

\* NOP, and what is decoded but not implemented (ADC, SBB, MUL, DIV, IDIV, ROL, ROR,
\* CBW, RDTSC, the string moves, MOVAPS): a warning, and the next instruction.
Skip ==
    /\ Fetched({"NOP", "UNIMPLEMENTED"})
    /\ Onward /\ Same /\ KeepsFlow /\ KeepsFlags /\ UNCHANGED <<gpr, memory>>

\* HLT, SYSCALL and INT end the block; what cannot be decoded ends it in an error
\* with rip where it was.
Stop ==
    /\ Fetched({"HLT", "SYSCALL", "INT", "UNKNOWN"})
    /\ status' = CASE Current.op = "HLT" -> "halted" [] Current.op = "UNKNOWN" -> "error" [] OTHER -> "syscall"
    /\ rip' = IF Current.op = "UNKNOWN" THEN rip ELSE rip + Length(Current)
    /\ KeepsFlow /\ KeepsFlags /\ UNCHANGED <<gpr, memory, assembled, seed>>

\* The caller of exec_block serves the call and runs the next block.
NextBlock ==
    /\ status = "syscall" /\ status' = "runs"
    /\ KeepsFlow /\ KeepsFlags /\ UNCHANGED <<gpr, rip, memory, assembled, seed>>

X86Next ==
    \/ Move \/ Exchange \/ Alu \/ Unary \/ Shift \/ Multiply \/ Widen \/ Stack \/ Jump
    \/ CallInsn \/ Return \/ Conditional \/ CarryInsn \/ Skip \/ Stop \/ NextBlock

X86Spec == X86Init /\ [][X86Next]_x86Vars

----------------------------------------------------------------------------
(* What the interpreter promises of the code it is made for.                  *)

\* The decoder keeps step with the assembler: the interpreter never stands between two
\* instructions, and an operand relative to rip is the one the assembler meant
\* (decode_modrm_mem, wg_x86_decode.c:75-134, and the fetches of the immediates).
DecodedAsAssembled ==
    status = "runs" =>
        /\ rip \in Starts
        /\ Length(Current) = Current.len
        /\ \A o \in {Current.dst, Current.src} : (o.kind = "mem" /\ o.base = "rip") => Ea(Current, o) = o.meant

Ordered(cc, a, b, s) ==
    LET difference == Signed(a, s) - Signed(b, s)
        fits == difference \in -TopBit(s) .. (TopBit(s) - 1)
    IN  CASE cc = "Z" -> a = b                           [] cc = "NZ" -> a # b
          [] cc = "B" -> a < b                           [] cc = "AE" -> a >= b
          [] cc = "BE" -> a <= b                         [] cc = "A" -> a > b
          [] cc = "L" -> Signed(a, s) < Signed(b, s)     [] cc = "GE" -> Signed(a, s) >= Signed(b, s)
          [] cc = "LE" -> Signed(a, s) <= Signed(b, s)   [] cc = "G" -> Signed(a, s) > Signed(b, s)
          [] cc = "O" -> ~fits                           [] cc = "NO" -> fits
          [] OTHER -> (cc = "S") = (Cut(a - b, s) >= TopBit(s))

\* After a comparison, and however many moves, pushes, calls and jumps later, every
\* condition tells how the two operands compare, signed and unsigned, a difference that
\* does not fit included (wg_x86_update_flags_sub, wg_x86_state.c:80-91, eval_condition,
\* wg_x86_interp.c:101-128).
ConditionsTellOrder ==
    compared # << >> =>
        \A cc \in ConditionCodes : Holds(flags, cc) = Ordered(cc, compared[1], compared[2], compared[3])

\* Every return goes to the instruction after its call with the stack pointer the caller
\* had, less the arguments the callee removes, whatever was pushed between; a call of a
\* stub comes back by itself (wg_x86_interp.c:408-438).
ReturnsHome ==
    /\ ~strayed
    /\ \A n \in 1 .. Len(frames) : Load64(frames[n][2] - 1) = frames[n][1]

\* A program that ends leaves in AX what it is written to compute: the flags, the widths
\* of its operands, its loops and its calls work together (wg_x86_exec_one,
\* wg_x86_interp.c:142-532).
AnswersRight == status = "halted" => gpr["AX"] = assembled.answer[seed]

\* The interpreter runs the code as it was written
\* (wg_x86_decode.c:34-741, wg_x86_interp.c:142-543).
InterpreterConsistent ==
    DecodedAsAssembled /\ ConditionsTellOrder /\ ReturnsHome /\ AnswersRight
=============================================================================
