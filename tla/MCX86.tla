------------------------------ MODULE MCX86 --------------------------------
(* Programs for the interpreter, assembled, with what each should compute.    *)
EXTENDS X86

mcBits == [byte |-> 2, word |-> 3, dword |-> 4, qword |-> 6]

NoOperand == [kind |-> "none"]
R(r) == [kind |-> "reg", reg |-> r]
Imm(v) == [kind |-> "imm", value |-> v]
M(base, index, scale, disp, mod) ==
    [kind |-> "mem", base |-> base, index |-> index, scale |-> scale, disp |-> disp, mod |-> mod]
Rip(disp, meant) ==
    [kind |-> "mem", base |-> "rip", index |-> "none", scale |-> 1, disp |-> disp, mod |-> 0, meant |-> meant]

Insn(form, op, prefixes, dst, src, len) ==
    [form |-> form, op |-> op, prefixes |-> prefixes, dst |-> dst, src |-> src, len |-> len,
     cc |-> "Z", imm |-> 0, args |-> 0]
On(cc, i) == [i EXCEPT !.cc = cc]
W == {"rexw"}

Answers(Result(_, _)) == [s \in Seeds \X Seeds |-> Result(s[1], s[2])]
Program(code, data, Result(_, _)) == [code |-> code, data |-> data, answer |-> Answers(Result)]

\* the greater of two numbers, with a conditional jump
Greatest ==
    Program(<<Insn("mov_rm", "MOV", {}, R("AX"), R("SI"), 2),
              Insn("alu", "CMP", {}, R("AX"), R("DI"), 2),
              Insn("push", "PUSH", {}, R("AX"), NoOperand, 1),
              Insn("pop", "POP", {}, R("AX"), NoOperand, 1),
              On("GE", Insn("jcc8", "JCC", {}, Imm(2), NoOperand, 2)),
              Insn("mov_rm", "MOV", {}, R("AX"), R("DI"), 2),
              Insn("ret", "RET", {}, NoOperand, NoOperand, 1)>>, << >>,
            LAMBDA a, b : Cut(IF Signed(a, "dword") >= Signed(b, "dword") THEN a ELSE b, "dword"))

\* the lower of two whole words, with a conditional move, through a word in memory
Least ==
    Program(<<Insn("mov_rm", "MOV", W, R("AX"), R("SI"), 3),
              Insn("mov_rm", "MOV", W, Rip(43, 53), R("DI"), 7),
              Insn("alu", "SUB", W, R("SI"), R("DI"), 3),
              Insn("lea", "LEA", W, R("BX"), M("SP", "none", 1, -1, 1), 5),
              On("A", Insn("rm2", "CMOVCC", W, R("AX"), Rip(27, 53), 8)),
              Insn("plain", "HLT", {}, NoOperand, NoOperand, 1)>>, << >>,
            LAMBDA a, b : IF a > b THEN b ELSE a)

\* the absolute value, without a jump
Absolute ==
    Program(<<Insn("mov_rm", "MOV", {}, R("AX"), R("SI"), 2),
              Insn("plain", "CDQ", {}, NoOperand, NoOperand, 1),
              Insn("alu", "XOR", {}, R("AX"), R("DX"), 2),
              Insn("alu", "SUB", {}, R("AX"), R("DX"), 2),
              Insn("plain", "HLT", {}, NoOperand, NoOperand, 1)>>, << >>,
            LAMBDA a, b : Cut(IF Signed(a, "dword") < 0 THEN -Signed(a, "dword") ELSE a, "dword"))

\* a product, by a loop
Product ==
    Program(<<Insn("mov_rm", "MOV", {}, R("CX"), R("SI"), 2),
              Insn("alu", "XOR", {}, R("AX"), R("AX"), 2),
              Insn("unary", "TEST", {}, R("CX"), R("CX"), 2),
              On("Z", Insn("jcc", "JCC", {}, Imm(6), NoOperand, 6)),
              Insn("alu", "ADD", {}, R("AX"), R("DI"), 2),
              Insn("group_ff", "DEC", {}, R("CX"), NoOperand, 2),
              On("NZ", Insn("jcc8", "JCC", {}, Imm(-6), NoOperand, 2)),
              Insn("ret", "RET", {}, NoOperand, NoOperand, 1)>>, << >>,
            LAMBDA a, b : Cut(Cut(a, "dword") * b, "dword"))

\* a difference, by a function with a frame, two arguments it removes and a stub it calls
Difference ==
    Program(<<Insn("push", "PUSH", {}, R("DI"), NoOperand, 1),
              Insn("push", "PUSH", {}, R("SI"), NoOperand, 1),
              [Insn("call", "CALL", {}, Imm(1), NoOperand, 5) EXCEPT !.args = 2],
              Insn("ret", "RET", {}, NoOperand, NoOperand, 1),
              Insn("push", "PUSH", {}, R("BP"), NoOperand, 1),
              Insn("mov_rm", "MOV", W, R("BP"), R("SP"), 3),
              Insn("alu_imm8", "SUB", W, R("SP"), Imm(2), 4),
              Insn("group_ff", "CALL", {}, Rip(30, 52), NoOperand, 6),
              Insn("mov_rm", "MOV", {}, R("AX"), M("BP", "none", 1, 2, 1), 3),
              Insn("alu", "SUB", {}, R("AX"), M("BP", "none", 1, 3, 1), 3),
              Insn("plain", "LEAVE", {}, NoOperand, NoOperand, 1),
              [Insn("ret_imm", "RET", {}, Imm(2), NoOperand, 3) EXCEPT !.args = 2]>>,
            (52 :> 50),
            LAMBDA a, b : Cut(a - b, "dword"))

\* shifts, multiplications and narrow operands
Mixed ==
    Program(<<Insn("lea", "LEA", W, R("AX"), M("SI", "SI", 2, 0, 0), 4),
              Insn("rm2", "IMUL", {}, R("AX"), R("DI"), 3),
              Insn("shift_imm", "SHL", {}, R("AX"), Imm(1), 3),
              Insn("unary", "NOT", {}, R("AX"), NoOperand, 2),
              Insn("unary", "NEG", {}, R("AX"), NoOperand, 2),
              Insn("shift_one", "SAR", {}, R("AX"), Imm(1), 2),
              Insn("xchg_ax", "XCHG", {}, R("BX"), R("AX"), 1),
              Insn("narrow2", "MOVZX", {}, R("DX"), R("BX"), 3),
              Insn("alu", "ADD", {}, R("BX"), R("DX"), 2),
              Insn("plain", "STC", {}, NoOperand, NoOperand, 1),
              On("B", Insn("narrow2", "SETCC", {}, R("BX"), NoOperand, 3)),
              Insn("plain2", "UNIMPLEMENTED", {}, NoOperand, NoOperand, 2),
              Insn("xchg_ax", "XCHG", {}, R("BX"), R("AX"), 1),
              Insn("plain", "HLT", {}, NoOperand, NoOperand, 1)>>, << >>,
            LAMBDA a, b : LET y == Cut(Signed(Cut(Cut(3 * a, "dword") * b * 2, "dword") + 1, "dword") \div 2, "dword")
                              z == Cut(y + Cut(y, "byte"), "dword")
                          IN  z - Cut(z, "byte") + 1)

\* the signed halves of a number, and what ends a block
Halves ==
    Program(<<Insn("plain2", "CPUID", {}, NoOperand, NoOperand, 2),
              Insn("mov_r_imm", "MOV", W, R("CX"), Imm(5), 10),
              Insn("narrow2", "MOVSX", {}, R("AX"), R("SI"), 3),
              Insn("plain", "CDQE", W, NoOperand, NoOperand, 2),
              Insn("plain", "CQO", W, NoOperand, NoOperand, 2),
              Insn("int", "INT", {}, NoOperand, NoOperand, 2),
              Insn("alu", "AND", W, R("DX"), R("CX"), 3),
              Insn("alu_ax_imm", "OR", {}, R("AX"), Imm(8), 5),
              Insn("group_ff", "INC", W, R("DX"), NoOperand, 3),
              Insn("alu", "ADD", W, R("AX"), R("DX"), 3),
              Insn("plain", "HLT", {}, NoOperand, NoOperand, 1)>>, << >>,
            LAMBDA a, b : LET m == Signed(a, "byte")
                              x == Cut(m, "dword")
                          IN  (IF m < 0 THEN x + 6 ELSE x + 9))

Undecoded ==
    Program(<<Insn("jmp8", "JMP", {}, Imm(0), NoOperand, 2),
              Insn("plain", "UNKNOWN", {}, NoOperand, NoOperand, 1)>>, << >>, LAMBDA a, b : 0)

mcCodes == {Greatest, Least, Absolute, Product, Difference, Mixed, Halves, Undecoded}
mcSeeds == (0 .. 9) \cup {15, 31, 32, 63}
=============================================================================
