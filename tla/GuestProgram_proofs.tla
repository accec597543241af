------------------------- MODULE GuestProgram_proofs -------------------------
(* What a guest program builds up in the engine: its dialogs, with their pages, *)
(* controls and calls of procedures, and its memory, which is region 3 and the  *)
(* 32-bit heap beside it, for every size of the tables and of what it asks for. *)
EXTENDS GuestHeap, Dialogs, FiniteSetTheorems, SequenceTheorems, WellFoundedInduction, TLAPS

\* One thread, one dialog in a program, whose pages may follow each other or whose
\* controls may come late, and which is not replaced while it waits.
OneDialog == \A g \in DialogGuests :
    /\ g.threads = {1} /\ ~g.others /\ ~g.quits /\ g.dialogs <= 1
    /\ g.windows <= MaxFrameWindows /\ (g.late => g.windows <= 2)

Regs == Nat \X Nat
CpuPlaces == [on : Nat, level : Nat, regs : Regs]
StackCalls == [trap : {"exit", "SENDMSG", "DLG"}, entry : Regs]
Texts == {NoText, "C:"}
DialogControls == [hwnd : Nat, text : Texts, made : Nat]
FrameKinds == {"frame", "page", "child"}
FrameEntries == [alive : BOOLEAN, proc : BOOLEAN, kind : FrameKinds]

-----------------------------------------------------------------------------
(* Numbers.                                                                   *)

\* A set of natural numbers that has elements has a first one.
LEMMA FirstOf ==
    ASSUME NEW S, S # {}, S \subseteq Nat
    PROVE  \E i \in S : \A j \in S : i <= j
<1> DEFINE Less == {ss \in Nat \X Nat : ss[1] < ss[2]}
<1>1. OpToRel(<, Nat) = Less
  BY Zenon DEF OpToRel
<1>2. IsWellFoundedOn(Less, Nat)
  BY <1>1, NatLessThanWellFounded, Zenon
<1>3. PICK i \in S : \A j \in S : ~(<<j, i>> \in Less)
  <2> HIDE DEF Less
  <2> QED
    BY <1>2, WFMin
<1>4. \A j \in S : i <= j
  <2> TAKE j \in S
  <2> SUFFICES ASSUME j < i PROVE FALSE
    OBVIOUS
  <2> <<j, i>> \in Less
    OBVIOUS
  <2> QED
    BY <1>3
<1>5. QED
  BY <1>4

-----------------------------------------------------------------------------
(* The calls.                                                                 *)

CallShape ==
    /\ callstack \in Seq(CpuPlaces) /\ cpu \in [Threads -> CpuPlaces]
    /\ stack \in [Threads -> Seq(StackCalls)] /\ level \in [Threads -> Nat]

\* The main thread is where it should be.
AtLevel ==
    /\ cpu[Main].on = Main /\ cpu[Main].level = level[Main]
    /\ 1 <= level[Main] /\ level[Main] <= Len(stack[Main])

\* How many levels of a stack are of the dialog's procedure: the second, or none.
Below(n, st) == IF n >= 2 /\ st[2].trap = "DLG" THEN 1 ELSE 0

\* The calls on a stack: the program, then the dialog's procedure or another one,
\* then others.
CallsTrapped(n, st) ==
    /\ st[1].trap = "exit"
    /\ n >= 2 => st[2].trap # "exit"
    /\ \A k \in 3 .. n : st[k].trap = "SENDMSG"

\* The frames are those of the calls that return to the trap.
FramesRight(n, st, fs) ==
    /\ Len(fs) = n - 1 - Below(n, st)
    /\ \A k \in DOMAIN fs : fs[k].on = Main /\ fs[k].level = k + Below(n, st)

\* Every caller gets its registers back.
RegsRight(n, st, fs, regs) ==
    /\ regs = <<Main, n>>
    /\ \A k \in 2 .. n : st[k].entry = <<Main, k - 1>>
    /\ \A k \in DOMAIN fs : fs[k].regs = <<Main, fs[k].level>>

CallsRight ==
    /\ CallShape /\ AtLevel
    /\ CallsTrapped(level[Main], stack[Main])
    /\ FramesRight(level[Main], stack[Main], callstack)
    /\ ended \/ RegsRight(level[Main], stack[Main], callstack, cpu[Main].regs)

LEMMA MainThread == Main \in Threads /\ Main = 1
BY DEF Main, Threads

\* A procedure is entered: by a call, which the frames remember, or as the dialog's,
\* from the program.
LEMMA Entered ==
    ASSUME NEW n \in Nat, 1 <= n, NEW st \in Seq(StackCalls), n <= Len(st), NEW fs \in Seq(CpuPlaces),
           CallsTrapped(n, st), FramesRight(n, st, fs),
           NEW trap \in {"SENDMSG", "DLG"}, NEW regs \in Regs, NEW more \in Seq(CpuPlaces),
           \/ trap = "SENDMSG" /\ more = Append(fs, [on |-> Main, level |-> n, regs |-> regs])
           \/ trap = "DLG" /\ n = 1 /\ more = fs
    PROVE  LET new == Append(SubSeq(st, 1, n), [trap |-> trap, entry |-> regs])
           IN  /\ new \in Seq(StackCalls) /\ Len(new) = n + 1
               /\ CallsTrapped(n + 1, new) /\ FramesRight(n + 1, new, more)
               /\ RegsRight(n, st, fs, regs) => RegsRight(n + 1, new, more, <<Main, n + 1>>)
<1> DEFINE c == [trap |-> trap, entry |-> regs]
           cut == SubSeq(st, 1, n)
           new == Append(cut, c)
           m == n + 1
           f == [on |-> Main, level |-> n, regs |-> regs]
<1>1. c \in StackCalls /\ c.trap = trap /\ c.entry = regs
  BY DEF StackCalls
<1>2. cut \in Seq(StackCalls) /\ Len(cut) = n /\ \A k \in 1 .. n : cut[k] = st[k]
  BY SubSeqProperties
<1>3. f.on = Main /\ f.level = n /\ f.regs = regs
  OBVIOUS
<1> HIDE DEF c, cut, f
<1>4. new \in Seq(StackCalls) /\ Len(new) = m /\ new[m] = c /\ \A k \in 1 .. n : new[k] = st[k]
  BY <1>1, <1>2, AppendProperties
<1>5. m \in Nat /\ m >= 2 /\ m - 1 = n
  <2>1. n \in Nat /\ n >= 1
    OBVIOUS
  <2>2. QED
    BY ONLY <2>1
<1> HIDE DEF new
<1>6. n = 1 => new[2].trap = trap
  BY <1>1, <1>4
<1>7. n >= 2 => new[2] = st[2]
  BY <1>4
<1>8. CallsTrapped(m, new)
  <2>1. new[1].trap = "exit"
    BY <1>4 DEF CallsTrapped
  <2>2. new[2].trap # "exit"
    BY <1>6, <1>7 DEF CallsTrapped
  <2>3. ASSUME NEW k \in 3 .. m PROVE new[k].trap = "SENDMSG"
    <3>1. CASE k = m
      <4>1. n # 1
        BY <3>1
      <4>2. new[k].trap = trap
        BY <1>1, <1>4, <3>1
      <4>3. QED
        BY <4>1, <4>2
    <3>2. CASE k # m
      <4>1. k \in 3 .. n /\ k \in 1 .. n
        BY <3>2
      <4>2. QED
        BY <1>4, <4>1 DEF CallsTrapped
    <3>3. QED
      BY <3>1, <3>2
  <2>4. QED
    BY <2>1, <2>2, <2>3 DEF CallsTrapped
<1>9. CASE trap = "DLG"
  <2>1. n = 1 /\ more = fs /\ Below(n, st) = 0 /\ Below(m, new) = 1
    BY <1>5, <1>6, <1>9 DEF Below
  <2>2. Len(fs) = 0 /\ DOMAIN fs = {}
    BY <2>1 DEF FramesRight
  <2>3. FramesRight(m, new, more)
    BY <1>5, <2>1, <2>2 DEF FramesRight
  <2>4. ASSUME RegsRight(n, st, fs, regs) PROVE RegsRight(m, new, more, <<Main, m>>)
    <3>1. new[2].entry = <<Main, 1>>
      BY <1>1, <1>4, <2>1, <2>4 DEF RegsRight
    <3>2. \A k \in 2 .. m : k = 2 /\ k - 1 = 1
      BY <2>1
    <3>3. \A k \in 2 .. m : new[k].entry = <<Main, k - 1>>
      BY <3>1, <3>2
    <3>4. QED
      BY <2>1, <2>2, <3>3 DEF RegsRight
  <2>5. QED
    BY <1>4, <1>8, <2>3, <2>4 DEF new, cut, c
<1>10. CASE trap = "SENDMSG"
  <2>1. more = Append(fs, f)
    BY <1>10 DEF f
  <2>2. Below(m, new) = Below(n, st) /\ Below(n, st) \in {0, 1}
    <3>1. CASE n = 1
      BY <1>6, <1>10, <3>1 DEF Below
    <3>2. CASE n # 1
      BY <1>5, <1>7, <3>2 DEF Below
    <3>3. QED
      BY <3>1, <3>2
  <2> DEFINE d == Below(n, st)
             e == Len(fs)
  <2>3. e \in Nat /\ e = n - 1 - d /\ DOMAIN fs = 1 .. e
    BY DEF FramesRight
  <2>4. f \in CpuPlaces
    BY DEF CpuPlaces, Regs, f, Main
  <2>5. Len(more) = e + 1 /\ more[e + 1] = f /\ DOMAIN more = 1 .. e + 1 /\ \A k \in 1 .. e : more[k] = fs[k]
    BY <2>1, <2>4, AppendProperties
  <2>6. \A k \in 1 .. e : fs[k].on = Main /\ fs[k].level = k + d
    BY <2>3 DEF FramesRight
  <2>7. d \in {0, 1} /\ Below(m, new) = d
    BY <2>2
  <2> HIDE DEF d, e
  <2>8. ASSUME NEW k \in 1 .. e + 1 PROVE more[k].on = Main /\ more[k].level = k + d
    <3>1. CASE k = e + 1
      <4>1. k + d = n
        BY <2>3, <2>7, <3>1
      <4>2. QED
        BY <1>3, <2>5, <3>1, <4>1
    <3>2. CASE k # e + 1
      <4>1. k \in 1 .. e
        BY <2>3, <3>2
      <4>2. QED
        BY <2>5, <2>6, <4>1
    <3>3. QED
      BY <3>1, <3>2
  <2>9. FramesRight(m, new, more)
    <3>1. Len(more) = m - 1 - d
      BY <1>5, <2>3, <2>5, <2>7
    <3>2. QED
      BY <2>5, <2>7, <2>8, <3>1 DEF FramesRight
  <2>10. ASSUME RegsRight(n, st, fs, regs) PROVE RegsRight(m, new, more, <<Main, m>>)
    <3>1. ASSUME NEW k \in 2 .. m PROVE new[k].entry = <<Main, k - 1>>
      <4>1. CASE k = m
        BY <1>1, <1>4, <1>5, <2>10, <4>1 DEF RegsRight
      <4>2. CASE k # m
        <5>1. k \in 2 .. n /\ k \in 1 .. n
          BY <4>2
        <5>2. QED
          BY <1>4, <2>10, <5>1 DEF RegsRight
      <4>3. QED
        BY <4>1, <4>2
    <3>2. ASSUME NEW k \in 1 .. e + 1 PROVE more[k].regs = <<Main, more[k].level>>
      <4>1. CASE k = e + 1
        BY <1>3, <2>5, <2>10, <4>1 DEF RegsRight
      <4>2. CASE k # e + 1
        <5>1. k \in 1 .. e
          BY <2>3, <4>2
        <5>2. QED
          BY <2>3, <2>5, <2>10, <5>1 DEF RegsRight
      <4>3. QED
        BY <4>1, <4>2
    <3>3. QED
      BY <2>5, <3>1, <3>2 DEF RegsRight
  <2>11. QED
    BY <1>4, <1>8, <2>9, <2>10 DEF new, cut, c
<1>11. QED
  BY <1>9, <1>10

\* A procedure that was called returns, and the last frame is the caller.
LEMMA Returned ==
    ASSUME NEW n \in Nat, 1 <= n, NEW st \in Seq(StackCalls), NEW fs \in Seq(CpuPlaces),
           CallsTrapped(n, st), FramesRight(n, st, fs), st[n].trap = "SENDMSG"
    PROVE  /\ fs # <<>> /\ Last(fs) \in CpuPlaces /\ Front(fs) \in Seq(CpuPlaces)
           /\ Last(fs).on = Main /\ Last(fs).level = n - 1 /\ 2 <= n
           /\ CallsTrapped(n - 1, st) /\ FramesRight(n - 1, st, Front(fs))
           /\ \A regs : RegsRight(n, st, fs, regs) => RegsRight(n - 1, st, Front(fs), Last(fs).regs)
<1> DEFINE m == n - 1
           d == Below(n, st)
           e == Len(fs)
           r == Front(fs)
<1>1. n # 1
  BY DEF CallsTrapped
<1>2. m \in Nat /\ 1 <= m /\ n = m + 1 /\ 2 <= n
  <2>1. n \in Nat /\ 1 <= n
    OBVIOUS
  <2>2. QED
    BY ONLY <1>1, <2>1
<1>3. d \in {0, 1} /\ Below(m, st) = d /\ (d = 1 => n # 2)
  <2>1. CASE n = 2
    <3>1. st[2].trap = "SENDMSG"
      BY <2>1
    <3>2. m = 1
      BY <2>1
    <3>3. QED
      BY <2>1, <3>1, <3>2 DEF Below
  <2>2. CASE n # 2
    <3>1. m >= 2
      BY <1>2, <2>2
    <3>2. QED
      BY <1>2, <2>2, <3>1 DEF Below
  <2>3. QED
    BY <2>1, <2>2
<1>4. e \in Nat /\ e = n - 1 - d /\ DOMAIN fs = 1 .. e
  BY DEF FramesRight
<1>5. \A k \in 1 .. e : fs[k].on = Main /\ fs[k].level = k + d
  BY <1>4 DEF FramesRight
<1> HIDE DEF d, e
<1>6. e >= 1
  BY <1>2, <1>3, <1>4
<1>7. fs # <<>> /\ Last(fs) = fs[e] /\ fs[e] \in CpuPlaces
  BY <1>4, <1>6 DEF Last, e
<1>8. r \in Seq(CpuPlaces) /\ Len(r) = e - 1 /\ \A k \in 1 .. e - 1 : r[k] = fs[k]
  <2>1. r = SubSeq(fs, 1, e - 1)
    BY DEF Front, e
  <2>2. e - 1 \in Nat /\ e - 1 <= Len(fs)
    BY <1>4, <1>6 DEF e
  <2>3. QED
    BY <2>1, <2>2, SubSeqProperties
<1> HIDE DEF r
<1>9. fs[e].on = Main /\ fs[e].level = m
  <2>1. e + d = m
    BY <1>2, <1>3, <1>4
  <2>2. QED
    BY <1>4, <1>5, <1>6, <2>1
<1>10. DOMAIN r = 1 .. e - 1
  BY <1>4, <1>6, <1>8
<1>11. FramesRight(m, st, r)
  <2>1. Len(r) = m - 1 - d
    BY <1>2, <1>3, <1>4, <1>8
  <2>2. \A k \in 1 .. e - 1 : r[k].on = Main /\ r[k].level = k + d
    BY <1>4, <1>5, <1>8
  <2>3. QED
    BY <1>3, <1>10, <2>1, <2>2 DEF FramesRight
<1>12. CallsTrapped(m, st)
  BY <1>2 DEF CallsTrapped
<1>13. ASSUME NEW regs, RegsRight(n, st, fs, regs) PROVE RegsRight(m, st, r, fs[e].regs)
  <2>1. \A k \in 1 .. e : fs[k].regs = <<Main, fs[k].level>>
    BY <1>4, <1>13 DEF RegsRight
  <2>2. fs[e].regs = <<Main, m>>
    BY <1>4, <1>6, <1>9, <2>1
  <2>3. \A k \in 2 .. m : st[k].entry = <<Main, k - 1>>
    BY <1>2, <1>13 DEF RegsRight
  <2>4. \A k \in DOMAIN r : r[k].regs = <<Main, r[k].level>>
    BY <1>4, <1>8, <1>10, <2>1
  <2>5. QED
    BY <2>2, <2>3, <2>4 DEF RegsRight
<1>14. QED
  BY <1>2, <1>7, <1>8, <1>9, <1>11, <1>12, <1>13 DEF r

\* A frame tells where the main thread is.
LEMMA FrameOfMain ==
    ASSUME CallsRight
    PROVE  /\ Frame(Main) = [on |-> Main, level |-> level[Main], regs |-> cpu[Main].regs]
           /\ cpu[Main].on = Main /\ cpu[Main].level = level[Main] /\ cpu[Main].regs \in Regs
           /\ level[Main] \in Nat /\ 1 <= level[Main]
           /\ stack[Main] \in Seq(StackCalls) /\ level[Main] <= Len(stack[Main])
           /\ callstack \in Seq(CpuPlaces) /\ Here(Main) = <<Main, level[Main]>>
<1>1. cpu[Main] \in CpuPlaces /\ stack[Main] \in Seq(StackCalls) /\ level[Main] \in Nat
  BY MainThread DEF CallsRight, CallShape
<1>2. QED
  BY <1>1 DEF CallsRight, CallShape, AtLevel, Frame, Here, CpuPlaces

\* The main thread enters a procedure.
LEMMA EntersRight ==
    ASSUME CallsRight, NEW trap \in {"SENDMSG", "DLG"}, Enter(Main, trap), ended' = ended,
           \/ trap = "SENDMSG" /\ callstack' = Append(callstack, Frame(Main))
           \/ trap = "DLG" /\ level[Main] = 1 /\ callstack' = callstack
    PROVE  CallsRight' /\ level'[Main] = level[Main] + 1
<1> DEFINE n == level[Main]
           st == stack[Main]
           regs == cpu[Main].regs
           f == [on |-> Main, level |-> n, regs |-> regs]
           c == [trap |-> trap, entry |-> regs]
           new == Append(SubSeq(st, 1, n), c)
           at == [on |-> Main, level |-> n + 1, regs |-> <<Main, n + 1>>]
           fs == callstack
           more == callstack'
<1>1. n \in Nat /\ 1 <= n /\ st \in Seq(StackCalls) /\ n <= Len(st) /\ regs \in Regs /\ fs \in Seq(CpuPlaces)
  BY FrameOfMain
<1>2. f \in CpuPlaces
  BY <1>1, MainThread DEF CpuPlaces
<1>3. more \in Seq(CpuPlaces)
  <2>1. Append(fs, f) \in Seq(CpuPlaces)
    BY <1>1, <1>2
  <2>2. more = Append(fs, f) \/ more = fs
    BY FrameOfMain
  <2> HIDE DEF more, f, fs
  <2>3. QED
    BY <1>1, <2>1, <2>2
<1>4. CallsTrapped(n, st) /\ FramesRight(n, st, fs) /\ (ended \/ RegsRight(n, st, fs, regs))
  BY DEF CallsRight
<1>5. \/ trap = "SENDMSG" /\ more = Append(fs, f)
      \/ trap = "DLG" /\ n = 1 /\ more = fs
  BY FrameOfMain
<1>6. /\ stack' = [stack EXCEPT ![Main] = new] /\ cpu' = [cpu EXCEPT ![Main] = at]
      /\ level' = [level EXCEPT ![Main] = n + 1]
  <2>1. cpu[Main].on = Main /\ cpu[Main].level = n
    BY FrameOfMain
  <2>2. QED
    BY <2>1, Zenon DEF Enter
<1> HIDE DEF n, st, regs, f, fs, more
<1>7. /\ new \in Seq(StackCalls) /\ Len(new) = n + 1
      /\ CallsTrapped(n + 1, new) /\ FramesRight(n + 1, new, more)
      /\ RegsRight(n, st, fs, regs) => RegsRight(n + 1, new, more, <<Main, n + 1>>)
  BY <1>1, <1>3, <1>4, <1>5, Entered DEF f
<1>8. at \in CpuPlaces /\ at.on = Main /\ at.level = n + 1 /\ at.regs = <<Main, n + 1>>
  BY <1>1, MainThread DEF CpuPlaces, Regs
<1> HIDE DEF at, new, c
<1>9. CallShape' /\ stack'[Main] = new /\ cpu'[Main] = at /\ level'[Main] = n + 1
  <2>1. CallShape
    BY DEF CallsRight
  <2>2. n + 1 \in Nat
    BY <1>1
  <2>3. QED
    BY <1>3, <1>6, <1>7, <1>8, <2>1, <2>2, MainThread DEF CallShape, more
<1>10. AtLevel' /\ level'[Main] = level[Main] + 1
  <2>1. n + 1 \in Nat /\ 1 <= n + 1 /\ n + 1 <= Len(new)
    BY <1>1, <1>7
  <2>2. QED
    BY <1>8, <1>9, <2>1 DEF AtLevel, n
<1>11. CallsTrapped(level'[Main], stack'[Main]) /\ FramesRight(level'[Main], stack'[Main], callstack')
  BY <1>7, <1>9 DEF more
<1>12. ended' \/ RegsRight(level'[Main], stack'[Main], callstack', cpu'[Main].regs)
  <2>1. CASE ended
    BY <2>1
  <2>2. CASE ~ended
    BY <1>4, <1>7, <1>8, <1>9, <2>2 DEF more
  <2>3. QED
    BY <2>1, <2>2
<1>13. QED
  BY <1>9, <1>10, <1>11, <1>12 DEF CallsRight

\* Nothing was called.
LEMMA CallsKept ==
    ASSUME CallsRight, UNCHANGED callVars, ended' = ended
    PROVE  CallsRight' /\ level'[Main] = level[Main]
BY DEF CallsRight, callVars, CallShape, AtLevel, CallsTrapped, FramesRight, RegsRight, Below

\* A procedure returns to its caller.
LEMMA ReturnsRight ==
    ASSUME CallsRight, ProcReturns(Main)
    PROVE  /\ CallsRight' /\ UNCHANGED <<pageVars, nsdPage, dlg, showPause, dialogGuest, dialogs, modal, ended, unheard>>
           /\ level[Main] # 1
           /\ UNCHANGED paused \/ (paused' = "dialog" /\ level'[Main] = 1)
<1> DEFINE n == level[Main]
           st == stack[Main]
           regs == cpu[Main].regs
           fs == callstack
           top == st[n]
           m == n - 1
<1>1. n \in Nat /\ 1 <= n /\ st \in Seq(StackCalls) /\ n <= Len(st) /\ regs \in Regs /\ fs \in Seq(CpuPlaces)
  BY FrameOfMain
<1>2. CallsTrapped(n, st) /\ FramesRight(n, st, fs) /\ (ended \/ RegsRight(n, st, fs, regs))
  BY DEF CallsRight
<1>3. cpu[Main].on = Main /\ cpu[Main].level = n
  BY FrameOfMain
<1>4. /\ top.trap \in {"SENDMSG", "DLG"}
      /\ level' = [level EXCEPT ![Main] = m]
      /\ UNCHANGED <<stack, pageVars, nsdPage, dlg, showPause, dialogGuest, dialogs, modal, ended, unheard>>
  <2>1. stack[cpu[Main].on][cpu[Main].level] = top
    BY <1>3
  <2>2. QED
    BY <2>1 DEF ProcReturns
<1>5. CallShape /\ cpu \in [Threads -> CpuPlaces] /\ cpu[Main] \in CpuPlaces
  BY MainThread DEF CallsRight, CallShape
<1>6. stack' = stack /\ ended' = ended /\ top \in StackCalls /\ top.entry \in Regs
  <2>1. n \in 1 .. Len(st)
    BY <1>1
  <2>2. top \in StackCalls
    BY <1>1, <2>1
  <2>3. QED
    BY <1>4, <2>2 DEF StackCalls
<1>7. CASE top.trap = "DLG"
  <2>1. n = 2
    <3>1. n # 1
      BY <1>2, <1>7 DEF CallsTrapped
    <3>2. ~(n \in 3 .. n)
      BY <1>2, <1>7 DEF CallsTrapped
    <3>3. QED
      BY <1>1, <3>1, <3>2
  <2>2. /\ cpu' = [cpu EXCEPT ![Main].level = @ - 1, ![Main].regs = top.entry]
        /\ paused' = "dialog" /\ callstack' = callstack
    BY <1>3, <1>7 DEF ProcReturns
  <2>3. fs = <<>> /\ DOMAIN fs = {}
    <3>1. Below(n, st) = 1
      BY <1>7, <2>1 DEF Below
    <3>2. Len(fs) = 0
      BY <1>2, <2>1, <3>1 DEF FramesRight
    <3>3. QED
      BY <1>1, <3>2
  <2> DEFINE at == [cpu[Main] EXCEPT !.level = cpu[Main].level - 1, !.regs = top.entry]
  <2>4. cpu' = [cpu EXCEPT ![Main] = at]
    BY <1>5, <2>2, MainThread DEF CpuPlaces
  <2>5. at \in CpuPlaces /\ at.on = Main /\ at.level = m /\ at.regs = top.entry
    <3>1. cpu[Main].level - 1 = m /\ cpu[Main].level - 1 \in Nat
      BY <1>3, <2>1
    <3> DEFINE c == cpu[Main]
               l == c.level - 1
               r == top.entry
    <3>2. c \in CpuPlaces /\ l \in Nat /\ r \in Regs
      BY <1>5, <1>6, <3>1
    <3>3. at = [c EXCEPT !.level = l, !.regs = r]
      OBVIOUS
    <3> HIDE DEF c, l, r, at
    <3>4. at \in CpuPlaces /\ at.on = c.on /\ at.level = l /\ at.regs = r
      BY <3>2, <3>3 DEF CpuPlaces
    <3>5. QED
      BY <1>3, <3>1, <3>4 DEF c, l, r
  <2> HIDE DEF at
  <2>6. m = 1 /\ m \in Nat
    BY <2>1
  <2>7. cpu'[Main] = at /\ level'[Main] = m /\ cpu' \in [Threads -> CpuPlaces] /\ level' \in [Threads -> Nat]
    BY <1>4, <1>5, <2>4, <2>5, <2>6, MainThread DEF CallShape
  <2> HIDE DEF m
  <2>8. CallShape' /\ AtLevel' /\ level'[Main] = 1
    <3>1. CallShape'
      BY <1>5, <1>6, <2>2, <2>7 DEF CallShape
    <3>2. m <= Len(st) /\ 1 <= m
      BY <1>1, <2>6
    <3>3. QED
      BY <1>6, <2>5, <2>6, <2>7, <3>1, <3>2 DEF AtLevel
  <2>9. CallsTrapped(m, st) /\ FramesRight(m, st, fs)
    BY <1>2, <2>3, <2>6 DEF CallsTrapped, FramesRight, Below
  <2>10. ASSUME ~ended PROVE RegsRight(m, st, fs, top.entry)
    <3>1. RegsRight(n, st, fs, regs)
      BY <1>2, <2>10
    <3>2. top.entry = <<Main, 1>>
      BY <2>1, <3>1 DEF RegsRight
    <3>3. QED
      BY <2>3, <2>6, <3>2 DEF RegsRight
  <2>11. CallsTrapped(level'[Main], stack'[Main]) /\ FramesRight(level'[Main], stack'[Main], callstack')
    BY <1>6, <2>2, <2>7, <2>9
  <2>12. ended' \/ RegsRight(level'[Main], stack'[Main], callstack', cpu'[Main].regs)
    BY <1>6, <2>2, <2>5, <2>7, <2>10
  <2>13. CallsRight'
    BY <2>8, <2>11, <2>12 DEF CallsRight
  <2>14. QED
    BY <1>4, <2>1, <2>2, <2>8, <2>13
<1>8. CASE top.trap = "SENDMSG"
  <2>1. /\ fs # <<>> /\ Last(fs) \in CpuPlaces /\ Front(fs) \in Seq(CpuPlaces)
        /\ Last(fs).on = Main /\ Last(fs).level = m /\ 2 <= n
        /\ CallsTrapped(m, st) /\ FramesRight(m, st, Front(fs))
        /\ \A rs : RegsRight(n, st, fs, rs) => RegsRight(m, st, Front(fs), Last(fs).regs)
    <3> HIDE DEF n, st, fs
    <3>1. st[n].trap = "SENDMSG"
      BY <1>8
    <3>2. QED
      BY <1>1, <1>2, <3>1, Returned
  <2> DEFINE at == Last(fs)
             more == Front(fs)
  <2>2. cpu' = [cpu EXCEPT ![Main] = at] /\ callstack' = more /\ paused' = paused
    BY <1>3, <1>8, <2>1 DEF ProcReturns
  <2> HIDE DEF at, more, top
  <2>3. m \in Nat /\ 1 <= m /\ m <= Len(st) /\ n # 1
    BY <1>1, <2>1
  <2>4. cpu'[Main] = at /\ level'[Main] = m /\ cpu' \in [Threads -> CpuPlaces] /\ level' \in [Threads -> Nat]
    BY <1>4, <1>5, <2>1, <2>2, <2>3, MainThread DEF CallShape, at
  <2> HIDE DEF m
  <2>5. CallShape' /\ AtLevel'
    BY <1>5, <1>6, <2>1, <2>2, <2>3, <2>4 DEF CallShape, AtLevel, at, more
  <2>6. CallsTrapped(level'[Main], stack'[Main]) /\ FramesRight(level'[Main], stack'[Main], callstack')
    BY <1>6, <2>1, <2>2, <2>4 DEF more
  <2>7. ended' \/ RegsRight(level'[Main], stack'[Main], callstack', cpu'[Main].regs)
    BY <1>2, <1>6, <2>1, <2>2, <2>4 DEF more, at
  <2>8. CallsRight'
    BY <2>5, <2>6, <2>7 DEF CallsRight
  <2>9. QED
    BY <1>4, <2>2, <2>3, <2>8
<1>9. QED
  BY <1>4, <1>7, <1>8

-----------------------------------------------------------------------------
(* The controls.                                                              *)

\* The controls that stay are those of another window: when the window's are the
\* last ones, the list is cut there.
LEMMA WithoutSuffix ==
    ASSUME NEW cs \in Seq(DialogControls), NEW k \in 0 .. Len(cs), NEW w,
           \A i \in 1 .. k : cs[i].hwnd # w, \A i \in k + 1 .. Len(cs) : cs[i].hwnd = w
    PROVE  Without(cs, w) = SubSeq(cs, 1, k)
<1> DEFINE body(f, i) == IF i = 0 THEN <<>> ELSE IF cs[i].hwnd = w THEN f[i - 1] ELSE Append(f[i - 1], cs[i])
           e == Len(cs)
           upto(i) == SubSeq(cs, 1, IF i <= k THEN i ELSE k)
           g == [i \in 0 .. e |-> upto(i)]
           f == CHOOSE f : f = [i \in 0 .. e |-> body(f, i)]
<1>1. e \in Nat /\ k \in Nat /\ k <= e
  OBVIOUS
<1>2. \A i \in 0 .. e : g[i] = body(g, i)
  <2> TAKE i \in 0 .. e
  <2>1. CASE i = 0
    <3>1. upto(i) = <<>>
      BY <1>1, <2>1, SubSeqProperties
    <3>2. QED
      BY <2>1, <3>1
  <2>2. CASE i \in 1 .. k
    <3>1. upto(i) = SubSeq(cs, 1, i) /\ upto(i - 1) = SubSeq(cs, 1, i - 1)
      BY <1>1, <2>2
    <3>2. i - 1 \in 0 .. e /\ cs[i].hwnd # w /\ i # 0
      BY <1>1, <2>2
    <3>3. SubSeq(cs, 1, i) = Append(SubSeq(cs, 1, i - 1), cs[i])
      <4> DEFINE a == SubSeq(cs, 1, i)
                 c == SubSeq(cs, 1, i - 1)
                 b == Append(c, cs[i])
      <4>1. a \in Seq(DialogControls) /\ Len(a) = i /\ \A j \in 1 .. i : a[j] = cs[j]
        BY <1>1, <2>2, SubSeqProperties
      <4>2. c \in Seq(DialogControls) /\ Len(c) = i - 1 /\ \A j \in 1 .. i - 1 : c[j] = cs[j]
        BY <1>1, <2>2, SubSeqProperties
      <4>3. cs[i] \in DialogControls
        BY <1>1, <2>2
      <4> HIDE DEF a, c
      <4>4. b \in Seq(DialogControls) /\ Len(b) = i /\ \A j \in 1 .. i : b[j] = cs[j]
        BY <2>2, <4>2, <4>3, AppendProperties
      <4> HIDE DEF b
      <4>5. QED
        BY <4>1, <4>4, SeqEqual DEF a, b, c
    <3>4. QED
      BY <3>1, <3>2, <3>3
  <2>3. CASE i \in k + 1 .. e
    <3>1. upto(i) = SubSeq(cs, 1, k) /\ upto(i - 1) = SubSeq(cs, 1, k)
      BY <1>1, <2>3
    <3>2. i - 1 \in 0 .. e /\ cs[i].hwnd = w /\ i # 0
      BY <1>1, <2>3
    <3>3. QED
      BY <3>1, <3>2
  <2>4. QED
    BY <1>1, <2>1, <2>2, <2>3
<1>3. g = [i \in 0 .. e |-> body(g, i)]
  <2> HIDE DEF body, upto
  <2>1. g = [i \in 0 .. e |-> g[i]]
    OBVIOUS
  <2> HIDE DEF g
  <2>2. QED
    BY <1>2, <2>1
<1>4. f = [i \in 0 .. e |-> body(f, i)]
  <2> HIDE DEF g
  <2>1. QED
    BY <1>3
<1>5. Without(cs, w) = f[e]
  BY DEF Without
<1> HIDE DEF f, g
<1>6. \A i \in 0 .. e : f[i] = g[i]
  <2> DEFINE Bad == {i \in 0 .. e : f[i] # g[i]}
  <2> SUFFICES ASSUME Bad # {} PROVE FALSE
    OBVIOUS
  <2>1. PICK i \in Bad : \A j \in Bad : i <= j
    <3>1. Bad \subseteq Nat
      BY <1>1
    <3> HIDE DEF Bad
    <3>2. QED
      BY <3>1, FirstOf
  <2>2. i \in 0 .. e /\ f[i] # g[i]
    OBVIOUS
  <2>3. f[i] = body(f, i) /\ g[i] = body(g, i)
    <3> HIDE DEF body
    <3>1. QED
      BY <1>2, <1>4, <2>2
  <2>4. i # 0
    BY <2>2, <2>3
  <2>5. i - 1 \in 0 .. e /\ ~(i <= i - 1)
    BY <1>1, <2>2, <2>4
  <2>6. f[i - 1] = g[i - 1]
    BY <2>1, <2>5
  <2>7. QED
    BY <2>2, <2>3, <2>4, <2>6
<1>7. f[e] = upto(e)
  BY <1>1, <1>6 DEF g
<1>8. QED
  BY <1>1, <1>5, <1>7

Ids(cs) == {cs[i].made : i \in DOMAIN cs}

\* Controls are in the order they were made in.
InOrder(cs, next) ==
    /\ \A i, j \in DOMAIN cs : i < j => cs[i].made < cs[j].made
    /\ \A i \in DOMAIN cs : cs[i].made < next

\* A control has the text that it was given, and a handle leads to its control.
ControlsKnown(cs, want, have) ==
    /\ want \in [Ids(cs) -> Texts]
    /\ \A i \in DOMAIN cs : cs[i].text = want[cs[i].made]
    /\ \A m \in DOMAIN have : have[m] \in DOMAIN cs /\ cs[have[m]].made = m

ControlsRight ==
    /\ ctrls \in Seq(DialogControls) /\ Len(ctrls) <= MaxControls /\ nextMade \in Nat
    /\ InOrder(ctrls, nextMade) /\ ControlsKnown(ctrls, wanted, held)

\* A list of controls is cut after k and filled with new ones.
Refilled(cs, n, all, k, next) ==
    /\ all \in Seq(DialogControls) /\ k \in 0 .. Len(cs) /\ k <= Len(all)
    /\ next \in Nat /\ n <= next
    /\ \A i \in 1 .. k : all[i] = cs[i]
    /\ \A i \in k + 1 .. Len(all) : /\ all[i].text = NoText
                                   /\ all[i].made = n + (i - k) - 1 /\ all[i].made < next

\* What is known of the controls that are gone is forgotten.
Forgot(all, want, have, new, still) ==
    /\ new = [m \in Ids(all) |-> IF m \in DOMAIN want THEN want[m] ELSE NoText]
    /\ still = [m \in DOMAIN have \cap Ids(all) |-> have[m]]

LEMMA Relisted ==
    ASSUME NEW cs \in Seq(DialogControls), NEW n \in Nat, NEW want, NEW have,
           InOrder(cs, n), ControlsKnown(cs, want, have),
           NEW all, NEW k, NEW next, Refilled(cs, n, all, k, next),
           NEW new, NEW still, Forgot(all, want, have, new, still)
    PROVE  InOrder(all, next) /\ ControlsKnown(all, new, still)
<1>0. /\ all \in Seq(DialogControls) /\ k \in 0 .. Len(cs) /\ k <= Len(all)
      /\ next \in Nat /\ n <= next
      /\ \A i \in 1 .. k : all[i] = cs[i]
      /\ \A i \in k + 1 .. Len(all) : /\ all[i].text = NoText
                                     /\ all[i].made = n + (i - k) - 1 /\ all[i].made < next
  BY DEF Refilled
<1>a. /\ new = [m \in Ids(all) |-> IF m \in DOMAIN want THEN want[m] ELSE NoText]
       /\ still = [m \in DOMAIN have \cap Ids(all) |-> have[m]]
  BY DEF Forgot
<1> DEFINE e == Len(all)
<1>1. DOMAIN cs = 1 .. Len(cs) /\ DOMAIN all = 1 .. e /\ e \in Nat /\ Len(cs) \in Nat /\ k \in Nat
  BY <1>0
<1>2. \A i \in DOMAIN cs : cs[i].made \in Nat /\ cs[i].text \in Texts /\ cs[i].made < n
  <2>1. \A i \in DOMAIN cs : cs[i] \in DialogControls
    BY <1>1
  <2>2. \A i \in DOMAIN cs : cs[i].made < n
    BY DEF InOrder
  <2>3. QED
    BY <2>1, <2>2 DEF DialogControls
<1>3. DOMAIN want = Ids(cs)
  BY DEF ControlsKnown
<1> HIDE DEF e
<1>4. \A i \in 1 .. k : i \in DOMAIN cs /\ all[i].made = cs[i].made /\ all[i].text = cs[i].text
  BY <1>0, <1>1
<1>5. \A i \in k + 1 .. e : all[i].text = NoText /\ all[i].made = n + (i - k) - 1 /\ all[i].made < next /\ all[i].made >= n
  BY <1>0, <1>1 DEF e
<1>6. \A i \in 1 .. e : i \in 1 .. k \/ i \in k + 1 .. e
  BY <1>0, <1>1
<1>7. InOrder(all, next)
  <2>1. ASSUME NEW i \in 1 .. e, NEW j \in 1 .. e, i < j PROVE all[i].made < all[j].made
    <3>1. CASE j \in 1 .. k
      <4>1. i \in 1 .. k
        BY <1>1, <2>1, <3>1
      <4>2. QED
        BY <1>4, <2>1, <3>1, <4>1 DEF InOrder
    <3>2. CASE j \in k + 1 .. e /\ i \in 1 .. k
      <4>1. all[i].made < n /\ all[i].made \in Nat
        BY <1>2, <1>4, <3>2
      <4>2. all[j].made >= n /\ all[j].made \in Int
        BY <1>1, <1>5, <3>2
      <4>3. QED
        BY <4>1, <4>2
    <3>3. CASE j \in k + 1 .. e /\ i \in k + 1 .. e
      <4>1. all[i].made = n + (i - k) - 1 /\ all[j].made = n + (j - k) - 1
        BY <1>5, <3>3
      <4>2. QED
        BY <1>1, <2>1, <4>1
    <3>4. QED
      BY <1>6, <3>1, <3>2, <3>3
  <2>2. ASSUME NEW i \in 1 .. e PROVE all[i].made < next
    <3>1. CASE i \in 1 .. k
      <4>1. all[i].made < n /\ all[i].made \in Nat
        BY <1>2, <1>4, <3>1
      <4>2. QED
        BY <1>0, <4>1
    <3>2. QED
      BY <1>5, <1>6, <3>1
  <2>3. QED
    BY <1>1, <2>1, <2>2 DEF InOrder
<1>8. \A i \in 1 .. e : all[i].made \in Ids(all)
  BY <1>1 DEF Ids
<1>9. \A i \in k + 1 .. e : all[i].made \notin Ids(cs)
  <2> SUFFICES ASSUME NEW i \in k + 1 .. e, NEW j \in DOMAIN cs, all[i].made = cs[j].made PROVE FALSE
    BY DEF Ids
  <2>1. all[i].made >= n /\ cs[j].made < n /\ cs[j].made \in Nat
    BY <1>2, <1>5
  <2>2. QED
    BY <2>1
<1>10. new \in [Ids(all) -> Texts]
  <2>1. \A m \in Ids(cs) : want[m] \in Texts
    BY DEF ControlsKnown
  <2>2. NoText \in Texts
    BY DEF Texts
  <2>3. QED
    BY <1>a, <1>3, <2>1, <2>2
<1>11. ASSUME NEW i \in 1 .. e PROVE all[i].text = new[all[i].made]
  <2>1. CASE i \in 1 .. k
    <3>1. all[i].made \in DOMAIN want /\ want[all[i].made] = cs[i].text
      BY <1>3, <1>4, <2>1 DEF ControlsKnown, Ids
    <3>2. QED
      BY <1>a, <1>4, <1>8, <2>1, <3>1
  <2>2. CASE i \in k + 1 .. e
    <3>1. all[i].made \notin DOMAIN want
      BY <1>3, <1>9, <2>2
    <3>2. QED
      BY <1>a, <1>5, <1>8, <2>2, <3>1
  <2>3. QED
    BY <1>6, <2>1, <2>2
<1>12. ASSUME NEW m \in DOMAIN still PROVE still[m] \in DOMAIN all /\ all[still[m]].made = m
  <2>1. m \in DOMAIN have /\ m \in Ids(all) /\ still[m] = have[m]
    BY <1>a
  <2>2. have[m] \in DOMAIN cs /\ cs[have[m]].made = m
    BY <2>1 DEF ControlsKnown
  <2>3. PICK i \in 1 .. e : all[i].made = m
    BY <1>1, <2>1 DEF Ids
  <2>4. m \in Ids(cs)
    BY <2>2 DEF Ids
  <2>5. i \in 1 .. k
    BY <1>6, <1>9, <2>3, <2>4
  <2>6. cs[i].made = m /\ i \in DOMAIN cs
    BY <1>4, <2>3, <2>5
  <2>7. i = have[m]
    <3> DEFINE h == have[m]
    <3>1. h \in 1 .. Len(cs) /\ i \in 1 .. Len(cs) /\ cs[h].made = m /\ cs[i].made = m /\ m \in Nat
      BY <1>1, <1>2, <2>2, <2>6
    <3> HIDE DEF h
    <3>2. ~(i < h) /\ ~(h < i)
      <4>1. \A a, b \in DOMAIN cs : a < b => cs[a].made < cs[b].made
        BY DEF InOrder
      <4>2. /\ i < h => cs[i].made < cs[h].made
            /\ h < i => cs[h].made < cs[i].made
        BY <1>1, <3>1, <4>1
      <4>3. QED
        BY <3>1, <4>2
    <3>3. QED
      BY <1>1, <3>1, <3>2 DEF h
  <2>8. QED
    BY <1>1, <2>1, <2>3, <2>7
<1>13. ControlsKnown(all, new, still)
  BY <1>1, <1>10, <1>11, <1>12 DEF ControlsKnown
<1>14. QED
  BY <1>7, <1>13

\* The guest makes controls, of which some find room, behind the first k.
LEMMA MakesRight ==
    ASSUME ControlsRight, MaxControls \in Nat, NEW k \in 0 .. Len(ctrls), NEW n \in Nat, NEW w \in Nat,
           Makes(n, SubSeq(ctrls, 1, k), w)
    PROVE  /\ ControlsRight' /\ k <= Len(ctrls')
           /\ \A i \in 1 .. k : ctrls'[i] = ctrls[i]
           /\ \A i \in k + 1 .. Len(ctrls') : ctrls'[i].hwnd = w
<1> DEFINE cs == SubSeq(ctrls, 1, k)
           more == Controls(n, w)
           room == MaxControls - k
           j == IF n < room THEN n ELSE room
           part == SubSeq(more, 1, j)
           all == cs \o part
<1>1. ctrls \in Seq(DialogControls) /\ Len(ctrls) \in Nat /\ k \in Nat /\ k <= Len(ctrls) /\ Len(ctrls) <= MaxControls
  BY DEF ControlsRight
<1>2. cs \in Seq(DialogControls) /\ Len(cs) = k /\ \A i \in 1 .. k : cs[i] = ctrls[i]
  BY <1>1, SubSeqProperties
<1>3. nextMade \in Nat
  BY DEF ControlsRight
<1>4. more \in Seq(DialogControls) /\ Len(more) = n
      /\ \A i \in 1 .. n : more[i] = [hwnd |-> w, text |-> NoText, made |-> nextMade + i - 1]
  <2>1. more = [i \in 1 .. n |-> [hwnd |-> w, text |-> NoText, made |-> nextMade + i - 1]]
    BY DEF Controls
  <2>2. \A i \in 1 .. n : [hwnd |-> w, text |-> NoText, made |-> nextMade + i - 1] \in DialogControls
    BY <1>3 DEF DialogControls, Texts
  <2>3. QED
    BY <2>1, <2>2
<1>5. j \in 0 .. n /\ j <= room
  BY <1>1
<1> HIDE DEF cs, more, j
<1>6. part \in Seq(DialogControls) /\ Len(part) = j /\ \A i \in 1 .. j : part[i] = more[i]
  BY <1>4, <1>5, SubSeqProperties
<1> HIDE DEF part
<1>7. all \in Seq(DialogControls) /\ Len(all) = k + j
      /\ (\A i \in 1 .. k : all[i] = cs[i]) /\ \A i \in k + 1 .. k + j : all[i] = part[i - k]
  <2>1. j \in Nat /\ k \in Nat
    BY <1>1, <1>5
  <2>2. all \in Seq(DialogControls) /\ Len(all) = Len(cs) + Len(part)
        /\ \A i \in 1 .. Len(all) : all[i] = IF i <= Len(cs) THEN cs[i] ELSE part[i - Len(cs)]
    BY <1>2, <1>6, ConcatProperties
  <2> HIDE DEF all
  <2>3. QED
    BY <1>2, <1>6, <2>1, <2>2
<1>8. ctrls' = all /\ nextMade' = nextMade + n
      /\ wanted' = [m \in Ids(all) |-> IF m \in DOMAIN wanted THEN wanted[m] ELSE NoText]
      /\ held' = [m \in DOMAIN held \cap DOMAIN wanted' |-> held[m]]
  <2>1. With(cs, more) = all
    BY <1>2, <1>4 DEF With, part, j
  <2>2. With(SubSeq(ctrls, 1, k), Controls(n, w)) = all
    BY <2>1 DEF cs, more
  <2>3. QED
    BY <2>2, Zenon DEF Makes, Ids
<1> HIDE DEF all
<1>9. ASSUME NEW i \in k + 1 .. Len(all)
      PROVE  all[i].hwnd = w /\ all[i].text = NoText /\ all[i].made = nextMade + (i - k) - 1 /\ all[i].made < nextMade + n
  <2>1. i - k \in 1 .. j /\ i - k \in 1 .. n /\ i \in k + 1 .. k + j
    BY <1>1, <1>5, <1>7
  <2>2. all[i] = [hwnd |-> w, text |-> NoText, made |-> nextMade + (i - k) - 1]
    BY <1>4, <1>6, <1>7, <2>1
  <2>3. nextMade + (i - k) - 1 < nextMade + n
    BY <1>3, <2>1
  <2>4. QED
    BY <2>2, <2>3
<1>10. \A i \in 1 .. k : all[i] = ctrls[i]
  BY <1>2, <1>7
<1> DEFINE next == nextMade + n
<1>11. next \in Nat /\ nextMade <= next /\ k <= Len(all) /\ Len(all) <= MaxControls
  BY <1>1, <1>3, <1>5, <1>7
<1> DEFINE want == [m \in Ids(all) |-> IF m \in DOMAIN wanted THEN wanted[m] ELSE NoText]
           have == [m \in DOMAIN held \cap Ids(all) |-> held[m]]
<1>12. InOrder(all, next) /\ ControlsKnown(all, want, have)
  <2>1. \A i \in k + 1 .. Len(all) : all[i].text = NoText /\ all[i].made = nextMade + (i - k) - 1 /\ all[i].made < next
    BY <1>9
  <2>2. InOrder(ctrls, nextMade) /\ ControlsKnown(ctrls, wanted, held)
    BY DEF ControlsRight
  <2> HIDE DEF next
  <2>3. next \in Nat /\ nextMade <= next /\ k <= Len(all)
    BY <1>11
  <2>4. all \in Seq(DialogControls) /\ ctrls \in Seq(DialogControls)
    BY <1>1, <1>7
  <2>5. Refilled(ctrls, nextMade, all, k, next)
    BY <1>10, <2>1, <2>3, <2>4 DEF Refilled
  <2>6. Forgot(all, wanted, held, want, have)
    BY DEF Forgot
  <2> HIDE DEF want, have
  <2>7. QED
    BY <1>3, <2>2, <2>4, <2>5, <2>6, Relisted
<1>13. wanted' = want /\ held' = have
  BY <1>8
<1>14. ControlsRight'
  <2> HIDE DEF want, have, next
  <2>1. nextMade' = next
    BY <1>8 DEF next
  <2>2. QED
    BY <1>7, <1>8, <1>11, <1>12, <1>13, <2>1 DEF ControlsRight
<1>15. QED
  BY <1>8, <1>9, <1>10, <1>11, <1>14

\* The frame's controls come first, the page's follow.
Parted(cs, k, p) ==
    /\ k \in 0 .. Len(cs)
    /\ \A i \in 1 .. k : cs[i].hwnd = 1
    /\ \A i \in k + 1 .. Len(cs) : cs[i].hwnd = p

-----------------------------------------------------------------------------
(* Windows and the dialog.                                                    *)

\* The first window is the frame and the others are its pages, of which the last may
\* be there, or its one late child.
WindowsRight ==
    /\ frameWindows \in Seq(FrameEntries) /\ innerPage \in Nat
    /\ Len(frameWindows) = opened /\ opened <= dialogGuest.windows
    /\ \A w \in DOMAIN frameWindows : frameWindows[w].kind = "frame" <=> w = 1
    /\ \A w \in DOMAIN frameWindows : frameWindows[w].kind = "child" => dialogGuest.late
    /\ kept = {w \in DOMAIN frameWindows : frameWindows[w].alive}
    /\ \A w \in kept : frameWindows[w].kind = "page" => w = innerPage
    /\ innerPage # 1

ControlsPlaced == \E k \in 0 .. Len(ctrls) :
    /\ Parted(ctrls, k, innerPage)
    /\ k > 0 => 1 \in kept
    /\ k < Len(ctrls) => innerPage \in kept /\ frameWindows[innerPage].kind = "page"

PagesRight == WindowsRight /\ ControlsPlaced /\ ControlsRight

\* A program starts without a dialog; while it is active DialogBoxParamW has not
\* returned; a pause is of a dialog that waits or of Show.
DialogRight ==
    /\ dialogs \in Nat /\ dialogs <= 1
    /\ dialogs = 0 => level[Main] = 1 /\ opened = 0 /\ paused = "no" /\ ~dlg.active /\ ~ended
    /\ dlg \in [active : BOOLEAN, hwnd : Nat, ret : Regs]
    /\ IF dlg.active THEN modal = <<1>> /\ dlg.ret = <<Main, 1>> ELSE modal = <<>>
    /\ paused \in {"no", "dialog", "Show"} /\ showPause \in BOOLEAN
    /\ paused = "dialog" => level[Main] = 1
    /\ showPause <=> paused = "Show"
    /\ unheard = FALSE

DialogsInv == dialogGuest \in DialogGuests /\ CallsRight /\ DialogRight /\ PagesRight

\* Only the main thread runs.
LEMMA OnlyMain ==
    ASSUME OneDialog, dialogGuest \in DialogGuests, NEW t, Runs(t)
    PROVE  t = Main /\ paused = "no"
BY MainThread DEF OneDialog, Runs

\* Nothing happened to the windows.
LEMMA PagesKept ==
    ASSUME PagesRight, UNCHANGED pageVars, dialogGuest' = dialogGuest
    PROVE  PagesRight' /\ opened' = opened
BY DEF PagesRight, pageVars, WindowsRight, ControlsPlaced, Parted, ControlsRight, InOrder, ControlsKnown, Ids

\* Nor to the dialog, once there is one or where the program has not begun.
LEMMA DialogKept ==
    ASSUME DialogRight, UNCHANGED <<dialogs, dlg, ended, modal, unheard, showPause, paused>>,
           dialogs # 0 \/ UNCHANGED <<level, opened>>,
           paused = "dialog" => level'[Main] = level[Main]
    PROVE  DialogRight'
BY DEF DialogRight

\* There is no window before the first dialog.
LEMMA DialogFirst ==
    ASSUME DialogRight, WindowsRight, NEW w \in DOMAIN frameWindows
    PROVE  dialogs # 0
<1>1. Len(frameWindows) # 0
  BY DEF WindowsRight
<1>2. QED
  BY <1>1 DEF DialogRight, WindowsRight

LEMMA StepSend ==
    ASSUME OneDialog, DialogsInv, NEW t, NEW w \in DOMAIN frameWindows, SendMessage(t, w)
    PROVE  DialogsInv'
<1>1. t = Main /\ paused = "no" /\ frameWindows[w].alive
  BY OnlyMain DEF DialogsInv, SendMessage
<1>2. UNCHANGED <<pageVars, dlg, paused, showPause, dialogGuest, dialogs, modal, ended, unheard>>
  BY DEF SendMessage
<1>3. CASE Armed(t)
  <2>1. callstack' = Append(callstack, Frame(Main)) /\ Enter(Main, "SENDMSG")
    BY <1>1, <1>3 DEF Armed
  <2>2. CallsRight'
    BY <1>2, <2>1, EntersRight DEF DialogsInv
  <2>3. DialogRight'
    BY <1>1, <1>2, DialogFirst, DialogKept DEF DialogsInv, PagesRight
  <2>4. QED
    BY <1>2, <2>2, <2>3, PagesKept DEF DialogsInv
<1>4. CASE UNCHANGED callVars
  <2>1. CallsRight'
    BY <1>2, <1>4, CallsKept DEF DialogsInv
  <2>2. DialogRight'
    BY <1>1, <1>2, DialogFirst, DialogKept DEF DialogsInv, PagesRight
  <2>3. QED
    BY <1>2, <2>1, <2>2, PagesKept DEF DialogsInv
<1>5. QED
  BY <1>3, <1>4 DEF SendMessage

LEMMA StepReturn ==
    ASSUME OneDialog, DialogsInv, NEW t, ProcReturns(t)
    PROVE  DialogsInv'
<1>1. t = Main /\ paused = "no" /\ ProcReturns(Main)
  BY OnlyMain DEF DialogsInv, ProcReturns
<1>2. /\ CallsRight' /\ UNCHANGED <<pageVars, nsdPage, dlg, showPause, dialogGuest, dialogs, modal, ended, unheard>>
      /\ level[Main] # 1
      /\ UNCHANGED paused \/ (paused' = "dialog" /\ level'[Main] = 1)
  BY <1>1, ReturnsRight DEF DialogsInv
<1>3. PagesRight' /\ opened' = opened
  BY <1>2, PagesKept DEF DialogsInv
<1>4. DialogRight'
  BY <1>1, <1>2, <1>3 DEF DialogsInv, DialogRight
<1>5. QED
  BY <1>2, <1>3, <1>4 DEF DialogsInv

\* What makes a dialog wait or go on leaves its windows alone.
LEMMA StepShow ==
    ASSUME OneDialog, DialogsInv, NEW t, NsShow(t)
    PROVE  DialogsInv'
<1>1. UNCHANGED <<pageVars, callVars, dlg, dialogGuest, dialogs, modal, ended, unheard>>
      /\ paused' = "Show" /\ showPause' = TRUE /\ dlg.active
  BY DEF NsShow
<1>2. CallsRight' /\ level'[Main] = level[Main]
  BY <1>1, CallsKept DEF DialogsInv
<1>3. PagesRight' /\ opened' = opened
  BY <1>1, PagesKept DEF DialogsInv
<1>4. DialogRight'
  BY <1>1, <1>2, <1>3 DEF DialogsInv, DialogRight
<1>5. QED
  BY <1>1, <1>2, <1>3, <1>4 DEF DialogsInv

LEMMA StepTap ==
    ASSUME OneDialog, DialogsInv, Tap
    PROVE  DialogsInv'
<1>1. UNCHANGED <<pageVars, dlg, dialogGuest, dialogs, modal, ended>> /\ paused # "no"
  BY DEF Tap
<1>2. PagesRight' /\ opened' = opened
  BY <1>1, PagesKept DEF DialogsInv
<1>3. CASE showPause
  <2>1. paused = "Show"
    BY <1>3 DEF DialogsInv, DialogRight
  <2>2. UNCHANGED callVars /\ showPause' = FALSE /\ paused' = "no" /\ unheard' = unheard
    BY <1>3, <2>1 DEF Tap, PauseOver, DialogsInv, DialogRight
  <2>3. CallsRight' /\ level'[Main] = level[Main]
    BY <1>1, <2>2, CallsKept DEF DialogsInv
  <2>4. DialogRight'
    BY <1>1, <1>2, <2>1, <2>2, <2>3 DEF DialogsInv, DialogRight
  <2>5. QED
    BY <1>1, <1>2, <2>3, <2>4 DEF DialogsInv
<1>4. CASE ~showPause
  <2>1. paused' = "no" /\ Enter(Main, "DLG") /\ UNCHANGED <<callstack, showPause, unheard>> /\ dlg.active
    BY <1>4 DEF Tap
  <2>2. paused = "dialog" /\ level[Main] = 1
    BY <1>1, <1>4 DEF DialogsInv, DialogRight
  <2>3. CallsRight'
    BY <1>1, <2>1, <2>2, EntersRight DEF DialogsInv
  <2>4. DialogRight'
    BY <1>1, <1>2, <1>4, <2>1 DEF DialogsInv, DialogRight
  <2>5. QED
    BY <1>1, <1>2, <2>3, <2>4 DEF DialogsInv
<1>5. QED
  BY <1>3, <1>4

LEMMA StepEnd ==
    ASSUME OneDialog, DialogsInv, NEW t, EndDialog(t)
    PROVE  DialogsInv'
<1>1. t = Main /\ paused = "no" /\ EndDialog(Main)
  BY OnlyMain DEF DialogsInv, EndDialog
<1>2. dlg.active /\ modal = <<1>> /\ dlg.ret = <<Main, 1>>
  BY <1>1 DEF EndDialog, DialogsInv, DialogRight
<1>3. Last(modal) = 1 /\ Front(modal) = <<>>
  BY <1>2 DEF Last, Front
<1>4. /\ cpu' = [cpu EXCEPT ![Main].on = Main, ![Main].level = 1]
      /\ callstack' = <<>> /\ level' = [level EXCEPT ![Main] = 1] /\ modal' = <<>> /\ ended' = TRUE
      /\ dlg' = [dlg EXCEPT !.active = FALSE]
      /\ UNCHANGED <<stack, pageVars, paused, showPause, dialogGuest, dialogs, unheard>>
  <2>1. dlg.ret[1] = Main /\ dlg.ret[2] = 1
    BY <1>2
  <2>2. QED
    BY <1>1, <1>2, <1>3, <2>1 DEF EndDialog
<1>5. CallsRight'
  <2> DEFINE one == 1
             c == cpu[Main]
             at == [c EXCEPT !.on = Main, !.level = one]
  <2>1. CallShape /\ c \in CpuPlaces /\ cpu \in [Threads -> CpuPlaces] /\ level \in [Threads -> Nat]
        /\ stack[Main] \in Seq(StackCalls)
    BY MainThread DEF DialogsInv, CallsRight, CallShape
  <2>2. cpu' = [cpu EXCEPT ![Main] = at]
    BY <1>4, <2>1, MainThread DEF CpuPlaces
  <2>3. at \in CpuPlaces /\ at.on = Main /\ at.level = one
    <3> HIDE DEF c
    <3>1. one \in Nat /\ Main \in Nat
      BY MainThread
    <3> HIDE DEF one
    <3>2. QED
      BY <2>1, <3>1 DEF CpuPlaces
  <2> HIDE DEF at
  <2>4. cpu'[Main] = at /\ cpu' \in [Threads -> CpuPlaces] /\ level'[Main] = 1 /\ level' \in [Threads -> Nat]
    BY <1>4, <2>1, <2>2, <2>3, MainThread
  <2>5. CallShape'
    BY <1>4, <2>1, <2>4 DEF CallShape
  <2>6. stack'[Main] = stack[Main] /\ 1 <= Len(stack[Main]) /\ stack[Main][1].trap = "exit"
    <3>1. stack' = stack
      BY <1>4
    <3>2. 1 <= level[Main] /\ level[Main] <= Len(stack[Main]) /\ level[Main] \in Nat /\ Len(stack[Main]) \in Nat
      BY <2>1, MainThread DEF DialogsInv, CallsRight, AtLevel
    <3>3. QED
      BY <3>1, <3>2 DEF DialogsInv, CallsRight, CallsTrapped
  <2>7. AtLevel'
    BY <2>3, <2>4, <2>6 DEF AtLevel
  <2>8. CallsTrapped(level'[Main], stack'[Main]) /\ FramesRight(level'[Main], stack'[Main], callstack')
    BY <1>4, <2>4, <2>6 DEF CallsTrapped, FramesRight, Below
  <2>9. QED
    BY <1>4, <2>5, <2>7, <2>8 DEF CallsRight
<1>6. PagesRight' /\ opened' = opened
  BY <1>4, PagesKept DEF DialogsInv
<1>7. DialogRight'
  <2>1. dlg' \in [active : BOOLEAN, hwnd : Nat, ret : Regs] /\ dlg'.active = FALSE
    BY <1>4 DEF DialogsInv, DialogRight
  <2>2. dialogs # 0 /\ dialogs' = dialogs
    BY <1>2, <1>4 DEF DialogsInv, DialogRight
  <2>3. QED
    BY <1>1, <1>4, <2>1, <2>2 DEF DialogsInv, DialogRight
<1>8. QED
  BY <1>4, <1>5, <1>6, <1>7 DEF DialogsInv

-----------------------------------------------------------------------------
(* Windows that come and go.                                                  *)

LEMMA GuestNumbers ==
    ASSUME OneDialog, dialogGuest \in DialogGuests
    PROVE  /\ dialogGuest.windows \in Nat /\ dialogGuest.windows <= MaxFrameWindows /\ MaxFrameWindows \in Nat
           /\ MaxControls \in Nat /\ dialogGuest.dialogs \in Nat /\ dialogGuest.dialogs <= 1
           /\ (dialogGuest.late => dialogGuest.windows <= 2) /\ ~dialogGuest.others /\ ~dialogGuest.quits
BY DialogsAssumption DEF OneDialog, DialogsAssumption

\* The table has room for a window the guest opens.
LEMMA WindowMade ==
    ASSUME OneDialog, DialogsInv, opened < dialogGuest.windows, NEW kind \in FrameKinds, NEW proc \in BOOLEAN
    PROVE  LET w == opened + 1
               ws == Created(frameWindows, kind, proc)
           IN  /\ NewWindow = w /\ opened \in Nat /\ DOMAIN frameWindows = 1 .. opened
               /\ ws \in Seq(FrameEntries) /\ Len(ws) = w /\ DOMAIN ws = 1 .. w
               /\ ws[w].alive = TRUE /\ ws[w].kind = kind
               /\ \A x \in 1 .. opened : ws[x] = frameWindows[x]
<1> DEFINE w == opened + 1
           e == [alive |-> TRUE, proc |-> proc, kind |-> kind]
           ws == Append(frameWindows, e)
<1>1. frameWindows \in Seq(FrameEntries) /\ Len(frameWindows) = opened /\ opened \in Nat
  BY DEF DialogsInv, PagesRight, WindowsRight
<1>2. Len(frameWindows) < MaxFrameWindows
  BY <1>1, GuestNumbers DEF DialogsInv
<1>3. NewWindow = w /\ Created(frameWindows, kind, proc) = ws
  BY <1>1, <1>2 DEF NewWindow, Created
<1>4. e \in FrameEntries /\ e.alive = TRUE /\ e.kind = kind
  BY DEF FrameEntries
<1> HIDE DEF e
<1>5. ws \in Seq(FrameEntries) /\ Len(ws) = w /\ DOMAIN ws = 1 .. w /\ ws[w] = e
      /\ \A x \in 1 .. opened : ws[x] = frameWindows[x]
  BY <1>1, <1>4, AppendProperties
<1>6. QED
  BY <1>1, <1>3, <1>4, <1>5

\* A window is destroyed.
LEMMA WindowGone ==
    ASSUME NEW ws \in Seq(FrameEntries), NEW w
    PROVE  LET new == Destroyed(ws, w)
           IN  /\ new \in Seq(FrameEntries) /\ Len(new) = Len(ws) /\ DOMAIN new = DOMAIN ws
               /\ \A x \in DOMAIN ws : new[x].kind = ws[x].kind /\ (new[x].alive <=> ws[x].alive /\ x # w)
<1> DEFINE new == Destroyed(ws, w)
           n == Len(ws)
           gone(x) == [ws[x] EXCEPT !.alive = FALSE]
<1>1. n \in Nat /\ DOMAIN ws = 1 .. n /\ \A x \in 1 .. n : ws[x] \in FrameEntries
  OBVIOUS
<1>2. \A x \in 1 .. n : gone(x) \in FrameEntries /\ gone(x).alive = FALSE /\ gone(x).kind = ws[x].kind
  BY <1>1 DEF FrameEntries
<1> HIDE DEF gone
<1>3. new = [x \in 1 .. n |-> IF x = w THEN gone(x) ELSE ws[x]]
  BY <1>1 DEF Destroyed, gone
<1> HIDE DEF new
<1>4. new \in Seq(FrameEntries) /\ Len(new) = n /\ DOMAIN new = 1 .. n
  <2>1. \A x \in 1 .. n : (IF x = w THEN gone(x) ELSE ws[x]) \in FrameEntries
    BY <1>1, <1>2
  <2>2. QED
    BY <1>1, <1>3, <2>1
<1>5. ASSUME NEW x \in 1 .. n PROVE new[x].kind = ws[x].kind /\ (new[x].alive <=> ws[x].alive /\ x # w)
  <2>1. CASE x = w
    BY <1>2, <1>3, <2>1
  <2>2. CASE x # w
    BY <1>1, <1>3, <2>2
  <2>3. QED
    BY <2>1, <2>2
<1>6. QED
  BY <1>1, <1>4, <1>5 DEF new

\* The frame is the first window.
LEMMA FrameFirst ==
    ASSUME WindowsRight, NEW f \in Frames
    PROVE  f = 1 /\ 1 \in kept /\ 1 \in DOMAIN frameWindows /\ frameWindows[1].kind = "frame"
BY DEF WindowsRight, Frames

LEMMA PageMade ==
    ASSUME OneDialog, DialogsInv, NEW t, NEW n \in Nat, NEW called \in BOOLEAN, NewPage(t, n, called),
           UNCHANGED <<dlg, paused, showPause, dialogGuest, dialogs, modal, ended, unheard>>
    PROVE  DialogsInv'
<1> DEFINE w == opened + 1
           old == RetiredPage(w)
           ws == Created(frameWindows, "page", called)
           cs == Without(Without(ctrls, old), w)
<1>1. t = Main /\ paused = "no" /\ opened < dialogGuest.windows /\ Frames # {}
  BY OnlyMain DEF DialogsInv, NewPage
<1>2. /\ NewWindow = w /\ opened \in Nat /\ DOMAIN frameWindows = 1 .. opened
      /\ ws \in Seq(FrameEntries) /\ Len(ws) = w /\ DOMAIN ws = 1 .. w
      /\ ws[w].alive = TRUE /\ ws[w].kind = "page"
      /\ \A x \in 1 .. opened : ws[x] = frameWindows[x]
  BY <1>1, WindowMade DEF FrameKinds
<1>3. /\ opened' = w /\ frameWindows' = Destroyed(ws, old) /\ Makes(n, cs, w) /\ innerPage' = w
      /\ kept' = ((kept \ Inner(frameWindows)) \union {w}) \ {0}
      /\ Armed(t) \/ UNCHANGED callVars
  BY <1>2 DEF NewPage
<1> HIDE DEF ws
<1>4. 1 \in kept /\ 1 \in 1 .. opened /\ frameWindows[1].kind = "frame" /\ w # 1 /\ w \in Nat /\ w # 0 /\ w \notin 1 .. opened
  <2>1. PICK f \in Frames : TRUE
    BY <1>1
  <2>2. 1 \in kept /\ 1 \in 1 .. opened /\ frameWindows[1].kind = "frame"
    BY <1>2, <2>1, FrameFirst DEF DialogsInv, PagesRight
  <2>3. QED
    BY <1>2, <2>2
<1>5. /\ \A x \in 1 .. opened : frameWindows[x].kind \in FrameKinds /\ (frameWindows[x].kind = "frame" <=> x = 1)
      /\ \A x \in 1 .. opened : frameWindows[x].kind = "child" => dialogGuest.late
      /\ \A x \in kept : frameWindows[x].kind = "page" => x = innerPage
      /\ kept = {x \in 1 .. opened : frameWindows[x].alive} /\ innerPage # 1 /\ innerPage \in Nat
  <2>1. \A x \in 1 .. opened : frameWindows[x] \in FrameEntries
    BY <1>2 DEF DialogsInv, PagesRight, WindowsRight
  <2>2. \A x \in 1 .. opened : frameWindows[x].kind \in FrameKinds
    BY <2>1 DEF FrameEntries
  <2>3. QED
    BY <1>2, <2>2 DEF DialogsInv, PagesRight, WindowsRight
<1>6. \A x \in 1 .. opened : x = 1 \/ frameWindows[x].kind = "page"
  <2> SUFFICES ASSUME NEW x \in 1 .. opened, x # 1, frameWindows[x].kind # "page" PROVE FALSE
    OBVIOUS
  <2>1. frameWindows[x].kind = "child"
    BY <1>5 DEF FrameKinds
  <2>2. opened < 2
    BY <1>1, <1>2, <1>5, <2>1, GuestNumbers DEF DialogsInv
  <2>3. QED
    BY <1>2, <2>2
<1>7. \A x \in kept : x # 1 => x = old
  <2>1. \A x \in kept : x # 1 => x = innerPage /\ x # 0 /\ x # w
    BY <1>4, <1>5, <1>6
  <2>2. QED
    BY <2>1 DEF RetiredPage
<1>8. old # 1 /\ old # w
  BY <1>4, <1>5 DEF RetiredPage
<1>9. PICK k \in 0 .. Len(ctrls) :
          /\ Parted(ctrls, k, innerPage)
          /\ k > 0 => 1 \in kept
          /\ k < Len(ctrls) => innerPage \in kept
  BY DEF DialogsInv, PagesRight, ControlsPlaced
<1>10. ctrls \in Seq(DialogControls) /\ Len(ctrls) \in Nat /\ k \in Nat /\ k <= Len(ctrls)
  BY <1>9 DEF DialogsInv, PagesRight, ControlsRight
<1>11. cs = SubSeq(ctrls, 1, k)
  <2> DEFINE s == SubSeq(ctrls, 1, k)
  <2>1. \A i \in k + 1 .. Len(ctrls) : ctrls[i].hwnd = old
    <3>1. k < Len(ctrls) => innerPage = old
      BY <1>5, <1>7, <1>9
    <3>2. QED
      BY <1>9, <1>10, <3>1 DEF Parted
  <2>2. \A i \in 1 .. k : ctrls[i].hwnd = 1
    BY <1>9 DEF Parted
  <2> HIDE DEF old, w
  <2>3. Without(ctrls, old) = s
    BY <1>8, <1>10, <2>1, <2>2, WithoutSuffix
  <2>4. s \in Seq(DialogControls) /\ Len(s) = k /\ \A i \in 1 .. k : s[i] = ctrls[i]
    BY <1>10, SubSeqProperties
  <2> HIDE DEF s
  <2>5. k \in 0 .. Len(s) /\ (\A i \in 1 .. k : s[i].hwnd # w) /\ \A i \in k + 1 .. Len(s) : s[i].hwnd = w
    BY <1>4, <1>10, <2>2, <2>4
  <2>6. Without(s, w) = SubSeq(s, 1, k)
    BY <2>4, <2>5, WithoutSuffix
  <2>7. SubSeq(s, 1, k) = s
    BY <2>4, SubSeqFull
  <2>8. QED
    BY <2>3, <2>6, <2>7 DEF s
<1>12. /\ ControlsRight' /\ k <= Len(ctrls')
       /\ \A i \in 1 .. k : ctrls'[i] = ctrls[i]
       /\ \A i \in k + 1 .. Len(ctrls') : ctrls'[i].hwnd = w
  <2>1. Makes(n, SubSeq(ctrls, 1, k), w)
    BY <1>3, <1>11
  <2>2. ControlsRight /\ MaxControls \in Nat
    BY GuestNumbers DEF DialogsInv, PagesRight
  <2> HIDE DEF w
  <2>3. QED
    BY <1>4, <1>9, <2>1, <2>2, MakesRight
<1> DEFINE new == Destroyed(ws, old)
<1>13. /\ new \in Seq(FrameEntries) /\ Len(new) = w /\ DOMAIN new = 1 .. w
       /\ \A x \in 1 .. w : new[x].kind = ws[x].kind /\ (new[x].alive <=> ws[x].alive /\ x # old)
  BY <1>2, WindowGone
<1> HIDE DEF new, old, cs
<1>14. frameWindows' = new /\ innerPage' = w
  BY <1>3 DEF new, old
<1>15. /\ new[w].alive /\ new[w].kind = "page"
       /\ \A x \in 1 .. opened : /\ new[x].kind = frameWindows[x].kind
                                 /\ new[x].alive <=> frameWindows[x].alive /\ x # old
       /\ \A x \in 1 .. w : x = w \/ x \in 1 .. opened
  <2>1. w \in 1 .. w /\ \A x \in 1 .. opened : x \in 1 .. w
    BY <1>2
  <2>2. QED
    BY <1>2, <1>8, <1>13, <2>1
<1>16. kept' = {x \in 1 .. w : new[x].alive} /\ 1 \in kept' /\ w \in kept'
  <2>1. kept \ Inner(frameWindows) = {1}
    BY <1>2, <1>4, <1>5, <1>6 DEF Inner
  <2>2. kept' = {1, w}
    BY <1>3, <1>4, <2>1
  <2>3. \A x \in 1 .. opened : new[x].alive <=> x = 1
    BY <1>4, <1>5, <1>7, <1>8, <1>15
  <2>4. 1 \in 1 .. w /\ w \in 1 .. w
    BY <1>2, <1>4
  <2>5. QED
    BY <1>15, <2>2, <2>3, <2>4, <1>4
<1>17. WindowsRight'
  <2>1. \A x \in DOMAIN new : new[x].kind = "frame" <=> x = 1
    BY <1>4, <1>5, <1>13, <1>15
  <2>2. \A x \in DOMAIN new : new[x].kind = "child" => dialogGuest.late
    BY <1>5, <1>13, <1>15
  <2>3. \A x \in kept' : new[x].kind = "page" => x = w
    BY <1>4, <1>5, <1>6, <1>7, <1>15, <1>16
  <2>4. w <= dialogGuest.windows
    BY <1>1, <1>2, GuestNumbers DEF DialogsInv
  <2> HIDE DEF w
  <2>5. QED
    BY <1>3, <1>4, <1>13, <1>14, <1>16, <2>1, <2>2, <2>3, <2>4 DEF WindowsRight
<1>18. ControlsPlaced'
  <2> HIDE DEF w
  <2>1. Parted(ctrls', k, w)
    <3>1. Len(ctrls') \in Nat
      BY <1>12 DEF ControlsRight
    <3>2. k \in 0 .. Len(ctrls')
      BY <1>10, <1>12, <3>1
    <3>3. \A i \in 1 .. k : ctrls'[i].hwnd = 1
      BY <1>9, <1>12 DEF Parted
    <3>4. QED
      BY <1>12, <3>2, <3>3 DEF Parted
  <2>2. k \in 0 .. Len(ctrls')
    BY <2>1 DEF Parted
  <2>3. QED
    BY <1>14, <1>15, <1>16, <2>1, <2>2 DEF ControlsPlaced
<1>19. PagesRight'
  BY <1>12, <1>17, <1>18 DEF PagesRight
<1>20. CallsRight'
  <2>1. CASE Armed(t)
    BY <1>1, <2>1, EntersRight DEF DialogsInv, Armed
  <2>2. CASE UNCHANGED callVars
    BY <2>2, CallsKept DEF DialogsInv
  <2>3. QED
    BY <1>3, <2>1, <2>2
<1>21. DialogRight'
  <2>1. dialogs # 0
    BY <1>2, <1>4, DialogFirst DEF DialogsInv, PagesRight
  <2>2. QED
    BY <1>1, <2>1, DialogKept DEF DialogsInv
<1>22. QED
  BY <1>19, <1>20, <1>21 DEF DialogsInv

LEMMA StepPage ==
    ASSUME OneDialog, DialogsInv, NEW t, NEW n \in 1 .. 2, CreateDialogParam(t, n) \/ NsCreate(t)
    PROVE  DialogsInv'
<1>1. CASE CreateDialogParam(t, n)
  <2>1. NewPage(t, n, TRUE) /\ UNCHANGED restVars
    BY <1>1 DEF CreateDialogParam
  <2>2. n \in Nat /\ UNCHANGED <<dlg, paused, showPause, dialogGuest, dialogs, modal, ended, unheard>>
    BY <2>1 DEF restVars
  <2>3. QED
    BY <2>1, <2>2, PageMade
<1>2. CASE NsCreate(t)
  <2> DEFINE none == 0
  <2>1. none \in Nat /\ NewPage(t, none, FALSE) /\ UNCHANGED <<dlg, paused, showPause, dialogGuest, dialogs, modal, ended, unheard>>
    BY <1>2 DEF NsCreate
  <2> HIDE DEF none
  <2>2. QED
    BY <2>1, PageMade
<1>3. QED
  BY <1>1, <1>2

\* Steps that do not touch calls or the dialog.
LEMMA OnlyWindows ==
    ASSUME DialogsInv, UNCHANGED callVars, UNCHANGED restVars, PagesRight', dialogs # 0 \/ opened' = opened
    PROVE  DialogsInv'
<1>1. UNCHANGED <<dialogs, dlg, ended, modal, unheard, showPause, paused, dialogGuest>> /\ level' = level
  BY DEF restVars, callVars
<1>2. CallsRight'
  BY <1>1, CallsKept DEF DialogsInv
<1>3. DialogRight'
  BY <1>1, DialogKept DEF DialogsInv
<1>4. QED
  BY <1>1, <1>2, <1>3 DEF DialogsInv

LEMMA StepCreateFrame ==
    ASSUME OneDialog, DialogsInv, NEW t, CreateFrame(t)
    PROVE  DialogsInv'
<1> DEFINE w == opened + 1
           ws == Created(frameWindows, "child", FALSE)
<1>1. opened < dialogGuest.windows /\ opened' = opened + 1 /\ UNCHANGED <<innerPage, callVars, restVars>>
      /\ kept' = (kept \union {NewWindow}) \ {0}
  BY DEF CreateFrame
<1>2. PICK f \in Frames : dialogGuest.late /\ Makes(1, ctrls, f) /\ frameWindows' = ws
  BY GuestNumbers DEF CreateFrame, DialogsInv
<1>3. f = 1 /\ 1 \in kept /\ 1 \in DOMAIN frameWindows /\ frameWindows[1].kind = "frame"
  BY FrameFirst DEF DialogsInv, PagesRight
<1>4. /\ NewWindow = w /\ opened \in Nat /\ DOMAIN frameWindows = 1 .. opened
      /\ ws \in Seq(FrameEntries) /\ Len(ws) = w /\ DOMAIN ws = 1 .. w
      /\ ws[w].alive = TRUE /\ ws[w].kind = "child"
      /\ \A x \in 1 .. opened : ws[x] = frameWindows[x]
  BY <1>1, WindowMade DEF FrameKinds
<1> HIDE DEF ws
<1>5. opened = 1 /\ w = 2
  <2>1. dialogGuest.windows <= 2 /\ dialogGuest.windows \in Nat
    BY <1>2, GuestNumbers DEF DialogsInv
  <2>2. 1 \in 1 .. opened
    BY <1>3, <1>4
  <2>3. QED
    BY <1>1, <1>4, <2>1, <2>2
<1> HIDE DEF w
<1>6. kept = {1} /\ innerPage # 1 /\ kept' = {1, 2} /\ innerPage \in Nat
  <2>1. kept \subseteq 1 .. opened
    BY <1>4 DEF DialogsInv, PagesRight, WindowsRight
  <2>2. \A x \in 1 .. opened : x = 1
    BY <1>5
  <2>3. kept = {1}
    <3>1. \A x \in kept : x = 1
      BY <2>1, <2>2
    <3>2. QED
      BY <1>3, <3>1
  <2>4. QED
    BY <1>1, <1>4, <1>5, <2>3 DEF DialogsInv, PagesRight, WindowsRight
<1>7. ws[1] = frameWindows[1] /\ ws[1].kind = "frame" /\ ws[1].alive /\ ws[2].kind = "child" /\ ws[2].alive
      /\ DOMAIN ws = {1, 2}
  <2>1. frameWindows[1].alive
    BY <1>3 DEF DialogsInv, PagesRight, WindowsRight
  <2>2. 1 \in 1 .. opened /\ 1 .. w = {1, 2}
    BY <1>5
  <2>3. QED
    BY <1>3, <1>4, <1>5, <2>1, <2>2
<1>8. WindowsRight'
  <2>1. kept' = {x \in DOMAIN ws : ws[x].alive}
    BY <1>6, <1>7
  <2>2. 2 <= dialogGuest.windows /\ dialogGuest' = dialogGuest /\ opened' = 2
    BY <1>1, <1>5, GuestNumbers DEF DialogsInv, restVars
  <2>3. innerPage' = innerPage
    BY <1>1
  <2>4. QED
    BY <1>2, <1>4, <1>5, <1>6, <1>7, <2>1, <2>2, <2>3 DEF WindowsRight
<1>9. PICK k \in 0 .. Len(ctrls) : Parted(ctrls, k, innerPage) /\ (k < Len(ctrls) => innerPage \in kept)
  BY DEF DialogsInv, PagesRight, ControlsPlaced
<1>10. ctrls \in Seq(DialogControls) /\ k = Len(ctrls) /\ k \in Nat /\ SubSeq(ctrls, 1, k) = ctrls
  <2>1. ctrls \in Seq(DialogControls) /\ Len(ctrls) \in Nat
    BY DEF DialogsInv, PagesRight, ControlsRight
  <2>2. k = Len(ctrls)
    BY <1>6, <1>9, <2>1
  <2>3. QED
    BY <2>1, <2>2, SubSeqFull
<1> DEFINE one == 1
<1>11. one \in Nat /\ f = one /\ Makes(one, SubSeq(ctrls, 1, k), f)
  BY <1>2, <1>3, <1>10
<1> HIDE DEF one
<1>12. /\ ControlsRight' /\ k <= Len(ctrls')
       /\ \A i \in 1 .. k : ctrls'[i] = ctrls[i]
       /\ \A i \in k + 1 .. Len(ctrls') : ctrls'[i].hwnd = f
  <2>1. ControlsRight /\ MaxControls \in Nat /\ k \in 0 .. Len(ctrls) /\ f \in Nat
    BY <1>9, <1>11, GuestNumbers DEF DialogsInv, PagesRight
  <2>2. QED
    BY <1>11, <2>1, MakesRight
<1>13. ControlsPlaced'
  <2> DEFINE e == Len(ctrls')
  <2>1. e \in Nat /\ e \in 0 .. e /\ ~(e < e)
    BY <1>12 DEF ControlsRight
  <2>2. \A i \in 1 .. k : ctrls'[i].hwnd = 1
    BY <1>9, <1>12 DEF Parted
  <2>3. \A i \in k + 1 .. e : ctrls'[i].hwnd = 1
    BY <1>3, <1>12
  <2> HIDE DEF e
  <2>4. \A i \in 1 .. e : ctrls'[i].hwnd = 1
    <3>1. \A i \in 1 .. e : i \in 1 .. k \/ i \in k + 1 .. e
      BY <1>10, <2>1
    <3>2. QED
      BY <2>2, <2>3, <3>1
  <2>5. Parted(ctrls', e, innerPage')
    BY <2>1, <2>4 DEF Parted, e
  <2>6. 1 \in kept'
    BY <1>6
  <2>7. QED
    BY <2>1, <2>5, <2>6 DEF ControlsPlaced, e
<1>14. dialogs # 0
  BY <1>3, DialogFirst DEF DialogsInv, PagesRight
<1>15. QED
  BY <1>1, <1>8, <1>12, <1>13, <1>14, OnlyWindows DEF PagesRight

\* A window is destroyed with its controls.
LEMMA StepDestroy ==
    ASSUME OneDialog, DialogsInv, NEW t, NEW w, DestroyFrame(t, w)
    PROVE  DialogsInv'
<1> DEFINE ws == Destroyed(frameWindows, w)
<1>1. /\ w \in kept /\ (w \in Frames => Inner(frameWindows) \cap kept = {})
      /\ frameWindows' = ws /\ ctrls' = Without(ctrls, w)
      /\ wanted' = [m \in Ids(ctrls') |-> wanted[m]]
      /\ held' = [m \in DOMAIN held \cap DOMAIN wanted' |-> held[m]]
      /\ kept' = kept \ {w} /\ UNCHANGED <<innerPage, opened, nextMade, callVars, restVars>>
  BY DEF DestroyFrame, Ids
<1>2. /\ frameWindows \in Seq(FrameEntries) /\ innerPage \in Nat /\ kept = {x \in DOMAIN frameWindows : frameWindows[x].alive}
      /\ \A x \in kept : frameWindows[x].kind = "page" => x = innerPage
      /\ \A x \in DOMAIN frameWindows : frameWindows[x].kind = "frame" <=> x = 1
      /\ innerPage # 1
  BY DEF DialogsInv, PagesRight, WindowsRight
<1>3. /\ ws \in Seq(FrameEntries) /\ Len(ws) = Len(frameWindows) /\ DOMAIN ws = DOMAIN frameWindows
      /\ \A x \in DOMAIN frameWindows : ws[x].kind = frameWindows[x].kind /\ (ws[x].alive <=> frameWindows[x].alive /\ x # w)
  BY <1>2, WindowGone
<1> HIDE DEF ws
<1>4. WindowsRight'
  <2>1. kept' = {x \in DOMAIN ws : ws[x].alive}
    BY <1>1, <1>2, <1>3
  <2>2. \A x \in kept' : ws[x].kind = "page" => x = innerPage
    BY <1>1, <1>2, <1>3
  <2>3. dialogGuest' = dialogGuest /\ opened' = opened /\ innerPage' = innerPage
    BY <1>1 DEF restVars
  <2>4. QED
    BY <1>1, <1>3, <2>1, <2>2, <2>3 DEF WindowsRight, DialogsInv, PagesRight
<1>5. PICK k \in 0 .. Len(ctrls) :
          /\ Parted(ctrls, k, innerPage)
          /\ k > 0 => 1 \in kept
          /\ k < Len(ctrls) => innerPage \in kept /\ frameWindows[innerPage].kind = "page"
  BY DEF DialogsInv, PagesRight, ControlsPlaced
<1>6. ctrls \in Seq(DialogControls) /\ Len(ctrls) \in Nat /\ k \in Nat /\ k <= Len(ctrls) /\ Len(ctrls) <= MaxControls
      /\ nextMade \in Nat /\ InOrder(ctrls, nextMade) /\ ControlsKnown(ctrls, wanted, held)
  BY <1>5 DEF DialogsInv, PagesRight, ControlsRight
<1>7. (\A i \in 1 .. k : ctrls[i].hwnd = 1) /\ \A i \in k + 1 .. Len(ctrls) : ctrls[i].hwnd = innerPage
  BY <1>5 DEF Parted
<1>8. \E j \in 0 .. Len(ctrls) :
          /\ \A i \in 1 .. j : ctrls[i].hwnd # w
          /\ \A i \in j + 1 .. Len(ctrls) : ctrls[i].hwnd = w
          /\ j > k => w # innerPage /\ w # 1
          /\ j < k => j = 0
          /\ j > 0 => w # 1
          /\ j = Len(ctrls) \/ j <= k
  <2>1. CASE w = 1
    <3>1. frameWindows[w].kind = "frame" /\ w \in Frames
      BY <1>1, <1>2, <2>1 DEF Frames
    <3>2. ~(k < Len(ctrls))
      <4> SUFFICES ASSUME k < Len(ctrls) PROVE FALSE
        OBVIOUS
      <4>1. innerPage \in Inner(frameWindows) \cap kept
        BY <1>2, <1>5 DEF Inner
      <4>2. QED
        BY <1>1, <3>1, <4>1
    <3> DEFINE j == 0
    <3>3. \A i \in 1 .. Len(ctrls) : ctrls[i].hwnd = w
      BY <1>6, <1>7, <2>1, <3>2
    <3>4. j \in 0 .. Len(ctrls) /\ (\A i \in 1 .. j : FALSE) /\ j + 1 = 1 /\ ~(j > 0) /\ j <= k /\ ~(j > k)
      BY <1>6
    <3>5. QED
      BY <3>3, <3>4
  <2>2. CASE w # 1 /\ w = innerPage
    <3>1. ~(k > k) /\ ~(k < k) /\ k <= k /\ \A i \in 1 .. k : ctrls[i].hwnd # w
      BY <1>6, <1>7, <2>2
    <3>2. QED
      BY <1>7, <2>2, <3>1
  <2>3. CASE w # 1 /\ w # innerPage
    <3> DEFINE j == Len(ctrls)
    <3>1. \A i \in 1 .. j : ctrls[i].hwnd # w
      <4>1. \A i \in 1 .. j : i \in 1 .. k \/ i \in k + 1 .. Len(ctrls)
        BY <1>6
      <4>2. QED
        BY <1>7, <2>3, <4>1
    <3>2. j \in 0 .. Len(ctrls) /\ (\A i \in j + 1 .. Len(ctrls) : FALSE) /\ ~(j < k)
      BY <1>6
    <3>3. QED
      BY <2>3, <3>1, <3>2
  <2>4. QED
    BY <2>1, <2>2, <2>3
<1>9. PICK j \in 0 .. Len(ctrls) :
          /\ \A i \in 1 .. j : ctrls[i].hwnd # w
          /\ \A i \in j + 1 .. Len(ctrls) : ctrls[i].hwnd = w
          /\ j > k => w # innerPage /\ w # 1
          /\ j < k => j = 0
          /\ j > 0 => w # 1
          /\ j = Len(ctrls) \/ j <= k
  BY <1>8
<1>10. ctrls' = SubSeq(ctrls, 1, j)
  BY <1>1, <1>6, <1>9, WithoutSuffix
<1>11. ctrls' \in Seq(DialogControls) /\ Len(ctrls') = j /\ j \in Nat /\ j <= Len(ctrls)
       /\ \A i \in 1 .. j : ctrls'[i] = ctrls[i]
  <2>1. j \in Nat /\ j <= Len(ctrls)
    BY <1>6, <1>9
  <2>2. QED
    BY <1>6, <1>10, <2>1, SubSeqProperties
<1> DEFINE all == ctrls'
           want == wanted'
           still == held'
<1>12. InOrder(all, nextMade) /\ ControlsKnown(all, want, still)
  <2>1. Refilled(ctrls, nextMade, all, j, nextMade)
    BY <1>6, <1>9, <1>11 DEF Refilled
  <2>2. \A m \in Ids(all) : m \in DOMAIN wanted
    <3>1. \A i \in 1 .. j : i \in DOMAIN ctrls /\ all[i].made = ctrls[i].made
      BY <1>6, <1>11
    <3>2. Ids(all) \subseteq Ids(ctrls)
      BY <1>11, <3>1 DEF Ids
    <3>3. QED
      BY <1>6, <3>2 DEF ControlsKnown
  <2>3. want = [m \in Ids(all) |-> IF m \in DOMAIN wanted THEN wanted[m] ELSE NoText]
    BY <1>1, <2>2
  <2>4. still = [m \in DOMAIN held \cap Ids(all) |-> held[m]]
    BY <1>1
  <2> HIDE DEF all, want, still
  <2>5. Forgot(all, wanted, held, want, still)
    BY <2>3, <2>4 DEF Forgot
  <2>6. QED
    BY <1>6, <2>1, <2>5, Relisted
<1>13. ControlsRight'
  <2>1. Len(ctrls') <= MaxControls /\ nextMade' = nextMade
    BY <1>1, <1>6, <1>11, GuestNumbers DEF DialogsInv
  <2>2. QED
    BY <1>6, <1>11, <1>12, <2>1 DEF ControlsRight
<1>14. ControlsPlaced'
  <2>1. innerPage' = innerPage /\ frameWindows' = ws
    BY <1>1
  <2>2. CASE j <= k
    <3>1. j \in 0 .. Len(ctrls') /\ ~(j < Len(ctrls'))
      BY <1>11
    <3>2. Parted(ctrls', j, innerPage')
      <4>1. \A i \in 1 .. j : i \in 1 .. k
        BY <1>6, <1>11, <2>2
      <4>2. \A i \in 1 .. j : ctrls'[i].hwnd = 1
        BY <1>7, <1>11, <4>1
      <4>3. \A i \in j + 1 .. Len(ctrls') : FALSE
        BY <1>11
      <4>4. QED
        BY <3>1, <4>2, <4>3 DEF Parted
    <3>3. j > 0 => 1 \in kept'
      <4>1. j > 0 => k > 0
        BY <1>6, <1>11, <2>2
      <4>2. QED
        BY <1>1, <1>5, <1>9, <4>1
    <3>4. QED
      BY <3>1, <3>2, <3>3 DEF ControlsPlaced
  <2>3. CASE ~(j <= k)
    <3>1. j = Len(ctrls) /\ w # innerPage /\ w # 1 /\ k <= j
      BY <1>6, <1>9, <1>11, <2>3
    <3>2. k \in 0 .. Len(ctrls') /\ Len(ctrls') = Len(ctrls)
      BY <1>6, <1>11, <3>1
    <3>3. Parted(ctrls', k, innerPage')
      <4>1. \A i \in 1 .. k : ctrls'[i].hwnd = 1
        BY <1>6, <1>7, <1>11, <3>1
      <4>2. \A i \in k + 1 .. Len(ctrls') : ctrls'[i].hwnd = innerPage
        BY <1>6, <1>7, <1>11, <3>1, <3>2
      <4>3. QED
        BY <2>1, <3>2, <4>1, <4>2 DEF Parted
    <3>4. k > 0 => 1 \in kept'
      BY <1>1, <1>5, <3>1
    <3>5. k < Len(ctrls') => innerPage \in kept' /\ ws[innerPage].kind = "page"
      BY <1>1, <1>2, <1>3, <1>5, <3>1, <3>2
    <3>6. QED
      BY <2>1, <3>2, <3>3, <3>4, <3>5 DEF ControlsPlaced
  <2>4. QED
    BY <2>2, <2>3
<1>15. QED
  BY <1>1, <1>4, <1>13, <1>14, OnlyWindows DEF PagesRight

-----------------------------------------------------------------------------
(* Controls.                                                                  *)

LEMMA StepNsCreateControl ==
    ASSUME OneDialog, DialogsInv, NEW t, NsCreateControl(t)
    PROVE  DialogsInv'
<1> DEFINE n == Len(ctrls)
           c == [hwnd |-> nsdPage, text |-> NoText, made |-> nextMade]
           all == Append(ctrls, c)
           next == nextMade + 1
           want == [m \in DOMAIN wanted \union {nextMade} |-> IF m = nextMade THEN NoText ELSE wanted[m]]
           have == [m \in DOMAIN held \union {nextMade} |-> IF m = nextMade THEN n + 1 ELSE held[m]]
<1>1. /\ nsdPage \in kept \cap Inner(frameWindows) /\ n < MaxControls
      /\ ctrls' = With(ctrls, Controls(1, nsdPage)) /\ nextMade' = next /\ wanted' = want /\ held' = have
      /\ UNCHANGED <<frameWindows, opened, innerPage, kept, callVars, restVars>>
  BY DEF NsCreateControl
<1>2. ctrls \in Seq(DialogControls) /\ n \in Nat /\ DOMAIN ctrls = 1 .. n /\ n <= MaxControls /\ nextMade \in Nat
      /\ InOrder(ctrls, nextMade) /\ ControlsKnown(ctrls, wanted, held) /\ MaxControls \in Nat
  BY GuestNumbers DEF DialogsInv, PagesRight, ControlsRight
<1>3. nsdPage = innerPage /\ nsdPage \in DOMAIN frameWindows /\ frameWindows[nsdPage].kind = "page" /\ nsdPage \in Nat
      /\ nsdPage \in kept
  <2>1. nsdPage \in DOMAIN frameWindows /\ frameWindows[nsdPage].kind = "page" /\ nsdPage \in kept
    BY <1>1 DEF Inner
  <2>2. QED
    BY <2>1 DEF DialogsInv, PagesRight, WindowsRight
<1>4. c \in DialogControls /\ c.hwnd = nsdPage /\ c.text = NoText /\ c.made = nextMade
  BY <1>2, <1>3 DEF DialogControls, Texts
<1>5. ctrls' = all
  <2> DEFINE one == Controls(1, nsdPage)
  <2>1. one = <<c>>
    <3>1. one = [i \in 1 .. 1 |-> [hwnd |-> nsdPage, text |-> NoText, made |-> nextMade + i - 1]]
      BY DEF Controls
    <3>2. \A i \in 1 .. 1 : nextMade + i - 1 = nextMade
      BY <1>2
    <3>3. QED
      BY <3>1, <3>2
  <2> HIDE DEF one, c
  <2>2. Len(one) = 1 /\ one \in Seq(DialogControls) /\ one[1] = c
    BY <1>4, <2>1
  <2> DEFINE room == MaxControls - n
             j == IF Len(one) < room THEN Len(one) ELSE room
  <2>3. j = 1
    BY <1>1, <1>2, <2>2
  <2>4. With(ctrls, one) = ctrls \o SubSeq(one, 1, j)
    BY DEF With
  <2> HIDE DEF j
  <2>5. SubSeq(one, 1, j) = one
    BY <2>2, <2>3, SubSeqFull
  <2>6. ctrls \o <<c>> = all
    BY <1>2, <1>4
  <2>7. QED
    BY <1>1, <2>1, <2>4, <2>5, <2>6 DEF one
<1> HIDE DEF c
<1>6. all \in Seq(DialogControls) /\ Len(all) = n + 1 /\ all[n + 1] = c /\ \A i \in 1 .. n : all[i] = ctrls[i]
  BY <1>2, <1>4, AppendProperties
<1> HIDE DEF all
<1>7. DOMAIN all = 1 .. n + 1 /\ \A i \in 1 .. n + 1 : i = n + 1 \/ i \in 1 .. n
  BY <1>2, <1>6
<1>8. \A i \in 1 .. n : ctrls[i].made < nextMade /\ ctrls[i].made \in Nat
  <2>1. \A i \in 1 .. n : ctrls[i] \in DialogControls
    BY <1>2
  <2>2. \A i \in 1 .. n : ctrls[i].made < nextMade
    BY <1>2 DEF InOrder
  <2>3. QED
    BY <2>1, <2>2 DEF DialogControls
<1>9. InOrder(all, next)
  <2>1. ASSUME NEW i \in 1 .. n + 1, NEW j \in 1 .. n + 1, i < j PROVE all[i].made < all[j].made
    <3>1. i \in 1 .. n
      BY <1>2, <2>1
    <3>2. CASE j = n + 1
      BY <1>4, <1>6, <1>8, <3>1, <3>2
    <3>3. CASE j \in 1 .. n
      <4>1. ctrls[i].made < ctrls[j].made
        BY <1>2, <2>1, <3>1, <3>3 DEF InOrder
      <4>2. QED
        BY <1>6, <3>1, <3>3, <4>1
    <3>4. QED
      BY <1>7, <3>2, <3>3
  <2>2. ASSUME NEW i \in 1 .. n + 1 PROVE all[i].made < next
    <3>1. CASE i = n + 1
      BY <1>2, <1>4, <1>6, <3>1
    <3>2. CASE i \in 1 .. n
      <4>1. ctrls[i].made < nextMade /\ ctrls[i].made \in Nat /\ all[i] = ctrls[i]
        BY <1>6, <1>8, <3>2
      <4>2. QED
        BY <1>2, <4>1
    <3>3. QED
      BY <1>7, <3>1, <3>2
  <2>3. QED
    BY <1>7, <2>1, <2>2 DEF InOrder
<1>10. ControlsKnown(all, want, have)
  <2>1. Ids(all) = Ids(ctrls) \union {nextMade} /\ DOMAIN wanted = Ids(ctrls) /\ nextMade \notin Ids(ctrls)
    <3>1. \A i \in 1 .. n : all[i].made = ctrls[i].made /\ i \in 1 .. n + 1
      BY <1>2, <1>6
    <3>2. all[n + 1].made = nextMade /\ n + 1 \in 1 .. n + 1
      BY <1>2, <1>4, <1>6
    <3>3. Ids(all) = Ids(ctrls) \union {nextMade}
      BY <1>2, <1>7, <3>1, <3>2 DEF Ids
    <3>4. \A i \in 1 .. n : ctrls[i].made # nextMade
      BY <1>2, <1>8
    <3>5. QED
      BY <1>2, <3>3, <3>4 DEF ControlsKnown, Ids
  <2>2. want \in [Ids(all) -> Texts]
    <3>1. \A m \in Ids(ctrls) : wanted[m] \in Texts
      BY <1>2 DEF ControlsKnown
    <3>2. NoText \in Texts
      BY DEF Texts
    <3>3. QED
      BY <2>1, <3>1, <3>2
  <2>3. ASSUME NEW i \in 1 .. n + 1 PROVE all[i].text = want[all[i].made]
    <3>1. CASE i = n + 1
      BY <1>4, <1>6, <3>1
    <3>2. CASE i \in 1 .. n
      <4>1. all[i] = ctrls[i] /\ ctrls[i].text = wanted[ctrls[i].made] /\ ctrls[i].made \in Ids(ctrls)
        BY <1>2, <1>6, <3>2 DEF ControlsKnown, Ids
      <4>2. ctrls[i].made # nextMade
        BY <2>1, <4>1
      <4>3. QED
        BY <2>1, <4>1, <4>2
    <3>3. QED
      BY <1>7, <3>1, <3>2
  <2>4. ASSUME NEW m \in DOMAIN have PROVE have[m] \in DOMAIN all /\ all[have[m]].made = m
    <3>1. CASE m = nextMade
      <4>1. have[m] = n + 1 /\ n + 1 \in 1 .. n + 1
        BY <1>2, <3>1
      <4>2. QED
        BY <1>4, <1>6, <1>7, <3>1, <4>1
    <3>2. CASE m # nextMade
      <4>1. m \in DOMAIN held /\ have[m] = held[m]
        BY <2>4, <3>2
      <4>2. held[m] \in 1 .. n /\ ctrls[held[m]].made = m
        BY <1>2, <4>1 DEF ControlsKnown
      <4>3. QED
        BY <1>6, <1>7, <4>1, <4>2
    <3>3. QED
      BY <3>1, <3>2
  <2> HIDE DEF want, have
  <2>5. QED
    BY <1>7, <2>2, <2>3, <2>4 DEF ControlsKnown
<1>11. ControlsRight'
  <2>1. next \in Nat /\ n + 1 <= MaxControls
    BY <1>1, <1>2
  <2> HIDE DEF want, have, next, n
  <2>2. QED
    BY <1>1, <1>5, <1>6, <1>9, <1>10, <2>1 DEF ControlsRight
<1>12. ControlsPlaced'
  <2>1. PICK k \in 0 .. Len(ctrls) :
          /\ Parted(ctrls, k, innerPage)
          /\ k > 0 => 1 \in kept
    BY DEF DialogsInv, PagesRight, ControlsPlaced
  <2>2. k \in 0 .. n + 1 /\ k <= n /\ k \in Nat
    BY <1>2, <2>1
  <2>3. Parted(all, k, innerPage)
    <3>1. \A i \in 1 .. k : all[i].hwnd = 1
      BY <1>2, <1>6, <2>1, <2>2 DEF Parted
    <3>2. ASSUME NEW i \in k + 1 .. n + 1 PROVE all[i].hwnd = innerPage
      <4>1. CASE i = n + 1
        BY <1>3, <1>4, <1>6, <4>1
      <4>2. CASE i # n + 1
        <5>1. i \in k + 1 .. n /\ i \in 1 .. n
          BY <1>2, <2>2, <4>2
        <5>2. QED
          BY <1>6, <2>1, <5>1 DEF Parted
      <4>3. QED
        BY <4>1, <4>2
    <3>3. QED
      BY <1>6, <2>2, <3>1, <3>2 DEF Parted
  <2>4. QED
    BY <1>1, <1>3, <1>5, <1>6, <2>1, <2>2, <2>3 DEF ControlsPlaced
<1>13. WindowsRight'
  BY <1>1 DEF DialogsInv, PagesRight, WindowsRight, restVars
<1>14. QED
  BY <1>1, <1>11, <1>12, <1>13, OnlyWindows DEF PagesRight

LEMMA StepGetDlgItem ==
    ASSUME OneDialog, DialogsInv, NEW t, NEW i \in DOMAIN ctrls, GetDlgItem(t, i)
    PROVE  DialogsInv'
<1> DEFINE id == ctrls[i].made
           have == [m \in DOMAIN held \union {id} |-> IF m = id THEN i ELSE held[m]]
<1>1. held' = have /\ UNCHANGED <<frameWindows, opened, ctrls, innerPage, nextMade, wanted, kept, callVars, restVars>>
  BY DEF GetDlgItem
<1>2. ControlsKnown(ctrls, wanted, held)
  BY DEF DialogsInv, PagesRight, ControlsRight
<1>3. \A m \in DOMAIN have : have[m] \in DOMAIN ctrls /\ ctrls[have[m]].made = m
  BY <1>2 DEF ControlsKnown
<1> HIDE DEF have
<1>4. ControlsKnown(ctrls, wanted, have)
  BY <1>2, <1>3 DEF ControlsKnown
<1>5. ControlsRight'
  BY <1>1, <1>4 DEF DialogsInv, PagesRight, ControlsRight, InOrder, ControlsKnown, Ids
<1>6. WindowsRight' /\ ControlsPlaced'
  BY <1>1 DEF DialogsInv, PagesRight, WindowsRight, ControlsPlaced, Parted, restVars
<1>7. QED
  BY <1>1, <1>5, <1>6, OnlyWindows DEF PagesRight

LEMMA StepSetText ==
    ASSUME OneDialog, DialogsInv, NEW t, NEW m \in DOMAIN held, NEW text \in Texts, SetText(t, m, text)
    PROVE  DialogsInv'
<1> DEFINE h == held[m]
           said(i) == [ctrls[i] EXCEPT !.text = text]
           all == [i \in DOMAIN ctrls |-> IF i = h THEN said(i) ELSE ctrls[i]]
           want == [wanted EXCEPT ![m] = text]
           n == Len(ctrls)
<1>1. ctrls' = all /\ wanted' = want
      /\ UNCHANGED <<frameWindows, opened, innerPage, nextMade, held, kept, callVars, restVars>>
  BY DEF SetText
<1>2. ctrls \in Seq(DialogControls) /\ n \in Nat /\ DOMAIN ctrls = 1 .. n /\ nextMade \in Nat /\ n <= MaxControls
      /\ InOrder(ctrls, nextMade) /\ ControlsKnown(ctrls, wanted, held)
  BY DEF DialogsInv, PagesRight, ControlsRight
<1>3. h \in 1 .. n /\ ctrls[h].made = m
  BY <1>2 DEF ControlsKnown
<1>4. \A i \in 1 .. n : ctrls[i] \in DialogControls /\ said(i) \in DialogControls /\ said(i).text = text
                        /\ said(i).made = ctrls[i].made /\ said(i).hwnd = ctrls[i].hwnd
  <2>1. \A i \in 1 .. n : ctrls[i] \in DialogControls
    BY <1>2
  <2>2. QED
    BY <2>1 DEF DialogControls
<1> HIDE DEF said, h
<1>5. all \in Seq(DialogControls) /\ Len(all) = n /\ DOMAIN all = 1 .. n
  <2>1. \A i \in 1 .. n : (IF i = h THEN said(i) ELSE ctrls[i]) \in DialogControls
    BY <1>4
  <2>2. QED
    BY <1>2, <2>1
<1>6. \A i \in 1 .. n : /\ all[i].made = ctrls[i].made /\ all[i].hwnd = ctrls[i].hwnd
                        /\ i = h => all[i].text = text
                        /\ i # h => all[i].text = ctrls[i].text
  BY <1>2, <1>4
<1> HIDE DEF all
<1>7. InOrder(all, nextMade)
  <2>1. \A i, j \in 1 .. n : i < j => ctrls[i].made < ctrls[j].made
    BY <1>2 DEF InOrder
  <2>2. \A i \in 1 .. n : ctrls[i].made < nextMade
    BY <1>2 DEF InOrder
  <2>3. QED
    BY <1>5, <1>6, <2>1, <2>2 DEF InOrder
<1>8. Ids(all) = Ids(ctrls) /\ m \in Ids(ctrls) /\ wanted \in [Ids(ctrls) -> Texts]
  <2>1. Ids(all) = Ids(ctrls)
    BY <1>2, <1>5, <1>6 DEF Ids
  <2>2. m \in Ids(ctrls)
    BY <1>2, <1>3 DEF Ids
  <2>3. QED
    BY <1>2, <2>1, <2>2 DEF ControlsKnown
<1>9. want \in [Ids(all) -> Texts] /\ want[m] = text /\ \A x \in Ids(ctrls) : x # m => want[x] = wanted[x]
  BY <1>8
<1> HIDE DEF want
<1>10. ASSUME NEW i \in 1 .. n PROVE all[i].text = want[all[i].made]
  <2>1. CASE i = h
    BY <1>3, <1>6, <1>9, <2>1
  <2>2. CASE i # h
    <3>1. ctrls[i].made # m
      <4>1. \A x, y \in 1 .. n : x < y => ctrls[x].made < ctrls[y].made
        BY <1>2 DEF InOrder
      <4>2. ctrls[i].made \in Nat /\ ctrls[h].made \in Nat
        BY <1>3, <1>4 DEF DialogControls
      <4>3. (i < h => ctrls[i].made < ctrls[h].made) /\ (h < i => ctrls[h].made < ctrls[i].made)
        BY <1>3, <4>1
      <4>4. i < h \/ h < i
        BY <1>2, <1>3, <2>2
      <4>5. QED
        BY <1>3, <4>2, <4>3, <4>4
    <3>2. ctrls[i].made \in Ids(ctrls) /\ ctrls[i].text = wanted[ctrls[i].made]
      BY <1>2 DEF ControlsKnown, Ids
    <3>3. QED
      BY <1>6, <1>9, <2>2, <3>1, <3>2
  <2>3. QED
    BY <2>1, <2>2
<1>11. \A x \in DOMAIN held : held[x] \in DOMAIN all /\ all[held[x]].made = x
  BY <1>2, <1>5, <1>6 DEF ControlsKnown
<1>12. ControlsKnown(all, want, held)
  BY <1>5, <1>9, <1>10, <1>11 DEF ControlsKnown
<1>13. ControlsRight'
  BY <1>1, <1>2, <1>5, <1>7, <1>12 DEF ControlsRight
<1>14. ControlsPlaced'
  <2>1. PICK k \in 0 .. n :
          /\ Parted(ctrls, k, innerPage)
          /\ k > 0 => 1 \in kept
          /\ k < n => innerPage \in kept /\ frameWindows[innerPage].kind = "page"
    BY DEF DialogsInv, PagesRight, ControlsPlaced
  <2>2. (\A i \in 1 .. k : i \in 1 .. n) /\ \A i \in k + 1 .. n : i \in 1 .. n
    BY <1>2
  <2>3. Parted(all, k, innerPage)
    BY <1>5, <1>6, <2>1, <2>2 DEF Parted
  <2>4. QED
    BY <1>1, <1>5, <2>1, <2>3 DEF ControlsPlaced
<1>15. WindowsRight'
  BY <1>1 DEF DialogsInv, PagesRight, WindowsRight, restVars
<1>16. QED
  BY <1>1, <1>13, <1>14, <1>15, OnlyWindows DEF PagesRight

-----------------------------------------------------------------------------
(* A dialog opens; a program is loaded.                                       *)

LEMMA StepDialogBox ==
    ASSUME OneDialog, DialogsInv, NEW t, NEW n \in Nat, DialogBox(t, n)
    PROVE  DialogsInv'
<1> DEFINE w == opened + 1
           ws == Created(frameWindows, "frame", FALSE)
<1>1. /\ Runs(t) /\ dialogs < dialogGuest.dialogs /\ opened < dialogGuest.windows /\ opened' = w
      /\ frameWindows' = ws /\ Makes(n, ctrls, NewWindow) /\ kept' = (kept \union {NewWindow}) \ {0}
      /\ dlg' = [active |-> TRUE, hwnd |-> NewWindow, ret |-> Here(t)] /\ dialogs' = dialogs + 1
      /\ modal' = Append(modal, level[t]) /\ Enter(t, "DLG")
      /\ UNCHANGED <<innerPage, callstack, paused, showPause, dialogGuest, ended, unheard>>
  BY DEF DialogBox
<1>2. t = Main /\ paused = "no"
  BY <1>1, OnlyMain DEF DialogsInv
<1>3. dialogs = 0 /\ level[Main] = 1 /\ opened = 0 /\ ~dlg.active /\ ~ended /\ modal = <<>> /\ dialogs \in Nat
  <2>1. dialogs = 0 /\ dialogs \in Nat
    BY <1>1, GuestNumbers DEF DialogsInv, DialogRight
  <2>2. QED
    BY <2>1 DEF DialogsInv, DialogRight
<1>4. /\ NewWindow = w /\ DOMAIN frameWindows = 1 .. opened
      /\ ws \in Seq(FrameEntries) /\ Len(ws) = w /\ DOMAIN ws = 1 .. w
      /\ ws[w].alive = TRUE /\ ws[w].kind = "frame"
  BY <1>1, WindowMade DEF FrameKinds
<1> HIDE DEF ws
<1>5. w = 1 /\ kept = {} /\ innerPage # 1 /\ innerPage \in Nat
  <2>1. w = 1 /\ 1 .. opened = {}
    BY <1>3
  <2>2. QED
    BY <1>4, <2>1 DEF DialogsInv, PagesRight, WindowsRight
<1> HIDE DEF w
<1>6. DOMAIN ws = {1} /\ ws[1].alive /\ ws[1].kind = "frame" /\ kept' = {1}
  <2>1. 1 .. w = {1}
    BY <1>5
  <2>2. QED
    BY <1>1, <1>4, <1>5, <2>1
<1>7. WindowsRight'
  <2>1. kept' = {x \in DOMAIN ws : ws[x].alive}
    BY <1>6
  <2>2. 1 <= dialogGuest.windows
    BY <1>1, <1>3, GuestNumbers DEF DialogsInv
  <2>3. QED
    BY <1>1, <1>4, <1>5, <1>6, <2>1, <2>2 DEF WindowsRight
<1>8. ctrls \in Seq(DialogControls) /\ Len(ctrls) = 0 /\ SubSeq(ctrls, 1, Len(ctrls)) = ctrls
  <2>1. ctrls \in Seq(DialogControls) /\ Len(ctrls) \in Nat
    BY DEF DialogsInv, PagesRight, ControlsRight
  <2>2. PICK k \in 0 .. Len(ctrls) :
          /\ k > 0 => 1 \in kept
          /\ k < Len(ctrls) => innerPage \in kept
    BY DEF DialogsInv, PagesRight, ControlsPlaced
  <2>3. Len(ctrls) = 0
    BY <1>5, <2>1, <2>2
  <2>4. QED
    BY <2>1, <2>3, SubSeqFull
<1> DEFINE none == Len(ctrls)
<1>9. none \in 0 .. Len(ctrls) /\ none = 0 /\ Makes(n, SubSeq(ctrls, 1, none), w) /\ w \in Nat
  <2>1. none \in 0 .. Len(ctrls) /\ none = 0
    BY <1>8
  <2>2. SubSeq(ctrls, 1, none) = ctrls
    BY <1>8
  <2>3. Makes(n, ctrls, w)
    BY <1>1, <1>4
  <2>4. w \in Nat
    BY <1>5
  <2> HIDE DEF none
  <2>5. Makes(n, SubSeq(ctrls, 1, none), w)
    BY <2>2, <2>3
  <2>6. QED
    BY <2>1, <2>4, <2>5
<1> HIDE DEF none
<1>10. ControlsRight' /\ \A i \in none + 1 .. Len(ctrls') : ctrls'[i].hwnd = w
  <2>1. ControlsRight /\ MaxControls \in Nat
    BY GuestNumbers DEF DialogsInv, PagesRight
  <2>2. QED
    BY <1>9, <2>1, MakesRight
<1>11. ControlsPlaced'
  <2> DEFINE e == Len(ctrls')
  <2>1. e \in Nat /\ e \in 0 .. e /\ ~(e < e) /\ none + 1 = 1 /\ \A i \in e + 1 .. e : FALSE
    BY <1>9, <1>10 DEF ControlsRight
  <2>2. Parted(ctrls', e, innerPage')
    BY <1>5, <1>10, <2>1 DEF Parted
  <2>3. QED
    BY <1>6, <2>1, <2>2 DEF ControlsPlaced
<1>12. CallsRight'
  BY <1>1, <1>2, <1>3, EntersRight DEF DialogsInv
<1>13. DialogRight'
  <2>1. Here(t) = <<Main, 1>> /\ Here(t) \in Regs
    <3>1. Here(Main) = <<Main, level[Main]>>
      BY FrameOfMain DEF DialogsInv
    <3>2. QED
      BY <1>2, <1>3, <3>1, MainThread DEF Regs
  <2>2. modal' = <<1>>
    BY <1>1, <1>2, <1>3
  <2>3. dlg' \in [active : BOOLEAN, hwnd : Nat, ret : Regs] /\ dlg'.active /\ dlg'.ret = <<Main, 1>>
    BY <1>1, <1>4, <1>9, <2>1
  <2>4. dialogs' = 1 /\ UNCHANGED <<paused, showPause, unheard>> /\ paused = "no"
    BY <1>1, <1>2, <1>3
  <2>5. paused' \in {"no", "dialog", "Show"} /\ showPause' \in BOOLEAN /\ (showPause' <=> paused' = "Show")
        /\ unheard' = FALSE
    BY <2>4 DEF DialogsInv, DialogRight
  <2>6. paused' # "dialog" /\ dialogs' # 0 /\ dialogs' \in Nat /\ dialogs' <= 1
    BY <2>4
  <2>7. IF dlg'.active THEN modal' = <<1>> /\ dlg'.ret = <<Main, 1>> ELSE modal' = <<>>
    BY <2>2, <2>3
  <2>8. QED
    BY <2>3, <2>5, <2>6, <2>7 DEF DialogRight
<1>14. QED
  BY <1>1, <1>7, <1>10, <1>11, <1>12, <1>13 DEF DialogsInv, PagesRight

\* What a program starts with.
Fresh ==
    /\ frameWindows = <<>> /\ ctrls = <<>> /\ dlg = NoDialog /\ callstack = <<>>
    /\ cpu = AtStart /\ stack = Bottom /\ level = [t \in Threads |-> 1]
    /\ paused = "no" /\ dialogs = 0 /\ opened = 0 /\ nextMade = 1
    /\ modal = <<>> /\ ended = FALSE /\ held = None /\ wanted = None /\ kept = {}

LEMMA FreshRight ==
    ASSUME OneDialog, Fresh, dialogGuest \in DialogGuests, innerPage \in Nat, innerPage # 1,
           showPause = FALSE, unheard = FALSE
    PROVE  DialogsInv
<1>1. CallsRight
  <2>1. \A t \in Threads : /\ t \in Nat /\ <<t, 0>> \in Regs /\ <<t, 1>> \in Regs
                           /\ [on |-> t, level |-> 1, regs |-> <<t, 1>>] \in CpuPlaces
                           /\ << [trap |-> "exit", entry |-> <<t, 0>>] >> \in Seq(StackCalls)
    BY DEF Threads, Regs, CpuPlaces, StackCalls
  <2>2. cpu \in [Threads -> CpuPlaces] /\ stack \in [Threads -> Seq(StackCalls)] /\ level \in [Threads -> Nat]
    BY <2>1 DEF Fresh, AtStart, Bottom
  <2>3. cpu[Main] = [on |-> Main, level |-> 1, regs |-> <<Main, 1>>] /\ level[Main] = 1
        /\ stack[Main] = << [trap |-> "exit", entry |-> <<Main, 0>>] >>
    BY MainThread DEF Fresh, AtStart, Bottom
  <2>4. Len(stack[Main]) = 1 /\ stack[Main][1].trap = "exit" /\ cpu[Main].on = Main /\ cpu[Main].level = 1
        /\ cpu[Main].regs = <<Main, 1>>
    BY <2>3
  <2>5. CallShape /\ AtLevel
    BY <2>2, <2>3, <2>4 DEF CallShape, AtLevel, Fresh
  <2>6. CallsTrapped(1, stack[Main]) /\ FramesRight(1, stack[Main], callstack) /\ RegsRight(1, stack[Main], callstack, cpu[Main].regs)
    BY <2>4 DEF CallsTrapped, FramesRight, RegsRight, Below, Fresh
  <2>7. QED
    BY <2>3, <2>5, <2>6 DEF CallsRight
<1>2. DialogRight
  <2>1. level[Main] = 1
    BY MainThread DEF Fresh
  <2>2. dlg \in [active : BOOLEAN, hwnd : Nat, ret : Regs] /\ ~dlg.active
    BY DEF Fresh, NoDialog, Regs
  <2>3. dialogs = 0 /\ opened = 0 /\ paused = "no" /\ ~ended /\ modal = <<>>
    BY DEF Fresh
  <2>4. dialogs \in Nat /\ dialogs <= 1 /\ paused \in {"no", "dialog", "Show"} /\ paused # "dialog" /\ paused # "Show"
    BY <2>3
  <2>5. showPause \in BOOLEAN /\ ~showPause
    OBVIOUS
  <2>6. showPause <=> paused = "Show"
    BY <2>4, <2>5
  <2>7. IF dlg.active THEN modal = <<1>> /\ dlg.ret = <<Main, 1>> ELSE modal = <<>>
    BY <2>2, <2>3
  <2>8. QED
    BY <2>1, <2>2, <2>3, <2>4, <2>5, <2>6, <2>7 DEF DialogRight
<1>3. WindowsRight
  BY GuestNumbers DEF WindowsRight, Fresh
<1>4. ControlsPlaced /\ ControlsRight
  <2>1. ctrls = <<>> /\ Len(ctrls) = 0 /\ DOMAIN ctrls = {} /\ ctrls \in Seq(DialogControls)
    BY DEF Fresh
  <2>2. Ids(ctrls) = {} /\ DOMAIN held = {} /\ wanted \in [{} -> Texts]
    BY <2>1 DEF Ids, Fresh, None
  <2>3. InOrder(ctrls, nextMade) /\ ControlsKnown(ctrls, wanted, held)
    BY <2>1, <2>2 DEF InOrder, ControlsKnown
  <2>4. Parted(ctrls, 0, innerPage) /\ 0 \in 0 .. Len(ctrls)
    BY <2>1 DEF Parted
  <2>5. ControlsPlaced
    BY <2>1, <2>4 DEF ControlsPlaced
  <2>6. 0 <= MaxControls /\ nextMade \in Nat
    BY GuestNumbers DEF Fresh
  <2>7. QED
    BY <2>1, <2>3, <2>5, <2>6 DEF ControlsRight
<1>5. QED
  BY <1>1, <1>2, <1>3, <1>4 DEF DialogsInv, PagesRight

LEMMA StepReload ==
    ASSUME OneDialog, DialogsInv, ReloadDialogs
    PROVE  DialogsInv'
<1>1. Fresh' /\ UNCHANGED <<innerPage, showPause, dialogGuest, unheard>>
  BY DEF ReloadDialogs, Fresh
<1>2. paused = "no" /\ ~showPause /\ showPause \in BOOLEAN /\ unheard = FALSE
  <2>1. paused = "no"
    BY GuestNumbers DEF ReloadDialogs, DialogsInv
  <2>2. QED
    BY <2>1 DEF DialogsInv, DialogRight
<1>3. innerPage \in Nat /\ innerPage # 1 /\ dialogGuest \in DialogGuests
  BY DEF DialogsInv, PagesRight, WindowsRight
<1>4. dialogGuest' \in DialogGuests /\ innerPage' \in Nat /\ innerPage' # 1 /\ showPause' = FALSE /\ unheard' = FALSE
  BY <1>1, <1>2, <1>3
<1>5. (dialogGuest \in DialogGuests /\ innerPage \in Nat /\ innerPage # 1 /\ showPause = FALSE /\ unheard = FALSE /\ Fresh
         => DialogsInv)'
  BY FreshRight, PTL
<1>6. QED
  BY <1>1, <1>4, <1>5

-----------------------------------------------------------------------------
(* What holds of the dialogs.                                                 *)

LEMMA DialogsStart == ASSUME OneDialog, DialogsInit PROVE DialogsInv
<1>1. Fresh /\ innerPage = 0 /\ dialogGuest \in DialogGuests /\ showPause = FALSE /\ unheard = FALSE
  BY DEF DialogsInit, Fresh
<1>2. innerPage \in Nat /\ innerPage # 1
  BY <1>1
<1>3. QED
  BY <1>1, <1>2, FreshRight

LEMMA DialogsStep == ASSUME OneDialog, DialogsInv, [DialogsNext]_dialogVars PROVE DialogsInv'
<1>1. CASE Tap
  BY <1>1, StepTap
<1>2. CASE ReloadDialogs
  BY <1>2, StepReload
<1>3. CASE UNCHANGED dialogVars
  <2>1. UNCHANGED <<frameWindows, ctrls, innerPage, nsdPage, dlg, callstack, cpu, stack, paused, showPause,
                    dialogGuest, reloads, dialogs, opened, nextMade, level, modal, ended, held, wanted, kept, unheard>>
    BY <1>3 DEF dialogVars
  <2>2. CallsRight'
    BY <2>1, CallsKept DEF DialogsInv, callVars
  <2>3. PagesRight'
    BY <2>1, PagesKept DEF DialogsInv, pageVars
  <2>4. DialogRight'
    BY <2>1, DialogKept DEF DialogsInv
  <2>5. QED
    BY <2>1, <2>2, <2>3, <2>4 DEF DialogsInv
<1>4. ASSUME NEW t \in Threads, NEW w, SendMessage(t, w) \/ DestroyFrame(t, w), w \in DOMAIN frameWindows PROVE DialogsInv'
  BY <1>4, StepSend, StepDestroy
<1>5. ASSUME NEW t \in Threads, NEW n \in 1 .. 2, CreateDialogParam(t, n) \/ DialogBox(t, n) PROVE DialogsInv'
  BY <1>5, StepPage, StepDialogBox
<1>6. ASSUME NEW t \in Threads, NEW i \in DOMAIN ctrls, GetDlgItem(t, i) PROVE DialogsInv'
  BY <1>6, StepGetDlgItem
<1>7. ASSUME NEW t \in Threads, NEW m \in DOMAIN held, SetText(t, m, "C:") PROVE DialogsInv'
  <2>1. "C:" \in Texts
    BY DEF Texts
  <2>2. QED
    BY <1>7, <2>1, StepSetText
<1>8. ASSUME NEW t \in Threads,
             ProcReturns(t) \/ NsCreate(t) \/ NsCreateControl(t) \/ NsShow(t) \/ CreateFrame(t) \/ EndDialog(t)
      PROVE  DialogsInv'
  <2>1. CASE ProcReturns(t)
    BY <2>1, StepReturn
  <2>2. CASE NsCreate(t)
    <3>1. 1 \in 1 .. 2
      OBVIOUS
    <3>2. QED
      BY <2>2, <3>1, StepPage
  <2>3. CASE NsCreateControl(t)
    BY <2>3, StepNsCreateControl
  <2>4. CASE NsShow(t)
    BY <2>4, StepShow
  <2>5. CASE CreateFrame(t)
    BY <2>5, StepCreateFrame
  <2>6. CASE EndDialog(t)
    BY <2>6, StepEnd
  <2>7. QED
    BY <1>8, <2>1, <2>2, <2>3, <2>4, <2>5, <2>6
<1>9. QED
  BY <1>1, <1>2, <1>3, <1>4, <1>5, <1>6, <1>7, <1>8 DEF DialogsNext

LEMMA DialogsHold == ASSUME OneDialog, DialogsInv PROVE DialogsConsistent
<1>1. CallersResume
  <2>1. \A t \in dialogGuest.threads : t = Main
    BY MainThread DEF OneDialog, DialogsInv
  <2>2. cpu[Main].on = Main /\ cpu[Main].level = level[Main]
    BY DEF DialogsInv, CallsRight, AtLevel
  <2>3. ended \/ cpu[Main].regs = Here(Main)
    BY <2>2 DEF DialogsInv, CallsRight, RegsRight, Here
  <2>4. QED
    BY <2>1, <2>2, <2>3 DEF CallersResume
<1>2. ControlHandlesLead
  BY DEF ControlHandlesLead, DialogsInv, PagesRight, ControlsRight, ControlsKnown
<1>3. PagesGiveWay
  <2>1. kept = {w \in DOMAIN frameWindows : frameWindows[w].alive}
    BY DEF DialogsInv, PagesRight, WindowsRight
  <2>2. ASSUME NEW i \in DOMAIN ctrls PROVE ctrls[i].hwnd \in kept
    <3>1. PICK k \in 0 .. Len(ctrls) :
            /\ Parted(ctrls, k, innerPage)
            /\ k > 0 => 1 \in kept
            /\ k < Len(ctrls) => innerPage \in kept
      BY DEF DialogsInv, PagesRight, ControlsPlaced
    <3>2. i \in Nat /\ 1 <= i /\ i <= Len(ctrls) /\ Len(ctrls) \in Nat
      BY DEF DialogsInv, PagesRight, ControlsRight
    <3>3. CASE i <= k
      <4>1. i \in 1 .. k /\ k > 0
        BY <3>2, <3>3
      <4>2. QED
        BY <3>1, <4>1 DEF Parted
    <3>4. CASE i > k
      <4>1. i \in k + 1 .. Len(ctrls) /\ k < Len(ctrls)
        BY <3>2, <3>4
      <4>2. QED
        BY <3>1, <4>1 DEF Parted
    <3>5. QED
      BY <3>1, <3>2, <3>3, <3>4
  <2>3. QED
    BY <2>1, <2>2 DEF PagesGiveWay
<1>4. TapsHeard
  BY DEF TapsHeard, DialogsInv, DialogRight
<1>5. QED
  BY <1>1, <1>2, <1>3, <1>4 DEF DialogsConsistent

\* For guests with one dialog, however many messages, pages and controls it makes and
\* however many programs follow each other: a procedure returns to the place it was
\* called from with its caller's registers, the handle of a control leads to it with
\* the text it was given, a page goes with its controls when the next one comes, and
\* no tap is lost (wg_engine.c:1351-1695, 3770-3805, 5413-5660).
THEOREM DialogsStayConsistent == ASSUME OneDialog PROVE DialogsSpec => []DialogsConsistent
<1>1. DialogsInit => DialogsInv
  BY DialogsStart
<1>2. DialogsInv /\ [DialogsNext]_dialogVars => DialogsInv'
  BY DialogsStep
<1>3. DialogsInv => DialogsConsistent
  BY DialogsHold
<1>4. QED
  BY <1>1, <1>2, <1>3, PTL DEF DialogsSpec

-----------------------------------------------------------------------------
(* Memory.                                                                    *)

USE Heap64Assumption

-----------------------------------------------------------------------------
(* Region 3: the inductive invariant.                                         *)

Used == live64 \cup alloc64

\* The pointer has passed every block; blocks in use are apart, and so are free
\* ones, from each other and from those in use.
TablesApart ==
    /\ IsFiniteSet(alloc64) /\ IsFiniteSet(free64)
    /\ \A b \in Used \cup free64 : b.addr + b.size <= ptr64
    /\ \A b, c \in Used : b # c => ~Overlap(b, c)
    /\ \A b, c \in free64 : b # c => ~Overlap(b, c)
    /\ FreeBlocksUnused

\* A page of which something is promised is committed, and in a block that is in
\* use no other is; where a block can come to lie, nothing is committed.
Backing ==
    /\ \A p \in Page64 : expect[p] # "any" => committed[p]
    /\ \A b \in live64 : \A p \in Pages(b.addr, b.size) : committed[p] => expect[p] # "any"
    /\ \A b \in free64 : \A p \in Pages(b.addr, b.size) : ~committed[p]
    /\ \A p \in Page64 : p >= ptr64 => ~committed[p]

Inv64 == Heap64TypeOK /\ TablesApart /\ Backing /\ ContentsAsPromised

-----------------------------------------------------------------------------
(* Blocks, pages and the pointer.                                             *)

\* The pointer is never moved back when it is aligned.
LEMMA AlignedUp ==
    ASSUME NEW p \in Nat
    PROVE  AlignUp(p) \in Nat /\ AlignUp(p) >= p
<1> DEFINE q == (p + Granule - 1) \div Granule
           r == (p + Granule - 1) % Granule
<1>1. q \in Int /\ r \in 0 .. Granule - 1 /\ p + Granule - 1 = Granule * q + r
  BY Z3
<1>2. Granule * q >= p /\ Granule * q = q * Granule /\ Granule * q \in Int
  <2>1. Granule * q \in Int /\ Granule * q = q * Granule
    BY <1>1, Z3
  <2>2. QED
    BY <1>1, <2>1
<1>3. QED
  BY <1>2 DEF AlignUp

LEMMA BlockPages ==
    ASSUME NEW b \in Blocks64
    PROVE  /\ b.addr \in Nat /\ b.size \in Nat /\ b.size > 0
           /\ Base64 <= b.addr /\ b.addr + b.size <= End64
           /\ Pages(b.addr, b.size) \subseteq Page64
           /\ Overlap(b, b)
BY DEF Blocks64, Page64, Pages, Overlap

\* Blocks that do not overlap have no page in common.
LEMMA PagesApart ==
    ASSUME NEW b \in Blocks64, NEW c \in Blocks64, ~Overlap(b, c)
    PROVE  Pages(b.addr, b.size) \cap Pages(c.addr, c.size) = {}
<1>1. b.addr \in Nat /\ b.size \in Nat /\ c.addr \in Nat /\ c.size \in Nat
  BY BlockPages
<1>2. QED
  BY <1>1 DEF Overlap, Pages

-----------------------------------------------------------------------------
(* What committing and decommitting do to the pages.                          *)

PageTypes ==
    /\ committed \in [Page64 -> BOOLEAN]
    /\ content \in [Page64 -> {"zero", "data"}]
    /\ expect \in [Page64 -> {"any", "zero", "data"}]

ExpectedCommitted == \A p \in Page64 : expect[p] # "any" => committed[p]

\* Committing pages that are uncommitted or promised keeps every promise.
LEMMA CommitKeeps ==
    ASSUME PageTypes, ExpectedCommitted, ContentsAsPromised,
           NEW P \in SUBSET Page64, Commit(P),
           \A p \in P : committed[p] => expect[p] # "any"
    PROVE  /\ PageTypes' /\ ExpectedCommitted' /\ ContentsAsPromised'
           /\ \A p \in Page64 : committed'[p] <=> committed[p] \/ p \in P
           /\ \A p \in Page64 : expect'[p] # "any" <=> expect[p] # "any" \/ p \in P
<1>1. PageTypes'
  BY DEF PageTypes, Commit
<1>2. \A p \in Page64 : committed'[p] <=> committed[p] \/ p \in P
  BY DEF PageTypes, Commit
<1>3. \A p \in Page64 : expect'[p] # "any" <=> expect[p] # "any" \/ p \in P
  BY DEF PageTypes, Commit
<1>4. ExpectedCommitted'
  BY <1>2, <1>3 DEF ExpectedCommitted
<1>5. ContentsAsPromised'
  BY DEF PageTypes, ContentsAsPromised, ExpectedCommitted, Commit
<1>6. QED
  BY <1>1, <1>2, <1>3, <1>4, <1>5

LEMMA UncommitKeeps ==
    ASSUME PageTypes, ExpectedCommitted, ContentsAsPromised,
           NEW P \in SUBSET Page64, Uncommit(P)
    PROVE  /\ PageTypes' /\ ExpectedCommitted' /\ ContentsAsPromised'
           /\ \A p \in Page64 : committed'[p] <=> committed[p] /\ p \notin P
           /\ \A p \in Page64 : expect'[p] # "any" <=> expect[p] # "any" /\ p \notin P
<1>1. PageTypes'
  BY DEF PageTypes, Uncommit
<1>2. \A p \in Page64 : committed'[p] <=> committed[p] /\ p \notin P
  BY DEF PageTypes, Uncommit
<1>3. \A p \in Page64 : expect'[p] # "any" <=> expect[p] # "any" /\ p \notin P
  BY DEF PageTypes, Uncommit
<1>4. ExpectedCommitted'
  BY <1>2, <1>3 DEF ExpectedCommitted
<1>5. ContentsAsPromised'
  BY DEF PageTypes, ContentsAsPromised, Uncommit
<1>6. QED
  BY <1>1, <1>2, <1>3, <1>4, <1>5

-----------------------------------------------------------------------------
(* The steps.                                                                 *)

TableTypes ==
    /\ ptr64 \in Nat /\ Base64 <= ptr64
    /\ alloc64 \subseteq Blocks64 /\ free64 \subseteq Blocks64 /\ live64 \subseteq Blocks64
    /\ Cardinality(alloc64) <= MaxAlloc64 /\ Cardinality(free64) <= MaxAlloc64

LEMMA TypesSplit == Heap64TypeOK <=> TableTypes /\ PageTypes
BY DEF Heap64TypeOK, TableTypes, PageTypes

LEMMA BackingSplit ==
    Backing => /\ ExpectedCommitted
               /\ \A b \in live64 : \A p \in Pages(b.addr, b.size) : committed[p] => expect[p] # "any"
               /\ \A b \in free64 : \A p \in Pages(b.addr, b.size) : ~committed[p]
               /\ \A p \in Page64 : p >= ptr64 => ~committed[p]
BY DEF Backing, ExpectedCommitted

\* The table takes one more allocation, or is full.
LEMMA TrackKeeps ==
    ASSUME IsFiniteSet(alloc64), Cardinality(alloc64) <= MaxAlloc64, NEW b,
           alloc64' = Track(b)
    PROVE  /\ IsFiniteSet(alloc64') /\ Cardinality(alloc64') <= MaxAlloc64
           /\ alloc64' \subseteq alloc64 \cup {b}
<1>1. Cardinality(alloc64) \in Nat
  BY FS_CardinalityType
<1>2. CASE Cardinality(alloc64) < MaxAlloc64
  <2>1. alloc64' = alloc64 \cup {b}
    BY <1>2 DEF Track
  <2>2. IsFiniteSet(alloc64')
    BY <2>1, FS_AddElement, Zenon
  <2>3. Cardinality(alloc64') = IF b \in alloc64 THEN Cardinality(alloc64)
                                                 ELSE Cardinality(alloc64) + 1
    BY <2>1, FS_AddElement, Zenon
  <2>4. Cardinality(alloc64') <= MaxAlloc64
    BY <1>1, <1>2, <2>3
  <2>5. QED
    BY <2>1, <2>2, <2>4
<1>3. CASE ~(Cardinality(alloc64) < MaxAlloc64)
  BY <1>3 DEF Track
<1>4. QED
  BY <1>2, <1>3

\* A table that loses entries stays finite and within its bound.
LEMMA SmallerFree ==
    ASSUME IsFiniteSet(free64), Cardinality(free64) <= MaxAlloc64, free64' \subseteq free64
    PROVE  IsFiniteSet(free64') /\ Cardinality(free64') <= MaxAlloc64
<1>1. IsFiniteSet(free64') /\ Cardinality(free64') <= Cardinality(free64)
  BY FS_Subset
<1>2. Cardinality(free64') \in Nat /\ Cardinality(free64) \in Nat
  BY <1>1, FS_CardinalityType
<1>3. QED
  BY <1>1, <1>2

\* A block that is apart from all others, over pages nothing backs, is handed out.
LEMMA HandKeeps ==
    ASSUME Inv64, NEW b \in Blocks64, NEW commit \in BOOLEAN, Hand(b, commit),
           ptr64' \in Nat, ptr64' >= ptr64, b.addr + b.size <= ptr64',
           free64' \subseteq free64,
           \A c \in Used \cup free64' : ~Overlap(b, c) /\ ~Overlap(c, b),
           \A p \in Pages(b.addr, b.size) : ~committed[p]
    PROVE  Inv64'
<1> DEFINE P == Pages(b.addr, b.size)
<1>0. TableTypes /\ PageTypes /\ TablesApart /\ Backing /\ ContentsAsPromised
  BY TypesSplit DEF Inv64
<1>1. live64' = live64 \cup {b} /\ alloc64' = Track(b)
  BY DEF Hand
<1>2. /\ IsFiniteSet(alloc64') /\ Cardinality(alloc64') <= MaxAlloc64
      /\ alloc64' \subseteq alloc64 \cup {b}
  BY <1>0, <1>1, TrackKeeps DEF TablesApart, TableTypes
<1>3. IsFiniteSet(free64') /\ Cardinality(free64') <= MaxAlloc64
  BY <1>0, SmallerFree DEF TablesApart, TableTypes
<1>4. TableTypes'
  <2>1. Base64 <= ptr64'
    BY <1>0 DEF TableTypes
  <2>2. QED
    BY <1>0, <1>1, <1>2, <1>3, <2>1 DEF TableTypes
<1>5. Used' \subseteq Used \cup {b} /\ live64' \subseteq live64 \cup {b}
  BY <1>1, <1>2 DEF Used
<1>6. TablesApart'
  <2>1. \A c \in Used' \cup free64' : c.addr + c.size <= ptr64'
    <3>1. TAKE c \in Used' \cup free64'
    <3>2. CASE c = b
      BY <3>2
    <3>3. CASE c # b
      <4>1. c \in Used \cup free64 /\ c \in Blocks64
        BY <1>0, <1>5, <3>3 DEF TableTypes, Used
      <4>2. c.addr + c.size <= ptr64 /\ c.addr \in Nat /\ c.size \in Nat /\ ptr64 \in Nat
        BY <1>0, <4>1, BlockPages DEF TablesApart, TableTypes
      <4>3. QED
        BY <4>2
    <3>4. QED
      BY <3>2, <3>3
  <2>2. \A c, d \in Used' : c # d => ~Overlap(c, d)
    BY <1>0, <1>5 DEF TablesApart
  <2>3. \A c, d \in free64' : c # d => ~Overlap(c, d)
    BY <1>0 DEF TablesApart
  <2>4. FreeBlocksUnused'
    BY <1>0, <1>5 DEF TablesApart, FreeBlocksUnused, Used
  <2>5. QED
    BY <1>2, <1>3, <2>1, <2>2, <2>3, <2>4 DEF TablesApart
<1>7. P \subseteq Page64
  BY BlockPages
<1>8. /\ PageTypes' /\ ExpectedCommitted' /\ ContentsAsPromised'
      /\ \A p \in Page64 : committed'[p] => committed[p] \/ p \in P
      /\ \A p \in Page64 : committed'[p] /\ p \in P => expect'[p] # "any"
      /\ \A p \in Page64 : expect[p] # "any" => expect'[p] # "any"
  <2>1. CASE commit
    <3>1. Commit(P)
      BY <2>1 DEF Hand
    <3>2. QED
      BY <1>0, <1>7, <3>1, CommitKeeps, BackingSplit
  <2>2. CASE ~commit
    <3>1. UNCHANGED <<committed, content, expect>>
      BY <2>2 DEF Hand, pages64
    <3>2. QED
      BY <1>0, <3>1, BackingSplit DEF PageTypes, ExpectedCommitted, ContentsAsPromised
  <2>3. QED
    BY <2>1, <2>2
<1>9. Backing'
  <2>1. \A c \in live64' : \A p \in Pages(c.addr, c.size) : committed'[p] => expect'[p] # "any"
    <3>0. TAKE c \in live64'
    <3>1. TAKE p \in Pages(c.addr, c.size)
    <3>2. p \in Page64
      BY <1>4, BlockPages DEF TableTypes
    <3>3. CASE p \in P
      BY <1>8, <3>2, <3>3
    <3>4. CASE p \notin P
      <4>1. c \in live64
        BY <1>5, <3>4
      <4>2. committed[p] => expect[p] # "any"
        BY <1>0, <4>1 DEF Backing
      <4>3. QED
        BY <1>8, <3>2, <3>4, <4>2
    <3>5. QED
      BY <3>3, <3>4
  <2>2. \A c \in free64' : \A p \in Pages(c.addr, c.size) : ~committed'[p]
    <3>0. TAKE c \in free64'
    <3>1. TAKE p \in Pages(c.addr, c.size)
    <3>2. c \in Blocks64 /\ p \in Page64
      BY <1>4, BlockPages DEF TableTypes
    <3>3. p \notin P
      BY <3>2, PagesApart
    <3>4. ~committed[p]
      BY <1>0 DEF Backing
    <3>5. QED
      BY <1>8, <3>2, <3>3, <3>4
  <2>3. \A p \in Page64 : p >= ptr64' => ~committed'[p]
    <3>1. TAKE p \in Page64
    <3>2. HAVE p >= ptr64'
    <3>3. p \notin P
      <4>1. b.addr \in Nat /\ b.size \in Nat
        BY BlockPages
      <4>2. QED
        BY <3>2, <4>1 DEF Page64, Pages
    <3>4. ~committed[p]
      BY <1>0, <3>2 DEF Backing, Page64, TableTypes
    <3>5. QED
      BY <1>8, <3>3, <3>4
  <2>4. QED
    BY <1>8, <2>1, <2>2, <2>3 DEF Backing, ExpectedCommitted
<1>10. QED
  BY <1>4, <1>6, <1>8, <1>9, TypesSplit DEF Inv64, Heap64TypeOK, TableTypes, PageTypes

LEMMA Parts ==
    Inv64 => TableTypes /\ PageTypes /\ TablesApart /\ Backing /\ ContentsAsPromised
BY TypesSplit DEF Inv64

LEMMA ReuseKeeps ==
    ASSUME Inv64, NEW n \in Sizes, NEW commit \in BOOLEAN, Reuse(n, commit)
    PROVE  Inv64'
<1>1. PICK b \in Reusable(n) :
        free64' = free64 \ (Stale(n) \cup {b}) /\ Hand(b, commit) /\ ptr64' = ptr64
  BY DEF Reuse
<1>2. b \in free64 /\ b \in Blocks64
  BY <1>1, Parts DEF Reusable, Exact, TableTypes
<1>3. \A c \in Used \cup free64' : ~Overlap(b, c) /\ ~Overlap(c, b)
  <2>1. \A c \in Used : ~Overlap(b, c)
    BY <1>2, Parts DEF TablesApart, FreeBlocksUnused, Used
  <2>2. \A c \in free64' : ~Overlap(b, c)
    BY <1>1, <1>2, Parts DEF TablesApart
  <2>3. QED
    BY <2>1, <2>2 DEF Overlap
<1>4. \A p \in Pages(b.addr, b.size) : ~committed[p]
  BY <1>2, Parts DEF Backing
<1>5. ptr64' \in Nat /\ ptr64' >= ptr64 /\ b.addr + b.size <= ptr64'
  BY <1>1, <1>2, Parts DEF TableTypes, TablesApart
<1>6. free64' \subseteq free64
  BY <1>1
<1>7. QED
  BY <1>1, <1>2, <1>3, <1>4, <1>5, <1>6, HandKeeps

LEMMA BumpKeeps ==
    ASSUME Inv64, NEW n \in Sizes, NEW commit \in BOOLEAN, Bump(n, commit)
    PROVE  Inv64'
<1> DEFINE a == AlignUp(ptr64)
           b == Block(a, n)
<1>0. TableTypes /\ PageTypes /\ TablesApart /\ Backing /\ ContentsAsPromised
  BY Parts
<1>1. a \in Nat /\ a >= ptr64 /\ ptr64 \in Nat /\ Base64 <= ptr64
  BY <1>0, AlignedUp DEF TableTypes
<1>2. free64' = free64 \ Stale(n)
  BY DEF Bump
<1>3. CASE Fits(n)
  <2>1. ptr64' = a + n /\ Hand(b, commit)
    BY <1>3 DEF Bump
  <2>2. n \in Nat /\ n > 0
    OBVIOUS
  <2>3. b \in Blocks64 /\ b.addr = a /\ b.size = n
    BY <1>1, <1>3, <2>2 DEF Block, Blocks64, Page64, Fits
  <2>4. \A c \in Used \cup free64' : ~Overlap(b, c) /\ ~Overlap(c, b)
    <3>1. TAKE c \in Used \cup free64'
    <3>2. c \in Blocks64 /\ c.addr + c.size <= ptr64
      BY <1>0, <1>2 DEF TableTypes, TablesApart, Used
    <3>3. c.addr \in Nat /\ c.size \in Nat
      BY <3>2, BlockPages
    <3>4. c.addr + c.size <= b.addr
      BY <1>1, <2>3, <3>2, <3>3
    <3>5. QED
      BY <1>1, <2>3, <3>3, <3>4 DEF Overlap
  <2>5. \A p \in Pages(b.addr, b.size) : ~committed[p]
    <3>1. \A p \in Pages(b.addr, b.size) : p \in Page64 /\ p >= ptr64
      BY <1>1, <2>2, <2>3, BlockPages DEF Pages
    <3>2. QED
      BY <1>0, <3>1 DEF Backing
  <2>6. ptr64' \in Nat /\ ptr64' >= ptr64 /\ b.addr + b.size <= ptr64'
    BY <1>1, <2>1, <2>2, <2>3
  <2>7. free64' \subseteq free64
    BY <1>2
  <2> HIDE DEF a, b
  <2>8. QED
    BY <2>1, <2>3, <2>4, <2>5, <2>6, <2>7, HandKeeps
<1>4. CASE ~Fits(n)
  <2>1. ptr64' = a /\ UNCHANGED <<alloc64, live64, pages64>>
    BY <1>4 DEF Bump
  <2>2. UNCHANGED <<alloc64, live64, committed, content, expect>>
    BY <2>1 DEF pages64
  <2>3. ptr64' \in Nat /\ ptr64' >= ptr64
    BY <1>1, <2>1
  <2>4. free64' \subseteq free64
    BY <1>2
  <2> HIDE DEF a
  <2>5. IsFiniteSet(free64') /\ Cardinality(free64') <= MaxAlloc64
    BY <1>0, <2>4, SmallerFree DEF TablesApart, TableTypes
  <2>6. TableTypes'
    BY <1>0, <1>1, <2>2, <2>3, <2>4, <2>5 DEF TableTypes
  <2>7. TablesApart'
    <3>1. \A c \in Used' \cup free64' : c.addr + c.size <= ptr64'
      <4>1. TAKE c \in Used' \cup free64'
      <4>2. c \in Blocks64 /\ c.addr + c.size <= ptr64
        BY <1>0, <2>2, <2>4 DEF TableTypes, TablesApart, Used
      <4>3. c.addr \in Nat /\ c.size \in Nat
        BY <4>2, BlockPages
      <4>4. QED
        BY <1>1, <2>3, <4>2, <4>3
    <3>2. (\A c, d \in Used' : c # d => ~Overlap(c, d)) /\ IsFiniteSet(alloc64')
      BY <1>0, <2>2 DEF TablesApart, Used
    <3>3. (\A c, d \in free64' : c # d => ~Overlap(c, d)) /\ FreeBlocksUnused'
      BY <1>0, <2>2, <2>4 DEF TablesApart, FreeBlocksUnused
    <3>4. QED
      BY <2>5, <3>1, <3>2, <3>3 DEF TablesApart
  <2>8. Backing'
    BY <1>0, <1>1, <2>2, <2>3, <2>4 DEF Backing, Page64
  <2>9. PageTypes' /\ ContentsAsPromised'
    BY <1>0, <2>2 DEF PageTypes, ContentsAsPromised
  <2>10. QED
    BY <2>6, <2>7, <2>8, <2>9 DEF Inv64, Heap64TypeOK, TableTypes, PageTypes
<1>5. QED
  BY <1>3, <1>4

\* Pages of blocks the guest holds are committed or decommitted, or written.
LEMMA PagesKeep ==
    ASSUME Inv64, UNCHANGED tables64, NEW P \in SUBSET Page64,
           PageTypes', ExpectedCommitted', ContentsAsPromised',
           \E b \in live64 : P \subseteq Pages(b.addr, b.size),
           \A p \in Page64 : committed'[p] => committed[p] \/ p \in P,
           \A p \in Page64 : committed'[p] => (expect[p] # "any" \/ p \in P => expect'[p] # "any")
    PROVE  Inv64'
<1>0. TableTypes /\ PageTypes /\ TablesApart /\ Backing /\ ContentsAsPromised
  BY Parts
<1>1. UNCHANGED <<ptr64, alloc64, free64, live64>>
  BY DEF tables64
<1>2. TableTypes' /\ TablesApart'
  BY <1>0, <1>1 DEF TableTypes, TablesApart, Used, FreeBlocksUnused
<1>3. PICK b \in live64 : P \subseteq Pages(b.addr, b.size)
  OBVIOUS
<1>4. b \in Blocks64
  BY <1>0 DEF TableTypes
<1>5. Backing'
  <2>1. \A c \in live64' : \A p \in Pages(c.addr, c.size) : committed'[p] => expect'[p] # "any"
    <3>0. TAKE c \in live64'
    <3>1. TAKE p \in Pages(c.addr, c.size)
    <3>2. c \in live64 /\ p \in Page64
      BY <1>0, <1>1, BlockPages DEF TableTypes
    <3>3. committed[p] => expect[p] # "any"
      BY <1>0, <3>2 DEF Backing
    <3>4. QED
      BY <3>2, <3>3
  <2>2. \A c \in free64' : \A p \in Pages(c.addr, c.size) : ~committed'[p]
    <3>0. TAKE c \in free64'
    <3>1. TAKE p \in Pages(c.addr, c.size)
    <3>2. c \in free64 /\ c \in Blocks64 /\ p \in Page64
      BY <1>0, <1>1, BlockPages DEF TableTypes
    <3>3. ~Overlap(c, b)
      BY <1>0, <3>2 DEF TablesApart, FreeBlocksUnused
    <3>4. p \notin P
      BY <1>3, <1>4, <3>2, <3>3, PagesApart
    <3>5. ~committed[p]
      BY <1>0, <3>2 DEF Backing
    <3>6. QED
      BY <3>2, <3>4, <3>5
  <2>3. \A p \in Page64 : p >= ptr64' => ~committed'[p]
    <3>1. TAKE p \in Page64
    <3>2. HAVE p >= ptr64'
    <3>3. b.addr + b.size <= ptr64 /\ b.addr \in Nat /\ b.size \in Nat /\ ptr64 \in Nat
      BY <1>0, <1>4, BlockPages DEF TablesApart, Used, TableTypes
    <3>4. p \notin Pages(b.addr, b.size)
      BY <1>1, <3>2, <3>3 DEF Pages, Page64
    <3>5. ~committed[p]
      BY <1>0, <1>1, <3>2 DEF Backing
    <3>6. QED
      BY <1>3, <3>4, <3>5
  <2>4. QED
    BY <2>1, <2>2, <2>3 DEF Backing, ExpectedCommitted
<1>6. QED
  BY <1>2, <1>5 DEF Inv64, Heap64TypeOK, TableTypes, PageTypes

LEMMA CommitStep ==
    ASSUME Inv64, Commit64
    PROVE  Inv64'
<1>0. TableTypes /\ PageTypes /\ TablesApart /\ Backing /\ ContentsAsPromised
  BY Parts
<1>1. PICK b \in live64, n \in Sizes : \E p \in Pages(b.addr, b.size) :
        p + n <= b.addr + b.size /\ Commit(Pages(p, n)) /\ UNCHANGED tables64
  BY DEF Commit64
<1>2. PICK p \in Pages(b.addr, b.size) :
        p + n <= b.addr + b.size /\ Commit(Pages(p, n)) /\ UNCHANGED tables64
  BY <1>1
<1>3. b \in Blocks64 /\ b.addr \in Nat /\ b.size \in Nat /\ n \in Nat
  BY <1>0, BlockPages DEF TableTypes
<1>4. Pages(p, n) \subseteq Pages(b.addr, b.size) /\ Pages(b.addr, b.size) \subseteq Page64
  <2>1. p \in Int /\ b.addr <= p /\ p + n <= b.addr + b.size
    BY <1>2, <1>3 DEF Pages
  <2>2. Pages(p, n) \subseteq Pages(b.addr, b.size)
    BY <1>3, <2>1 DEF Pages
  <2>3. QED
    BY <1>3, <2>2, BlockPages
<1>5. \A q \in Pages(p, n) : committed[q] => expect[q] # "any"
  BY <1>0, <1>4 DEF Backing
<1>6. QED
  BY <1>0, <1>2, <1>4, <1>5, CommitKeeps, PagesKeep, BackingSplit

LEMMA DecommitStep ==
    ASSUME Inv64, Decommit64
    PROVE  Inv64'
<1>0. TableTypes /\ PageTypes /\ TablesApart /\ Backing /\ ContentsAsPromised
  BY Parts
<1>1. PICK b \in live64, n \in Sizes : \E p \in Pages(b.addr, b.size) :
        p + n <= b.addr + b.size /\ Uncommit(Pages(p, n)) /\ UNCHANGED tables64
  BY DEF Decommit64
<1>2. PICK p \in Pages(b.addr, b.size) :
        p + n <= b.addr + b.size /\ Uncommit(Pages(p, n)) /\ UNCHANGED tables64
  BY <1>1
<1>3. b \in Blocks64 /\ b.addr \in Nat /\ b.size \in Nat /\ n \in Nat
  BY <1>0, BlockPages DEF TableTypes
<1>4. Pages(p, n) \subseteq Pages(b.addr, b.size) /\ Pages(b.addr, b.size) \subseteq Page64
  <2>1. p \in Int /\ b.addr <= p /\ p + n <= b.addr + b.size
    BY <1>2, <1>3 DEF Pages
  <2>2. Pages(p, n) \subseteq Pages(b.addr, b.size)
    BY <1>3, <2>1 DEF Pages
  <2>3. QED
    BY <1>3, <2>2, BlockPages
<1>5. QED
  BY <1>0, <1>2, <1>4, UncommitKeeps, PagesKeep, BackingSplit

LEMMA WriteStep ==
    ASSUME Inv64, Write64
    PROVE  Inv64'
<1>0. TableTypes /\ PageTypes /\ TablesApart /\ Backing /\ ContentsAsPromised
  BY Parts
<1>1. UNCHANGED <<ptr64, alloc64, free64, live64, committed>>
  BY DEF Write64, tables64
<1>2. PageTypes' /\ ContentsAsPromised'
  BY <1>0 DEF Write64, PageTypes, ContentsAsPromised
<1>3. \A p \in Page64 : expect'[p] # "any" <=> expect[p] # "any"
  BY <1>0 DEF Write64, PageTypes
<1>4. TableTypes' /\ TablesApart'
  BY <1>0, <1>1 DEF TableTypes, TablesApart, Used, FreeBlocksUnused
<1>5. Backing'
  <2>1. \A b \in live64 : \A p \in Pages(b.addr, b.size) : p \in Page64
    BY <1>0, BlockPages DEF TableTypes
  <2>2. QED
    BY <1>0, <1>1, <1>3, <2>1 DEF Backing
<1>6. QED
  BY <1>2, <1>4, <1>5 DEF Inv64, Heap64TypeOK, TableTypes, PageTypes

LEMMA NewProgramStep ==
    ASSUME Inv64, NewProgram64
    PROVE  Inv64'
<1>0. TableTypes /\ PageTypes /\ TablesApart /\ Backing /\ ContentsAsPromised
  BY Parts
<1>1. live64' = {} /\ UNCHANGED <<ptr64, alloc64, free64, committed, content>>
  BY DEF NewProgram64
<1>2. TableTypes'
  BY <1>0, <1>1 DEF TableTypes
<1>3. TablesApart'
  BY <1>0, <1>1 DEF TablesApart, Used, FreeBlocksUnused
<1>4. PageTypes' /\ ContentsAsPromised'
  BY <1>0 DEF NewProgram64, PageTypes, ContentsAsPromised
<1>5. Backing'
  BY <1>0 DEF NewProgram64, Backing
<1>6. QED
  BY <1>2, <1>3, <1>4, <1>5 DEF Inv64, Heap64TypeOK, TableTypes, PageTypes

\* Releasing a block the engine knows: nothing else lies at its address.
LEMMA FreeKnownKeeps ==
    ASSUME Inv64, NEW b \in alloc64, FreeBlock(b), Uncommit(Pages(b.addr, b.size)),
           live64' = {c \in live64 : c.addr # b.addr}, UNCHANGED ptr64
    PROVE  Inv64'
<1> DEFINE P == Pages(b.addr, b.size)
<1>0. TableTypes /\ PageTypes /\ TablesApart /\ Backing /\ ContentsAsPromised
  BY Parts
<1>1. b \in Blocks64 /\ P \subseteq Page64
  BY <1>0, BlockPages DEF TableTypes
<1>2. alloc64' = alloc64 \ {b} /\ live64' \subseteq live64 /\ free64' \subseteq free64 \cup {b}
  BY DEF FreeBlock
<1>3. Used' \subseteq Used \ {b}
  BY <1>2 DEF Used
<1>4. IsFiniteSet(alloc64') /\ Cardinality(alloc64') <= MaxAlloc64
  <2>1. IsFiniteSet(alloc64) /\ alloc64' \subseteq alloc64 /\ Cardinality(alloc64) <= MaxAlloc64
    BY <1>0, <1>2 DEF TablesApart, TableTypes
  <2>2. IsFiniteSet(alloc64') /\ Cardinality(alloc64') <= Cardinality(alloc64)
    BY <2>1, FS_Subset
  <2>3. Cardinality(alloc64') \in Nat /\ Cardinality(alloc64) \in Nat
    BY <2>1, <2>2, FS_CardinalityType
  <2>4. QED
    BY <2>1, <2>2, <2>3
<1>5. IsFiniteSet(free64') /\ Cardinality(free64') <= MaxAlloc64
  <2>1. IsFiniteSet(free64) /\ Cardinality(free64) <= MaxAlloc64
    BY <1>0 DEF TablesApart, TableTypes
  <2>2. Cardinality(free64) \in Nat
    BY <2>1, FS_CardinalityType
  <2>3. CASE free64' = free64
    BY <2>1, <2>3
  <2>4. CASE free64' # free64
    <3>1. free64' = free64 \cup {b} /\ Cardinality(free64) < MaxAlloc64
      BY <2>2, <2>4 DEF FreeBlock
    <3>2. IsFiniteSet(free64')
      BY <2>1, <3>1, FS_AddElement, Zenon
    <3>3. Cardinality(free64') = IF b \in free64 THEN Cardinality(free64)
                                                 ELSE Cardinality(free64) + 1
      BY <2>1, <3>1, FS_AddElement, Zenon
    <3>4. Cardinality(free64') <= MaxAlloc64
      BY <2>2, <3>1, <3>3
    <3>5. QED
      BY <3>2, <3>4
  <2>5. QED
    BY <2>3, <2>4
<1>6. TableTypes'
  BY <1>0, <1>1, <1>2, <1>4, <1>5 DEF TableTypes
<1>7. TablesApart'
  <2>1. \A c \in Used' \cup free64' : c.addr + c.size <= ptr64'
    BY <1>0, <1>2, <1>3 DEF TablesApart, Used
  <2>2. \A c, d \in Used' : c # d => ~Overlap(c, d)
    BY <1>0, <1>3 DEF TablesApart
  <2>3. \A c, d \in free64' : c # d => ~Overlap(c, d)
    <3>1. \A c \in free64 : ~Overlap(b, c) /\ ~Overlap(c, b)
      BY <1>0 DEF TablesApart, FreeBlocksUnused, Overlap
    <3>2. QED
      BY <1>0, <1>2, <3>1 DEF TablesApart
  <2>4. FreeBlocksUnused'
    <3>1. \A c \in Used' : ~Overlap(b, c)
      BY <1>0, <1>3 DEF TablesApart, Used
    <3>2. \A c \in Used', d \in free64 : ~Overlap(d, c)
      BY <1>0, <1>3 DEF TablesApart, FreeBlocksUnused, Used
    <3>3. QED
      BY <1>2, <3>1, <3>2 DEF FreeBlocksUnused, Used
  <2>5. QED
    BY <1>4, <1>5, <2>1, <2>2, <2>3, <2>4 DEF TablesApart
<1>8. /\ PageTypes' /\ ExpectedCommitted' /\ ContentsAsPromised'
      /\ \A p \in Page64 : committed'[p] <=> committed[p] /\ p \notin P
      /\ \A p \in Page64 : expect'[p] # "any" <=> expect[p] # "any" /\ p \notin P
  BY <1>0, <1>1, UncommitKeeps, BackingSplit
<1>9. Backing'
  <2>1. \A c \in live64' : \A p \in Pages(c.addr, c.size) : committed'[p] => expect'[p] # "any"
    <3>0. TAKE c \in live64'
    <3>1. TAKE p \in Pages(c.addr, c.size)
    <3>2. c \in live64 /\ p \in Page64
      BY <1>0, <1>2, BlockPages DEF TableTypes
    <3>3. committed[p] => expect[p] # "any"
      BY <1>0, <3>2 DEF Backing
    <3>4. QED
      BY <1>8, <3>2, <3>3
  <2>2. \A c \in free64' : \A p \in Pages(c.addr, c.size) : ~committed'[p]
    <3>0. TAKE c \in free64'
    <3>1. TAKE p \in Pages(c.addr, c.size)
    <3>2. p \in Page64
      BY <1>6, BlockPages DEF TableTypes
    <3>3. CASE c = b
      BY <1>8, <3>2, <3>3
    <3>4. CASE c # b
      <4>1. ~committed[p]
        BY <1>0, <1>2, <3>4 DEF Backing
      <4>2. QED
        BY <1>8, <3>2, <4>1
    <3>5. QED
      BY <3>3, <3>4
  <2>3. \A p \in Page64 : p >= ptr64' => ~committed'[p]
    BY <1>0, <1>8 DEF Backing
  <2>4. QED
    BY <1>8, <2>1, <2>2, <2>3 DEF Backing, ExpectedCommitted
<1>10. QED
  BY <1>6, <1>7, <1>8, <1>9 DEF Inv64, Heap64TypeOK, TableTypes, PageTypes

\* Releasing what the engine does not know: nothing is promised of its pages.
LEMMA FreeUnknownKeeps ==
    ASSUME Inv64, live64' \subseteq live64, NEW P,
           expect' = [p \in Page64 |-> IF p \in P THEN "any" ELSE expect[p]],
           \A c \in live64', p \in P : p \notin Pages(c.addr, c.size),
           UNCHANGED <<ptr64, alloc64, free64, committed, content>>
    PROVE  Inv64'
<1>0. TableTypes /\ PageTypes /\ TablesApart /\ Backing /\ ContentsAsPromised
  BY Parts
<1>1. TableTypes'
  BY <1>0 DEF TableTypes
<1>2. TablesApart'
  BY <1>0 DEF TablesApart, Used, FreeBlocksUnused
<1>3. PageTypes' /\ ContentsAsPromised'
  BY <1>0 DEF PageTypes, ContentsAsPromised
<1>4. Backing'
  <2>1. \A p \in Page64 : expect'[p] # "any" => committed'[p]
    BY <1>0 DEF Backing
  <2>2. \A c \in live64' : \A p \in Pages(c.addr, c.size) : committed'[p] => expect'[p] # "any"
    <3>0. TAKE c \in live64'
    <3>1. TAKE p \in Pages(c.addr, c.size)
    <3>2. c \in live64 /\ p \in Page64 /\ p \notin P
      BY <1>0, BlockPages DEF TableTypes
    <3>3. QED
      BY <1>0, <3>2 DEF Backing
  <2>3. QED
    BY <1>0, <2>1, <2>2 DEF Backing
<1>5. QED
  BY <1>1, <1>2, <1>3, <1>4 DEF Inv64, Heap64TypeOK, TableTypes, PageTypes

LEMMA FreeStep ==
    ASSUME Inv64, Free64
    PROVE  Inv64'
<1>0. TableTypes /\ TablesApart
  BY Parts
<1>1. PICK a \in Page64 :
        /\ live64' = {b \in live64 : b.addr # a}
        /\ \/ \E b \in alloc64 : b.addr = a /\ FreeBlock(b) /\ Uncommit(Pages(a, b.size))
           \/ /\ \A b \in alloc64 : b.addr # a
              /\ expect' = [p \in Page64 |->
                    IF \E b \in live64 : b.addr = a /\ p \in Pages(a, b.size) THEN "any"
                                                                             ELSE expect[p]]
              /\ UNCHANGED <<alloc64, free64, committed, content>>
        /\ UNCHANGED ptr64
  BY DEF Free64
<1>2. CASE \E b \in alloc64 : b.addr = a /\ FreeBlock(b) /\ Uncommit(Pages(a, b.size))
  BY <1>1, <1>2, FreeKnownKeeps
<1>3. CASE /\ expect' = [p \in Page64 |->
                IF \E b \in live64 : b.addr = a /\ p \in Pages(a, b.size) THEN "any"
                                                                         ELSE expect[p]]
           /\ UNCHANGED <<alloc64, free64, committed, content>>
  <2> DEFINE P == {p \in Page64 : \E b \in live64 : b.addr = a /\ p \in Pages(a, b.size)}
  <2>1. expect' = [p \in Page64 |-> IF p \in P THEN "any" ELSE expect[p]]
    BY <1>3
  <2>2. \A c \in live64', p \in P : p \notin Pages(c.addr, c.size)
    <3>1. TAKE c \in live64', p \in P
    <3>2. PICK b \in live64 : b.addr = a /\ p \in Pages(a, b.size)
      OBVIOUS
    <3>3. c \in live64 /\ c # b
      BY <1>1, <3>2
    <3>4. ~Overlap(c, b) /\ b \in Blocks64 /\ c \in Blocks64
      BY <1>0, <3>3 DEF TablesApart, Used, TableTypes
    <3>5. QED
      BY <3>2, <3>4, PagesApart
  <2>3. live64' \subseteq live64
    BY <1>1
  <2> HIDE DEF P
  <2>4. QED
    BY <1>1, <1>3, <2>1, <2>2, <2>3, FreeUnknownKeeps
<1>4. QED
  BY <1>1, <1>2, <1>3

-----------------------------------------------------------------------------
(* The theorem.                                                               *)

LEMMA Init64Inv == Init64 => Inv64
<1> SUFFICES ASSUME Init64 PROVE Inv64
  OBVIOUS
<1>1. IsFiniteSet({}) /\ Cardinality({}) = 0
  BY FS_EmptySet
<1>2. Heap64TypeOK
  BY <1>1 DEF Init64, Heap64TypeOK
<1>3. TablesApart
  BY <1>1 DEF Init64, TablesApart, Used, FreeBlocksUnused
<1>4. Backing /\ ContentsAsPromised
  BY DEF Init64, Backing, ContentsAsPromised
<1>5. QED
  BY <1>2, <1>3, <1>4 DEF Inv64

LEMMA Step64 == Inv64 /\ [Next64]_vars64 => Inv64'
<1> SUFFICES ASSUME Inv64, [Next64]_vars64 PROVE Inv64'
  OBVIOUS
<1>1. CASE UNCHANGED vars64
  BY <1>1 DEF vars64, tables64, pages64, Inv64, Heap64TypeOK, TablesApart, Used,
     Backing, ContentsAsPromised, FreeBlocksUnused
<1>2. ASSUME NEW n \in Sizes, NEW commit \in BOOLEAN, Reserve64(n, commit)
      PROVE  Inv64'
  BY <1>2, ReuseKeeps, BumpKeeps DEF Reserve64
<1>3. QED
  BY <1>1, <1>2, CommitStep, FreeStep, DecommitStep, WriteStep, NewProgramStep DEF Next64

\* Whatever the guest reserves, commits, decommits, releases, even twice, and
\* however full the tables are: no two of its blocks share a page, no free block
\* shares one with a block in use, and every page holds what Windows promises
\* (wg_guest_heap64, wg_guest_free64, wg_guest_map64, wg_uncommit64).
THEOREM PoolsStayConsistent == Spec64 => []PoolsConsistent
<1>1. Init64 => Inv64
  BY Init64Inv
<1>2. Inv64 /\ [Next64]_vars64 => Inv64'
  BY Step64
<1>3. Inv64 => PoolsConsistent
  <2> SUFFICES ASSUME Inv64 PROVE PoolsConsistent
    OBVIOUS
  <2>2. \A b, c \in live64 : b # c => ~Overlap(b, c)
    BY DEF Inv64, TablesApart, Used
  <2>3. QED
    BY <2>2 DEF Inv64, TablesApart, PoolsConsistent, PoolsSafe, LiveBlocksDisjoint
<1>4. QED
  BY <1>1, <1>2, <1>3, PTL DEF Spec64
-----------------------------------------------------------------------------
(* Region 3 beside the 32-bit heap: every handler of the guest takes one step  *)
(* of it or none.                                                              *)

LEMMA GuestStep64 == [HeapNext]_heapVars => [Next64]_vars64
<1> SUFFICES ASSUME [HeapNext]_heapVars PROVE [Next64]_vars64
  OBVIOUS
<1>1. CASE UNCHANGED heapVars
  BY <1>1 DEF heapVars
<1>2. CASE HeapAlloc \/ GlobalAlloc \/ CommandLineToArgv \/ VirtualFree32
  BY <1>2 DEF HeapAlloc, GlobalAlloc, CommandLineToArgv, VirtualFree32
<1>3. CASE VirtualAlloc
  <2>1. UNCHANGED vars64 \/ \E n \in Sizes, commit \in BOOLEAN : Reserve64(n, commit)
    BY <1>3 DEF VirtualAlloc
  <2>2. QED
    BY <2>1 DEF Next64
<1>4. CASE VirtualCommit \/ VirtualFree64 \/ GuestWrites \/ LoadAgain
  BY <1>4 DEF VirtualCommit, VirtualFree64, GuestWrites, LoadAgain, Next64
<1>5. QED
  BY <1>1, <1>2, <1>3, <1>4 DEF HeapNext

\* The pools of region 3 stay as promised whatever else the guest does with its
\* memory (wg_engine.c:1686-2113).
THEOREM GuestPoolsConsistent == HeapSpec => []PoolsConsistent
<1>1. HeapInit => Init64
  BY DEF HeapInit
<1>2. HeapSpec => Spec64
  BY <1>1, GuestStep64, PTL DEF HeapSpec, Spec64
<1>3. QED
  BY <1>2, PoolsStayConsistent, PTL

-----------------------------------------------------------------------------
(* The 32-bit heap: the inductive invariant.                                  *)

FreeBlocks32 == [addr : Nat, size : Nat \ {0}]
LiveBlocks32 == [addr : Nat, size : Nat \ {0}, pool : BOOLEAN]

Granular(a) == a % Granule = 0

OffThunks(b) == b.addr >= HoleHi \/ b.addr + b.size <= HoleLo

\* The pointer has passed the block.
Passed(b) == Base1 <= b.addr /\ b.addr + b.size <= heapPtr

PointerInHeap == heapPtr \in Nat /\ Base1 <= heapPtr /\ heapPtr <= End2

\* The table still has room, and knows the size of every pool.
SizesKnown ==
    /\ tracked \in Nat /\ tracked <= MaxTracked
    /\ sizeOf \in [Address -> Nat]
    /\ \A b \in live : b.pool => sizeOf[b.addr] = b.size

LiveFine ==
    /\ live \subseteq LiveBlocks32
    /\ \A b \in live : Passed(b) /\ OffThunks(b) /\ (b.pool => Granular(b.addr))
    /\ \A b, c \in live : b # c => ~Overlap(b, c)

\* A free block is as good as one in use, and starts where a pool may.
FreeFine ==
    /\ freeBlocks \subseteq FreeBlocks32
    /\ IsFiniteSet(freeBlocks) /\ Cardinality(freeBlocks) <= MaxFree
    /\ \A f \in freeBlocks : Passed(f) /\ OffThunks(f) /\ Granular(f.addr)
    /\ \A f, g \in freeBlocks : f # g => ~Overlap(f, g)
    /\ \A b \in live, f \in freeBlocks : ~Overlap(b, f)

Inv32 == PointerInHeap /\ SizesKnown /\ LiveFine /\ FreeFine /\ loaded = 1

-----------------------------------------------------------------------------
(* Granules and the pointer.                                                  *)

LEMMA Multiples ==
    ASSUME NEW a \in Nat
    PROVE  /\ Granular(a) => \E k \in Nat : a = Granule * k
           /\ \A k \in Nat : a = Granule * k => Granular(a)
<1>1. Granular(a) => \E k \in Nat : a = Granule * k
  <2> SUFFICES ASSUME Granular(a) PROVE \E k \in Nat : a = Granule * k
    OBVIOUS
  <2>1. a \div Granule \in Int /\ a % Granule \in Int /\ a = Granule * (a \div Granule) + (a % Granule)
    BY Z3
  <2> DEFINE d == a \div Granule
  <2>2. d \in Int /\ a = Granule * d
    BY <2>1, Z3 DEF Granular
  <2> HIDE DEF d
  <2>3. CASE d <= -1
    <3>1. Granule * d <= 0 - Granule
      BY <2>2, <2>3, Z3
    <3>2. QED
      BY <2>2, <3>1
  <2>4. QED
    BY <2>2, <2>3
<1>2. ASSUME NEW k \in Nat, a = Granule * k PROVE Granular(a)
  <2> DEFINE d == a \div Granule
             r == a % Granule
  <2>1. d \in Int /\ r \in Int /\ 0 <= r /\ r < Granule /\ a = Granule * d + r
    BY Z3
  <2>2. Granule * (k - d) = r
    BY <1>2, <2>1, Z3
  <2> HIDE DEF d, r
  <2>3. CASE k - d >= 1
    <3>1. Granule * (k - d) >= Granule
      BY <2>1, <2>3, Z3
    <3>2. QED
      BY <2>1, <2>2, <3>1
  <2>4. CASE k - d <= -1
    <3>1. Granule * (k - d) <= 0 - Granule
      BY <2>1, <2>4, Z3
    <3>2. QED
      BY <2>1, <2>2, <3>1
  <2>5. CASE k = d
    <3>1. r = 0
      BY <2>1, <2>2, <2>5, Z3
    <3>2. QED
      BY <3>1 DEF Granular, r
  <2>6. QED
    BY <2>1, <2>3, <2>4, <2>5
<1>3. QED
  BY <1>1, <1>2

LEMMA GranulesAdd ==
    ASSUME NEW a \in Nat, NEW b \in Nat, Granular(a), Granular(b)
    PROVE  Granular(a + b)
<1>1. PICK k \in Nat : a = Granule * k
  BY Multiples
<1>2. PICK l \in Nat : b = Granule * l
  BY Multiples
<1>3. a + b = Granule * (k + l)
  BY <1>1, <1>2, Z3
<1>4. k + l \in Nat /\ a + b \in Nat
  OBVIOUS
<1> DEFINE m == k + l
<1>5. m \in Nat /\ a + b = Granule * m
  BY <1>3, <1>4
<1> HIDE DEF m
<1>6. QED
  BY <1>4, <1>5, Multiples

\* Rounding up reaches the next granule, not one behind it.
LEMMA AlignedGranule ==
    ASSUME NEW p \in Nat
    PROVE  /\ AlignUp(p) \in Nat /\ AlignUp(p) >= p /\ Granular(AlignUp(p))
           /\ \A e \in Nat : Granular(e) /\ p <= e => AlignUp(p) <= e
<1> DEFINE q == (p + Granule - 1) \div Granule
           r == (p + Granule - 1) % Granule
<1>1. q \in Int /\ r \in 0 .. Granule - 1 /\ p + Granule - 1 = Granule * q + r
  BY Z3
<1>2. AlignUp(p) = Granule * q
  <2>1. Granule * q = q * Granule
    BY <1>1, Z3
  <2>2. QED
    BY <2>1 DEF AlignUp
<1>3. q \in Nat
  <2>1. CASE q <= -1
    <3>1. Granule * q <= 0 - Granule
      BY <1>1, <2>1, Z3
    <3>2. QED
      BY <1>1, <3>1, Z3
  <2>2. QED
    BY <1>1, <2>1
<1>4. ASSUME NEW e \in Nat, Granular(e), p <= e PROVE AlignUp(p) <= e
  <2>1. PICK k \in Nat : e = Granule * k
    BY <1>4, Multiples
  <2>2. CASE q >= k + 1
    <3>1. Granule * q >= Granule * k + Granule
      BY <1>3, <2>2, Z3
    <3>2. QED
      BY <1>1, <1>4, <2>1, <3>1, Z3
  <2>3. CASE q <= k
    <3>1. Granule * q <= Granule * k
      BY <1>3, <2>3, Z3
    <3>2. QED
      BY <1>2, <2>1, <3>1
  <2>4. QED
    BY <1>3, <2>2, <2>3
<1> HIDE DEF q, r
<1>5. QED
  BY <1>2, <1>3, <1>4, AlignedUp, Multiples

LEMMA Bounds32 ==
    /\ Base1 \in Nat /\ End1 \in Nat /\ Base2 \in Nat /\ End2 \in Nat
    /\ HoleLo \in Nat /\ HoleHi \in Nat /\ MaxFree \in Nat /\ MaxAllocs \in Nat
    /\ MaxTracked \in Nat
    /\ Base1 <= End1 /\ End1 <= Base2 /\ Base2 <= HoleLo /\ HoleLo < HoleHi /\ HoleHi < End2
    /\ Granular(Base1) /\ Granular(Base2) /\ Granular(HoleHi) /\ Granular(End2)
BY GuestHeapAssumption DEF Granular

\* Where the pointer goes before it moves over n pages: on, clear of the thunks,
\* and to a granule if it was at one.
LEMMA StartFine ==
    ASSUME NEW p \in Nat, p <= End2, NEW n \in Nat \ {0}
    PROVE  /\ Start(p, n) \in Nat /\ p <= Start(p, n) /\ Start(p, n) <= End2
           /\ OffThunks(Block(Start(p, n), n))
           /\ Granular(p) => Granular(Start(p, n))
           /\ RegionEnd(Start(p, n)) \in Nat /\ RegionEnd(Start(p, n)) <= End2
<1> DEFINE l == LeaveRegion1(p, n)
           a == Start(p, n)
<1>1. l \in Nat /\ p <= l /\ l <= End2 /\ (Granular(p) => Granular(l))
  BY Bounds32 DEF LeaveRegion1
<1>2. a = IF l < HoleHi /\ l + n > HoleLo THEN HoleHi ELSE l
  BY DEF Start, SkipHole
<1> HIDE DEF l, a
<1>3. a \in Nat /\ p <= a /\ a <= End2 /\ (Granular(p) => Granular(a))
  BY <1>1, <1>2, Bounds32
<1>4. a >= HoleHi \/ a + n <= HoleLo
  BY <1>1, <1>2, Bounds32
<1>5. OffThunks(Block(a, n))
  BY <1>4 DEF OffThunks, Block
<1>6. RegionEnd(a) \in Nat /\ RegionEnd(a) <= End2
  BY Bounds32 DEF RegionEnd
<1>7. QED
  BY <1>3, <1>5, <1>6 DEF a

-----------------------------------------------------------------------------
(* A block is given to the guest.                                             *)

LEMMA LiveTyped ==
    ASSUME LiveFine, NEW b \in live
    PROVE  b.addr \in Nat /\ b.size \in Nat /\ b.size > 0 /\ b.pool \in BOOLEAN
BY DEF LiveFine, LiveBlocks32

LEMMA FreeTyped ==
    ASSUME FreeFine, NEW f \in freeBlocks
    PROVE  f.addr \in Nat /\ f.size \in Nat /\ f.size > 0
BY DEF FreeFine, FreeBlocks32

\* What the pointer has not passed is apart from every block.
LEMMA AheadIsApart ==
    ASSUME LiveFine, FreeFine, NEW a \in Nat, heapPtr \in Nat, a >= heapPtr,
           NEW n \in Nat
    PROVE  \A c \in live \cup freeBlocks : ~Overlap(Block(a, n), c)
<1> SUFFICES ASSUME NEW c \in live \cup freeBlocks PROVE ~(c.addr + c.size > a)
  BY DEF Overlap, Block
<1>1. c.addr \in Nat /\ c.size \in Nat /\ Passed(c)
  BY LiveTyped, FreeTyped DEF LiveFine, FreeFine
<1>2. QED
  BY <1>1 DEF Passed

LEMMA LiveAdded ==
    ASSUME LiveFine, NEW a \in Nat, NEW n \in Nat \ {0}, NEW pool \in BOOLEAN,
           live' = live \cup {[addr |-> a, size |-> n, pool |-> pool]},
           heapPtr \in Nat, heapPtr' \in Nat, heapPtr <= heapPtr',
           Base1 <= a, a + n <= heapPtr', OffThunks(Block(a, n)), pool => Granular(a),
           \A c \in live : ~Overlap(Block(a, n), c)
    PROVE  LiveFine'
<1> DEFINE r == [addr |-> a, size |-> n, pool |-> pool]
<1>0. r \in LiveBlocks32 /\ r.addr = a /\ r.size = n /\ r.pool = pool
  BY DEF LiveBlocks32
<1>1. live' = live \cup {r}
  OBVIOUS
<1>2. OffThunks(r) /\ (r.pool => Granular(r.addr)) /\ Base1 <= r.addr /\ r.addr + r.size <= heapPtr'
  BY <1>0 DEF OffThunks, Block
<1>3. \A c \in live : ~Overlap(r, c) /\ ~Overlap(c, r)
  BY <1>0 DEF Overlap, Block
<1> HIDE DEF r
<1>4. ASSUME NEW b \in live' PROVE b \in LiveBlocks32 /\ Passed(b)' /\ OffThunks(b) /\ (b.pool => Granular(b.addr))
  <2>1. CASE b = r
    BY <1>0, <1>2, <2>1 DEF Passed
  <2>2. CASE b \in live
    <3>1. b.addr \in Nat /\ b.size \in Nat /\ b \in LiveBlocks32
      BY <2>2, LiveTyped DEF LiveFine
    <3>2. Passed(b) /\ OffThunks(b) /\ (b.pool => Granular(b.addr))
      BY <2>2 DEF LiveFine
    <3>3. QED
      BY <3>1, <3>2 DEF Passed
  <2>3. QED
    BY <1>1, <2>1, <2>2
<1>5. ASSUME NEW b \in live', NEW c \in live', b # c PROVE ~Overlap(b, c)
  <2>1. CASE b \in live /\ c \in live
    BY <1>5, <2>1 DEF LiveFine
  <2>2. CASE b = r \/ c = r
    BY <1>1, <1>3, <1>5, <2>2
  <2>3. QED
    BY <1>1, <2>1, <2>2
<1>6. QED
  BY <1>4, <1>5 DEF LiveFine, OffThunks, Granular, Overlap

\* The list is as it was, and the block given is apart from it.
LEMMA FreeKept ==
    ASSUME FreeFine, NEW a \in Nat, NEW n \in Nat \ {0}, NEW pool \in BOOLEAN,
           live' \subseteq live \cup {[addr |-> a, size |-> n, pool |-> pool]},
           heapPtr \in Nat, heapPtr' \in Nat, heapPtr <= heapPtr',
           UNCHANGED freeBlocks, \A f \in freeBlocks : ~Overlap(Block(a, n), f)
    PROVE  FreeFine'
<1>1. ASSUME NEW f \in freeBlocks' PROVE Passed(f)' /\ OffThunks(f) /\ Granular(f.addr)
  <2>1. f.addr \in Nat /\ f.size \in Nat /\ Passed(f) /\ OffThunks(f) /\ Granular(f.addr)
    BY FreeTyped DEF FreeFine
  <2>2. QED
    BY <2>1 DEF Passed
<1>2. ASSUME NEW b \in live', NEW f \in freeBlocks' PROVE ~Overlap(b, f)
  <2>1. CASE b \in live
    BY <2>1 DEF FreeFine
  <2>2. CASE b = [addr |-> a, size |-> n, pool |-> pool]
    <3>1. b.addr = a /\ b.size = n
      BY <2>2
    <3>2. QED
      BY <3>1 DEF Overlap, Block
  <2>3. QED
    BY <2>1, <2>2
<1>3. \A f, g \in freeBlocks' : f # g => ~Overlap(f, g)
  BY DEF FreeFine
<1>4. freeBlocks' \subseteq FreeBlocks32 /\ IsFiniteSet(freeBlocks') /\ Cardinality(freeBlocks') <= MaxFree
  BY DEF FreeFine
<1>5. QED
  BY <1>1, <1>2, <1>3, <1>4 DEF FreeFine, OffThunks, Granular, Overlap
\* The table takes the size of what is given out, under an address no pool has.
LEMMA SizesAdded ==
    ASSUME MaxTracked <= MaxAllocs, SizesKnown, LiveFine, PointerInHeap, tracked < MaxTracked,
           NEW a \in Nat, NEW n \in Nat \ {0}, NEW pool \in BOOLEAN, a + n <= End2,
           Give(Block(a, n), pool), \A c \in live : ~Overlap(Block(a, n), c)
    PROVE  SizesKnown'
<1> DEFINE r == [addr |-> a, size |-> n, pool |-> pool]
<1>0. Block(a, n).addr = a /\ Block(a, n).size = n
  BY DEF Block
<1>1. tracked \in Nat /\ tracked < MaxAllocs /\ a \in Address
  BY Bounds32 DEF SizesKnown, Address
<1>2. live' = live \cup {r} /\ r.addr = a /\ r.size = n
  BY <1>0 DEF Give
<1>3. sizeOf' = [sizeOf EXCEPT ![a] = n] /\ tracked' = tracked + 1
  BY <1>0, <1>1 DEF Give
<1>4. sizeOf' \in [Address -> Nat] /\ sizeOf'[a] = n
      /\ \A c \in Address : c # a => sizeOf'[c] = sizeOf[c]
  BY <1>1, <1>3 DEF SizesKnown
<1> HIDE DEF r
<1>5. ASSUME NEW b \in live', b.pool PROVE sizeOf'[b.addr] = b.size
  <2>1. CASE b \in live
    <3>1. b.addr \in Nat /\ b.size \in Nat /\ b.size > 0 /\ Passed(b)
      BY <2>1, LiveTyped DEF LiveFine
    <3>2. b.addr # a
      BY <2>1, <3>1, <1>0 DEF Overlap
    <3>3. b.addr \in Address
      BY <3>1, Bounds32 DEF Passed, PointerInHeap, Address
    <3>4. sizeOf[b.addr] = b.size
      BY <1>5, <2>1 DEF SizesKnown
    <3>5. QED
      BY <1>4, <3>2, <3>3, <3>4
  <2>2. CASE b = r
    BY <1>2, <1>4, <2>2
  <2>3. QED
    BY <1>2, <2>1, <2>2
<1>6. tracked' \in Nat /\ tracked' <= MaxTracked
  BY <1>1, <1>3, Bounds32
<1>7. QED
  BY <1>4, <1>5, <1>6 DEF SizesKnown

-----------------------------------------------------------------------------
(* A freed block is used again.                                               *)

LEMMA PartOfBlock ==
    ASSUME NEW b, NEW c, NEW x,
           b.addr \in Nat, b.size \in Nat, c.addr \in Nat, c.size \in Nat,
           x.addr \in Nat, x.size \in Nat,
           b.addr <= c.addr, c.addr + c.size <= b.addr + b.size
    PROVE  /\ ~Overlap(x, b) => ~Overlap(x, c) /\ ~Overlap(c, x)
           /\ Passed(b) /\ heapPtr \in Nat => Passed(c)
           /\ OffThunks(b) => OffThunks(c)
BY Bounds32 DEF Overlap, Passed, OffThunks

\* What is left of the block takes its place in the list.
LEMMA FreeSplit ==
    ASSUME FreeFine, LiveFine, heapPtr \in Nat, heapPtr' \in Nat, heapPtr <= heapPtr',
           NEW n \in Nat \ {0}, NEW pool \in BOOLEAN, NEW b \in Candidates(n),
           freeBlocks' = (freeBlocks \ {b}) \cup Remainder(b, n),
           live' = live \cup {[addr |-> b.addr, size |-> n, pool |-> pool]}
    PROVE  FreeFine'
<1> DEFINE T == Take(n)
           r == Block(b.addr + T, b.size - T)
           g == [addr |-> b.addr, size |-> n, pool |-> pool]
<1>1. b \in freeBlocks /\ b.size >= T
  BY DEF Candidates
<1>2. T \in Nat /\ T >= n /\ Granular(T)
  BY AlignedGranule DEF Take
<1>3. b.addr \in Nat /\ b.size \in Nat /\ b.size > 0 /\ Passed(b) /\ OffThunks(b) /\ Granular(b.addr)
  BY <1>1, FreeTyped DEF FreeFine
<1>4. r.addr = b.addr + T /\ r.size = b.size - T /\ g.addr = b.addr /\ g.size = n
  BY DEF Block
<1>5. r.addr \in Nat /\ r.size \in Nat
  BY <1>1, <1>2, <1>3, <1>4
<1>6. Granular(r.addr)
  BY <1>2, <1>3, <1>4, GranulesAdd
<1>7. \/ freeBlocks' = freeBlocks \ {b}
      \/ (freeBlocks' = (freeBlocks \ {b}) \cup {r}) /\ r \in FreeBlocks32
  <2>1. CASE b.size - T >= Granule
    <3>1. r.size \in Nat \ {0}
      BY <1>5, <1>4, <2>1
    <3>2. r \in FreeBlocks32
      BY <1>4, <1>5, <3>1 DEF FreeBlocks32, Block
    <3>3. Remainder(b, n) = {r}
      BY <2>1 DEF Remainder
    <3>4. QED
      BY <3>2, <3>3
  <2>2. CASE ~(b.size - T >= Granule)
    <3>1. Remainder(b, n) = {}
      BY <2>2 DEF Remainder
    <3>2. QED
      BY <3>1
  <2>3. QED
    BY <2>1, <2>2
<1>8. live' = live \cup {g}
  OBVIOUS
<1>9. \A x \in live \cup (freeBlocks \ {b}) :
        /\ ~Overlap(x, r) /\ ~Overlap(r, x) /\ ~Overlap(x, g) /\ ~Overlap(g, x)
        /\ x.addr \in Nat /\ x.size \in Nat
  <2>1. TAKE x \in live \cup (freeBlocks \ {b})
  <2>2. x.addr \in Nat /\ x.size \in Nat
    BY LiveTyped, FreeTyped
  <2>3. ~Overlap(x, b)
    BY <1>1 DEF FreeFine
  <2>4. ~Overlap(x, r) /\ ~Overlap(r, x)
    BY <1>1, <1>2, <1>3, <1>4, <1>5, <2>2, <2>3, PartOfBlock
  <2>5. ~Overlap(x, g) /\ ~Overlap(g, x)
    BY <1>1, <1>2, <1>3, <1>4, <2>2, <2>3, PartOfBlock
  <2>6. QED
    BY <2>2, <2>4, <2>5
<1>10. ~Overlap(g, r)
  BY <1>2, <1>3, <1>4 DEF Overlap
<1>11. Passed(r) /\ OffThunks(r)
  BY <1>1, <1>2, <1>3, <1>4, <1>5, PartOfBlock
<1>12. IsFiniteSet(freeBlocks') /\ Cardinality(freeBlocks') <= MaxFree
  <2>1. IsFiniteSet(freeBlocks) /\ Cardinality(freeBlocks) <= MaxFree /\ Cardinality(freeBlocks) \in Nat
    BY FS_CardinalityType DEF FreeFine
  <2>2. IsFiniteSet(freeBlocks \ {b}) /\ Cardinality(freeBlocks \ {b}) = Cardinality(freeBlocks) - 1
    BY <1>1, <2>1, FS_RemoveElement
  <2> DEFINE F == freeBlocks \ {b}
  <2>3. IsFiniteSet(F) /\ Cardinality(F) < MaxFree /\ Cardinality(F) \in Int
    BY <2>1, <2>2, Bounds32
  <2> HIDE DEF F
  <2>4. /\ IsFiniteSet(F \cup {r})
        /\ Cardinality(F \cup {r}) = Cardinality(F) \/ Cardinality(F \cup {r}) = Cardinality(F) + 1
    <3>1. IsFiniteSet(F \cup {r}) /\ Cardinality(F \cup {r}) = IF r \in F THEN Cardinality(F) ELSE Cardinality(F) + 1
      BY <2>3, FS_AddElement, Zenon
    <3>2. QED
      BY <3>1
  <2>5. Cardinality(F) <= MaxFree /\ Cardinality(F \cup {r}) <= MaxFree
    BY <2>3, <2>4, Bounds32
  <2>6. freeBlocks' = F \/ freeBlocks' = F \cup {r}
    BY <1>7 DEF F
  <2>7. QED
    BY <2>3, <2>4, <2>5, <2>6
<1> HIDE DEF r, g, T
<1>13. freeBlocks' \subseteq FreeBlocks32
  BY <1>7 DEF FreeFine
<1>14. ASSUME NEW f \in freeBlocks' PROVE Passed(f)' /\ OffThunks(f) /\ Granular(f.addr)
  <2>1. f.addr \in Nat /\ f.size \in Nat /\ Passed(f) /\ OffThunks(f) /\ Granular(f.addr)
    <3>1. CASE f = r
      BY <1>5, <1>6, <1>11, <3>1
    <3>2. CASE f \in freeBlocks
      BY <3>2, FreeTyped DEF FreeFine
    <3>3. QED
      BY <1>7, <3>1, <3>2
  <2>2. QED
    BY <2>1 DEF Passed
<1>15. ASSUME NEW f \in freeBlocks', NEW h \in freeBlocks', f # h PROVE ~Overlap(f, h)
  <2>1. CASE f \in freeBlocks /\ h \in freeBlocks
    BY <1>15, <2>1 DEF FreeFine
  <2>2. CASE f = r /\ h \in freeBlocks \ {b}
    BY <1>9, <2>2
  <2>3. CASE h = r /\ f \in freeBlocks \ {b}
    BY <1>9, <2>3
  <2>4. QED
    BY <1>7, <1>15, <2>1, <2>2, <2>3
<1>16. ASSUME NEW x \in live', NEW f \in freeBlocks' PROVE ~Overlap(x, f)
  <2>1. CASE x \in live /\ f \in freeBlocks
    BY <2>1 DEF FreeFine
  <2>2. CASE x \in live /\ f = r
    BY <1>9, <2>2
  <2>3. CASE x = g /\ f = r
    BY <1>10, <2>3
  <2>4. CASE x = g /\ f \in freeBlocks \ {b}
    BY <1>9, <2>4
  <2>5. QED
    BY <1>7, <1>8, <2>1, <2>2, <2>3, <2>4
<1>17. QED
  BY <1>12, <1>13, <1>14, <1>15, <1>16 DEF FreeFine, OffThunks, Granular, Overlap

\* The handlers' bounds: the engine's table is never full, and one program is
\* loaded.
OneProgram == MaxTracked <= MaxAllocs /\ MaxLoads = 1

LEMMA ReuseStep ==
    ASSUME OneProgram, Inv32, tracked < MaxTracked, NEW n \in Nat \ {0}, NEW pool \in BOOLEAN,
           Reuse32(n, pool), heapPtr' \in Nat, heapPtr <= heapPtr', heapPtr' <= End2,
           UNCHANGED loaded
    PROVE  Inv32'
<1>0. PointerInHeap /\ SizesKnown /\ LiveFine /\ FreeFine /\ heapPtr \in Nat
  BY DEF Inv32, PointerInHeap
<1>1. PICK b \in Candidates(n) :
        freeBlocks' = (freeBlocks \ {b}) \cup Remainder(b, n) /\ Give(Block(b.addr, n), pool)
  BY DEF Reuse32
<1> DEFINE a == b.addr
           c == Block(a, n)
<1>2. live' = live \cup {[addr |-> a, size |-> n, pool |-> pool]} /\ c.addr = a /\ c.size = n
  BY <1>1 DEF Give, Block
<1>3. b \in freeBlocks /\ b.size >= Take(n) /\ Take(n) \in Nat /\ Take(n) >= n
  BY AlignedGranule DEF Candidates, Take
<1>4. a \in Nat /\ b.size \in Nat /\ Passed(b) /\ OffThunks(b) /\ Granular(a)
  BY <1>0, <1>3, FreeTyped DEF FreeFine
<1>5. \A x \in live : ~Overlap(c, x)
  <2>1. TAKE x \in live
  <2>2. x.addr \in Nat /\ x.size \in Nat /\ ~Overlap(x, b)
    BY <1>0, <1>3, LiveTyped DEF FreeFine
  <2>3. b.addr <= c.addr /\ c.addr + c.size <= b.addr + b.size /\ c.addr \in Nat /\ c.size \in Nat
    BY <1>2, <1>3, <1>4
  <2> HIDE DEF c
  <2>4. QED
    BY <1>4, <2>2, <2>3, PartOfBlock
<1>6. OffThunks(c) /\ Passed(c)
  BY <1>0, <1>2, <1>3, <1>4, PartOfBlock
<1>7. Base1 <= a /\ a + n <= heapPtr' /\ a + n <= End2
  BY <1>0, <1>2, <1>4, <1>6, Bounds32 DEF Passed, PointerInHeap
<1>8. FreeFine'
  BY <1>0, <1>1, <1>2, FreeSplit
<1>9. SizesKnown'
  BY <1>0, <1>1, <1>4, <1>5, <1>7, SizesAdded DEF OneProgram
<1>10. LiveFine'
  BY <1>0, <1>2, <1>4, <1>5, <1>6, <1>7, LiveAdded
<1>11. PointerInHeap'
  BY <1>0, Bounds32 DEF PointerInHeap
<1>12. QED
  BY <1>8, <1>9, <1>10, <1>11 DEF Inv32
-----------------------------------------------------------------------------
(* The pointer moves, and the other steps.                                    *)

LEMMA Inv32Parts ==
    Inv32 => /\ PointerInHeap /\ SizesKnown /\ LiveFine /\ FreeFine /\ loaded = 1
             /\ heapPtr \in Nat /\ Base1 <= heapPtr /\ heapPtr <= End2
BY DEF Inv32, PointerInHeap

\* Nothing changes but the pointer, which moves on.
LEMMA PointerMoves ==
    ASSUME Inv32, heapPtr' \in Nat, heapPtr <= heapPtr', heapPtr' <= End2,
           UNCHANGED <<sizeOf, tracked, live, freeBlocks, loaded>>
    PROVE  Inv32'
<1>0. PointerInHeap /\ SizesKnown /\ LiveFine /\ FreeFine /\ loaded = 1 /\ heapPtr \in Nat /\ Base1 <= heapPtr
  BY Inv32Parts
<1>1. \A b : b.addr \in Nat /\ b.size \in Nat /\ Passed(b) => Passed(b)'
  BY <1>0 DEF Passed
<1>2. \A b \in live \cup freeBlocks : Passed(b)'
  BY <1>0, <1>1, LiveTyped, FreeTyped DEF LiveFine, FreeFine
<1>3. LiveFine'
  BY <1>0, <1>2 DEF LiveFine, OffThunks, Granular, Overlap
<1>4. FreeFine'
  BY <1>0, <1>2 DEF FreeFine, OffThunks, Granular, Overlap
<1>5. SizesKnown' /\ PointerInHeap' /\ loaded' = 1
  BY <1>0, Bounds32 DEF SizesKnown, PointerInHeap
<1>6. QED
  BY <1>3, <1>4, <1>5 DEF Inv32

\* The block from a on, ahead of the pointer, is given to the guest.
LEMMA AheadGiven ==
    ASSUME Inv32, NEW a \in Nat, NEW n \in Nat \ {0}, NEW pool \in BOOLEAN,
           heapPtr <= a, heapPtr' = a + n, heapPtr' <= End2, OffThunks(Block(a, n)),
           pool => Granular(a),
           live' = live \cup {[addr |-> a, size |-> n, pool |-> pool]},
           UNCHANGED <<freeBlocks, loaded>>
    PROVE  /\ PointerInHeap' /\ LiveFine' /\ FreeFine' /\ loaded' = 1
           /\ \A c \in live : ~Overlap(Block(a, n), c)
<1>0. LiveFine /\ FreeFine /\ loaded = 1 /\ heapPtr \in Nat /\ Base1 <= heapPtr
  BY Inv32Parts
<1>1. heapPtr' \in Nat /\ heapPtr <= heapPtr' /\ Base1 <= a /\ Base1 <= heapPtr' /\ a + n <= heapPtr'
  BY <1>0, Bounds32
<1>2. \A c \in live \cup freeBlocks : ~Overlap(Block(a, n), c)
  BY <1>0, AheadIsApart
<1>3. LiveFine'
  BY <1>0, <1>1, <1>2, LiveAdded
<1>4. FreeFine'
  BY <1>0, <1>1, <1>2, FreeKept
<1>5. QED
  BY <1>0, <1>1, <1>2, <1>3, <1>4 DEF PointerInHeap

LEMMA BumpStep ==
    ASSUME OneProgram, Inv32, tracked < MaxTracked, NEW n \in Nat \ {0}, NEW pool \in BOOLEAN,
           NEW p \in Nat, heapPtr <= p, p <= End2, pool => Granular(p),
           Bump32(p, n, pool), UNCHANGED loaded
    PROVE  Inv32'
<1> DEFINE a == Start(p, n)
<1>1. /\ a \in Nat /\ p <= a /\ a <= End2 /\ OffThunks(Block(a, n)) /\ (pool => Granular(a))
      /\ RegionEnd(a) \in Nat /\ RegionEnd(a) <= End2
  BY StartFine
<1>2. UNCHANGED freeBlocks /\ \/ heapPtr' = a /\ UNCHANGED <<sizeOf, tracked, live>>
                              \/ a + n <= RegionEnd(a) /\ heapPtr' = a + n /\ Give(Block(a, n), pool)
  BY <1>1 DEF Bump32
<1> HIDE DEF a
<1>3. heapPtr \in Nat /\ SizesKnown /\ LiveFine /\ PointerInHeap
  BY Inv32Parts
<1>4. CASE heapPtr' = a /\ UNCHANGED <<sizeOf, tracked, live>>
  <2>1. heapPtr' \in Nat /\ heapPtr <= heapPtr' /\ heapPtr' <= End2
    BY <1>1, <1>3, <1>4
  <2>2. QED
    BY <1>2, <1>4, <2>1, PointerMoves
<1>5. CASE a + n <= RegionEnd(a) /\ heapPtr' = a + n /\ Give(Block(a, n), pool)
  <2>1. heapPtr <= a /\ heapPtr' <= End2 /\ a + n <= End2
    BY <1>1, <1>3, <1>5, Bounds32
  <2>2. live' = live \cup {[addr |-> a, size |-> n, pool |-> pool]}
    BY <1>5 DEF Give, Block
  <2>3. /\ PointerInHeap' /\ LiveFine' /\ FreeFine' /\ loaded' = 1
        /\ \A c \in live : ~Overlap(Block(a, n), c)
    BY <1>1, <1>2, <1>5, <2>1, <2>2, AheadGiven
  <2>4. SizesKnown'
    BY <1>1, <1>3, <1>5, <2>1, <2>3, SizesAdded DEF OneProgram
  <2>5. QED
    BY <2>3, <2>4 DEF Inv32
<1>6. QED
  BY <1>2, <1>4, <1>5

LEMMA GuestAllocStep ==
    ASSUME OneProgram, Inv32, tracked < MaxTracked, NEW n \in Nat \ {0}, NEW pool \in BOOLEAN,
           NEW p \in Nat, heapPtr <= p, p <= End2, pool => Granular(p),
           GuestAlloc(p, n, pool), UNCHANGED loaded
    PROVE  Inv32'
<1>1. CASE Reuse32(n, pool) /\ heapPtr' = p
  BY <1>1, ReuseStep
<1>2. CASE Bump32(p, n, pool)
  BY <1>2, BumpStep
<1>3. QED
  BY <1>1, <1>2 DEF GuestAlloc

LEMMA GuestAllocAlignedStep ==
    ASSUME OneProgram, Inv32, tracked < MaxTracked, NEW n \in Nat \ {0},
           GuestAllocAligned(n), UNCHANGED loaded
    PROVE  Inv32'
<1> DEFINE p == AlignUp(heapPtr)
<1>1. p \in Nat /\ heapPtr <= p /\ p <= End2 /\ Granular(p)
  BY Inv32Parts, AlignedGranule, Bounds32
<1>2. GuestAlloc(p, n, TRUE)
  BY DEF GuestAllocAligned
<1> HIDE DEF p
<1>3. QED
  BY <1>1, <1>2, GuestAllocStep

\* GlobalAlloc tells the table nothing, and nothing it gives out is a pool.
LEMMA UntrackedKeeps ==
    ASSUME SizesKnown, NEW r, r.pool = FALSE, live' = live \cup {r}, UNCHANGED <<sizeOf, tracked>>
    PROVE  SizesKnown'
BY DEF SizesKnown

LEMMA GlobalAllocStep ==
    ASSUME Inv32, GlobalAlloc
    PROVE  Inv32'
<1>1. PICK n \in Sizes :
        LET a == Start(heapPtr, n)
        IN  IF a + n > RegionEnd(a)
              THEN heapPtr' = a /\ UNCHANGED live
              ELSE heapPtr' = a + n /\ live' = live \cup {[addr |-> a, size |-> n, pool |-> FALSE]}
  BY DEF GlobalAlloc
<1>2. UNCHANGED <<sizeOf, tracked, freeBlocks, loaded>> /\ n \in Nat \ {0}
  BY DEF GlobalAlloc, Call
<1> DEFINE a == Start(heapPtr, n)
<1>3. heapPtr \in Nat /\ heapPtr <= End2 /\ SizesKnown
  BY Inv32Parts
<1>4. /\ a \in Nat /\ heapPtr <= a /\ a <= End2 /\ OffThunks(Block(a, n))
      /\ RegionEnd(a) \in Nat /\ RegionEnd(a) <= End2
  BY <1>2, <1>3, StartFine
<1>5. \/ heapPtr' = a /\ UNCHANGED live
      \/ /\ a + n <= RegionEnd(a) /\ heapPtr' = a + n
         /\ live' = live \cup {[addr |-> a, size |-> n, pool |-> FALSE]}
  BY <1>1, <1>2, <1>4
<1> HIDE DEF a
<1>6. CASE heapPtr' = a /\ UNCHANGED live
  BY <1>2, <1>4, <1>6, PointerMoves
<1>7. CASE /\ a + n <= RegionEnd(a) /\ heapPtr' = a + n
           /\ live' = live \cup {[addr |-> a, size |-> n, pool |-> FALSE]}
  <2>1. heapPtr' <= End2
    BY <1>2, <1>4, <1>7, Bounds32
  <2>2. PointerInHeap' /\ LiveFine' /\ FreeFine' /\ loaded' = 1
    BY <1>2, <1>4, <1>7, <2>1, AheadGiven
  <2>3. SizesKnown'
    BY <1>2, <1>3, <1>7, UntrackedKeeps
  <2>4. QED
    BY <2>2, <2>3 DEF Inv32
<1>8. QED
  BY <1>5, <1>6, <1>7

\* The page that CommandLineToArgvW takes is in region 1, before the thunks.
LEMMA CommandLineStep ==
    ASSUME Inv32, CommandLineToArgv
    PROVE  Inv32'
<1>1. /\ heapPtr < End1 /\ heapPtr' = heapPtr + 1
      /\ live' = live \cup {[addr |-> heapPtr, size |-> 1, pool |-> FALSE]}
      /\ UNCHANGED <<sizeOf, tracked, freeBlocks, loaded>>
  BY DEF CommandLineToArgv, Call
<1>2. heapPtr \in Nat /\ SizesKnown
  BY Inv32Parts
<1>3. heapPtr <= heapPtr /\ heapPtr + 1 <= End2 /\ heapPtr + 1 <= HoleLo
  BY <1>1, <1>2, Bounds32
<1>4. OffThunks(Block(heapPtr, 1))
  BY <1>3 DEF OffThunks, Block
<1> DEFINE n == 1
           pool == FALSE
<1>5. PointerInHeap' /\ LiveFine' /\ FreeFine' /\ loaded' = 1
  <2>1. n \in Nat \ {0} /\ pool \in BOOLEAN /\ (pool => Granular(heapPtr)) /\ heapPtr' = heapPtr + n
        /\ OffThunks(Block(heapPtr, n)) /\ heapPtr' <= End2
        /\ live' = live \cup {[addr |-> heapPtr, size |-> n, pool |-> pool]}
        /\ UNCHANGED <<freeBlocks, loaded>>
    BY <1>1, <1>3, <1>4
  <2> HIDE DEF n, pool
  <2>2. QED
    BY <1>2, <2>1, AheadGiven
<1>6. SizesKnown'
  BY <1>1, <1>2, UntrackedKeeps
<1>7. QED
  BY <1>5, <1>6 DEF Inv32

\* A pool that is released joins the list with the size it was given.
LEMMA VirtualFree32Step ==
    ASSUME Inv32, VirtualFree32
    PROVE  Inv32'
<1>0. PointerInHeap /\ SizesKnown /\ LiveFine /\ FreeFine /\ loaded = 1
  BY Inv32Parts
<1>1. PICK b \in live :
        /\ b.pool
        /\ freeBlocks' = IF sizeOf[b.addr] = 0 \/ Cardinality(freeBlocks) >= MaxFree
                           THEN freeBlocks ELSE freeBlocks \cup {Block(b.addr, sizeOf[b.addr])}
        /\ live' = live \ {b}
  BY DEF VirtualFree32
<1>2. UNCHANGED <<heapPtr, sizeOf, tracked, loaded>>
  BY DEF VirtualFree32, Call
<1> DEFINE r == Block(b.addr, b.size)
<1>3. sizeOf[b.addr] = b.size
  BY <1>0, <1>1 DEF SizesKnown
<1>4. b.addr \in Nat /\ b.size \in Nat /\ b.size > 0 /\ Passed(b) /\ OffThunks(b) /\ Granular(b.addr)
  BY <1>0, <1>1, LiveTyped DEF LiveFine
<1>5. r.addr = b.addr /\ r.size = b.size /\ r \in FreeBlocks32
  BY <1>4 DEF Block, FreeBlocks32
<1>6. Passed(r) /\ OffThunks(r) /\ Granular(r.addr)
  BY <1>4, <1>5 DEF Passed, OffThunks
<1>7. freeBlocks' = freeBlocks \/ (freeBlocks' = freeBlocks \cup {r} /\ ~(Cardinality(freeBlocks) >= MaxFree))
  BY <1>1, <1>3
<1>8. IsFiniteSet(freeBlocks') /\ Cardinality(freeBlocks') <= MaxFree
  <2> DEFINE F == freeBlocks
  <2>1. IsFiniteSet(F) /\ Cardinality(F) <= MaxFree /\ Cardinality(F) \in Nat
    BY <1>0, FS_CardinalityType DEF FreeFine
  <2>2. Cardinality(F \cup {r}) = Cardinality(F) \/ Cardinality(F \cup {r}) = Cardinality(F) + 1
    <3>1. Cardinality(F \cup {r}) = IF r \in F THEN Cardinality(F) ELSE Cardinality(F) + 1
      BY <2>1, FS_AddElement, Zenon
    <3>2. QED
      BY <3>1
  <2>3. IsFiniteSet(F \cup {r})
    BY <2>1, FS_AddElement, Zenon
  <2>4. ~(Cardinality(F) >= MaxFree) => Cardinality(F \cup {r}) <= MaxFree
    BY <2>1, <2>2, Bounds32
  <2>5. QED
    BY <1>7, <2>1, <2>3, <2>4
<1> HIDE DEF r
<1>9. \A x \in live \ {b} : ~Overlap(x, r)
  <2>1. \A x \in live \ {b} : ~Overlap(x, b)
    BY <1>0, <1>1 DEF LiveFine
  <2>2. QED
    BY <1>5, <2>1 DEF Overlap
<1>10. \A f \in freeBlocks : ~Overlap(f, r) /\ ~Overlap(r, f)
  <2>1. \A f \in freeBlocks : ~Overlap(b, f)
    BY <1>0, <1>1 DEF FreeFine
  <2>2. QED
    BY <1>5, <2>1 DEF Overlap
<1>11. FreeFine'
  <2>1. freeBlocks' \subseteq FreeBlocks32
    BY <1>0, <1>5, <1>7 DEF FreeFine
  <2>2. \A f \in freeBlocks' : Passed(f) /\ OffThunks(f) /\ Granular(f.addr)
    BY <1>0, <1>6, <1>7 DEF FreeFine
  <2>3. \A f, g \in freeBlocks' : f # g => ~Overlap(f, g)
    BY <1>0, <1>7, <1>10 DEF FreeFine
  <2>4. \A x \in live', f \in freeBlocks' : ~Overlap(x, f)
    BY <1>0, <1>1, <1>7, <1>9 DEF FreeFine
  <2>5. QED
    BY <1>2, <1>8, <2>1, <2>2, <2>3, <2>4 DEF FreeFine, Passed, OffThunks, Granular, Overlap
<1>12. LiveFine'
  BY <1>0, <1>1, <1>2 DEF LiveFine, Passed, OffThunks, Granular, Overlap
<1>13. SizesKnown' /\ PointerInHeap' /\ loaded' = 1
  BY <1>0, <1>1, <1>2 DEF SizesKnown, PointerInHeap
<1>14. QED
  BY <1>11, <1>12, <1>13 DEF Inv32

-----------------------------------------------------------------------------
(* The theorem.                                                               *)

LEMMA Init32 == ASSUME OneProgram PROVE HeapInit => Inv32
<1> SUFFICES ASSUME HeapInit PROVE Inv32
  OBVIOUS
<1>1. IsFiniteSet({}) /\ Cardinality({}) = 0
  BY FS_EmptySet
<1>2. PointerInHeap /\ loaded = 1
  BY Bounds32 DEF HeapInit, PointerInHeap
<1>3. SizesKnown
  BY Bounds32 DEF HeapInit, SizesKnown
<1>4. LiveFine
  BY DEF HeapInit, LiveFine
<1>5. FreeFine
  BY <1>1, Bounds32 DEF HeapInit, FreeFine
<1>6. QED
  BY <1>2, <1>3, <1>4, <1>5 DEF Inv32

LEMMA Unchanged32 ==
    ASSUME Inv32, UNCHANGED tables32, UNCHANGED loaded
    PROVE  Inv32'
<1>1. heapPtr \in Nat /\ heapPtr <= heapPtr /\ heapPtr <= End2
  BY Inv32Parts
<1>2. QED
  BY <1>1, PointerMoves DEF tables32

LEMMA Step32 == ASSUME OneProgram PROVE Inv32 /\ [HeapNext]_heapVars => Inv32'
<1> SUFFICES ASSUME Inv32, [HeapNext]_heapVars PROVE Inv32'
  OBVIOUS
<1>0. heapPtr \in Nat /\ heapPtr <= heapPtr /\ heapPtr <= End2 /\ loaded = 1
  BY Inv32Parts
<1>1. CASE UNCHANGED heapVars
  BY <1>1, Unchanged32 DEF heapVars
<1>2. CASE HeapAlloc
  <2>1. PICK n \in Sizes : GuestAlloc(heapPtr, n, FALSE)
    BY <1>2 DEF HeapAlloc
  <2>2. n \in Nat \ {0} /\ tracked < MaxTracked /\ UNCHANGED loaded
    BY <1>2 DEF HeapAlloc, Room, Call
  <2>3. QED
    BY <1>0, <2>1, <2>2, GuestAllocStep
<1>3. CASE VirtualAlloc
  <2>1. PICK n \in Sizes : GuestAllocAligned(n) \/ UNCHANGED tables32
    BY <1>3 DEF VirtualAlloc
  <2>2. n \in Nat \ {0} /\ tracked < MaxTracked /\ UNCHANGED loaded
    BY <1>3 DEF VirtualAlloc, Room, Call
  <2>3. QED
    BY <2>1, <2>2, GuestAllocAlignedStep, Unchanged32
<1>4. CASE VirtualCommit \/ VirtualFree64 \/ GuestWrites
  BY <1>4, Unchanged32 DEF VirtualCommit, VirtualFree64, GuestWrites, Call
<1>5. ~LoadAgain
  BY <1>0 DEF LoadAgain, OneProgram
<1>6. QED
  BY <1>1, <1>2, <1>3, <1>4, <1>5, GlobalAllocStep, CommandLineStep, VirtualFree32Step DEF HeapNext

LEMMA Inv32Consistent == ASSUME OneProgram PROVE Inv32 => HeapConsistent
<1> SUFFICES ASSUME Inv32 PROVE HeapConsistent
  OBVIOUS
<1>0. PointerInHeap /\ SizesKnown /\ LiveFine /\ FreeFine
  BY Inv32Parts
<1>1. GuestHeapTypeOK
  <2>1. \A b \in live \cup freeBlocks : b.addr >= Base1 /\ b.addr + b.size <= End2
    <3>1. TAKE b \in live \cup freeBlocks
    <3>2. b.addr \in Nat /\ b.size \in Nat /\ Passed(b)
      BY <1>0, LiveTyped, FreeTyped DEF LiveFine, FreeFine
    <3>3. QED
      BY <1>0, <3>2, Bounds32 DEF Passed, PointerInHeap
  <2>2. heapPtr \in Base1 .. End2
    BY <1>0, Bounds32 DEF PointerInHeap
  <2>3. tracked \in 0 .. MaxAllocs
    BY <1>0, Bounds32 DEF SizesKnown, OneProgram
  <2>4. QED
    BY <1>0, <2>1, <2>2, <2>3 DEF GuestHeapTypeOK, FreeFine
<1>2. HeapBlocksDisjoint
  BY <1>0 DEF HeapBlocksDisjoint, LiveFine, FreeFine
<1>3. ThunksUntouched
  BY <1>0 DEF ThunksUntouched, LiveFine, OffThunks
<1>4. PoolsAligned
  BY <1>0 DEF PoolsAligned, LiveFine, Granular
<1>5. QED
  BY <1>1, <1>2, <1>3, <1>4 DEF HeapConsistent

\* Whatever the guest allocates and gives back, through whichever of the handlers:
\* no two blocks of the 32-bit heap share a page, none lies over the import
\* thunks, and pools start at granules, also where a freed block was used again
\* (wg_guest_alloc, wg_guest_alloc_aligned, wg_free_list_take, VirtualFree).  The
\* table of sizes is never full and one program is loaded.
THEOREM HeapStaysConsistent == ASSUME OneProgram PROVE HeapSpec => []HeapConsistent
<1>1. HeapInit => Inv32
  BY Init32
<1>2. Inv32 /\ [HeapNext]_heapVars => Inv32'
  BY Step32
<1>3. Inv32 => HeapConsistent
  BY Inv32Consistent
<1>4. QED
  BY <1>1, <1>2, <1>3, PTL DEF HeapSpec
=============================================================================
