---------------------------- MODULE MCCoopGuest ----------------------------
(* Programs for CoopGuest.  A program calls what one of its mechanisms needs; *)
(* two mechanisms together would only multiply the states.                  *)
EXTENDS CoopGuest

CoopProgram(fns, on, tos) == [fns |-> fns \cup {"CreateThread"}, on |-> on, tos |-> tos]

EventProgram == CoopProgram({"CreateEvent", "SetEvent", "ResetEvent", "CloseHandle",
                         "WaitForSingleObject"},
                        {Event(0)}, {"zero", "infinite"})
JoinProgram == CoopProgram({"ResumeThread", "ExitThread", "return", "Sleep",
                        "WaitForSingleObject", "ShowDialog"},
                       {Thread(1), Thread(2)}, {"infinite", "finite"})
MultiProgram == CoopProgram({"CreateEvent", "SetEvent", "WaitForMultipleObjects"},
                        {Event(0), Event(1)}, {"infinite"})
CvProgram == CoopProgram({"SleepConditionVariableCS", "WakeConditionVariable"}, {},
                     {"infinite"})
PortProgram == CoopProgram({"PostQueuedCompletionStatus",
                        "GetQueuedCompletionStatus"}, {}, {"zero", "infinite"})
MessageProgram == CoopProgram({"PostThreadMessage", "PeekMessage", "GetMessage"}, {}, {})

AllPrograms == {EventProgram, JoinProgram, MultiProgram, CvProgram, PortProgram,
                MessageProgram}

LaterPrograms == {CoopProgram({"PeekMessage", "Sleep"}, {}, {})}
=============================================================================
