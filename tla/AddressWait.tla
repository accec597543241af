---------------------------- MODULE AddressWait ----------------------------
(***************************************************************************)
(* WaitOnAddress and WakeByAddress of Core/wg_engine.c, called by guest     *)
(* threads that run under the GIL of Gil.tla.  The handler of WaitOnAddress *)
(* is the one blocking handler without a block_begin / block_end bracket.   *)
(*                                                                          *)
(* The wait loop reads the address again every millisecond, so that nothing *)
(* depends on the broadcast of WakeByAddress.                               *)
(***************************************************************************)
EXTENDS Gil

CONSTANTS
    Timeouts    \* subset of {"timed", "inf"}

VARIABLES
    word,       \* the guest memory word at the address: 0 or 1
    stores,     \* threads whose next guest instructions store to the address
    woa         \* per thread: the value its WaitOnAddress compares with, or NoWait

addrVars == <<gilVars, word, stores, woa>>

NoWait == [k |-> "none"]

InWait(t) == woa[t] # NoWait

-----------------------------------------------------------------------------
\* The handler's call, up to the loop: the guest compares with any value.
WaitOnAddress(t) ==
    /\ at[t] = "in" /\ t \notin stores /\ ~InWait(t)
    /\ \E timeout \in Timeouts, want \in {0, 1} :
         woa' = [woa EXCEPT ![t] = [k |-> timeout, want |-> want]]
    /\ UNCHANGED <<gilVars, word, stores>>

\* The wait returns; the slice loop gives the GIL up after every handler.
Returns(t) ==
    /\ woa' = [woa EXCEPT ![t] = NoWait]
    /\ Unlock(t)
    /\ UNCHANGED <<word, stores>>

\* A turn of the loop finds a value other than the one compared with.
WaitSeesChange(t) == InWait(t) /\ word # woa[t].want /\ Returns(t)

\* The deadline of a finite timeout has passed.
WaitElapses(t) == woa[t].k = "timed" /\ Returns(t)

\* The guest stores to the address, in a slice.
Store(t) ==
    /\ at[t] = "in" /\ ~InWait(t) /\ t \in stores
    /\ word' = 1 - word
    /\ stores' = stores \ {t}
    /\ UNCHANGED <<gilVars, woa>>

\* Everything else a thread does under the GIL waits for its handler to return.
Quietly(t, step) == ~InWait(t) /\ step /\ UNCHANGED <<word, stores, woa>>

GetGil(t)    == Quietly(t, Lock(t) \/ Acquire(t) \/ DropPreference(t))
EndSlice(t)  == Quietly(t, t \notin stores /\ Unlock(t))
BeginBlock(t) == Quietly(t, t \notin stores /\ BlockBegin(t))
EndBlock(t)  == Quietly(t, BlockEnd(t))
Prefer(t, u) == Quietly(t, SetPrefer(t, u))
Pin(t)       == Quietly(t, TakeGuestLock(t) \/ LeaveGuestLock(t) \/ SpinlockAcquired(t))
Exit(t)      == Quietly(t, t \notin stores /\ Leave(t))

AddrInit ==
    /\ GilInit
    /\ word = 0
    /\ stores \in SUBSET Tid
    /\ woa = [t \in Tid |-> NoWait]

AddrNext ==
    \E t \in Tid : \/ GetGil(t) \/ EndSlice(t) \/ BeginBlock(t) \/ EndBlock(t)
                   \/ Pin(t) \/ Exit(t)
                   \/ \E u \in Tid : Prefer(t, u)
                   \/ Store(t)
                   \/ WaitOnAddress(t) \/ WaitSeesChange(t) \/ WaitElapses(t)

\* As in Gil; the loop polls, a deadline passes, and a thread about to store does
\* so in its next slice.
AddrFairness ==
    \A t \in Tid : /\ WF_addrVars(GetGil(t)) /\ WF_addrVars(EndSlice(t))
                   /\ WF_addrVars(Store(t))
                   /\ WF_addrVars(WaitSeesChange(t)) /\ WF_addrVars(WaitElapses(t))

AddrSpec == AddrInit /\ [][AddrNext]_addrVars /\ AddrFairness

-----------------------------------------------------------------------------
(* Properties.                                                              *)

\* "a value change WITHOUT a wake is still caught": a wait on an address that
\* another thread is about to store to ends.
StoreEndsWait ==
    \A t \in Tid : (InWait(t) /\ stores \ {t} # {}) ~> ~InWait(t)
=============================================================================
