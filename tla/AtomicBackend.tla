---------------------------- MODULE AtomicBackend ----------------------------
(***************************************************************************)
(* What the Persistence trait promises of a durable backend: save and      *)
(* try_save_delta take effect at one instant, an Ok answer means that no   *)
(* power loss can undo the effect, and a call that fails or is cut short   *)
(* leaves either the old state or the new one.                             *)
(***************************************************************************)
CONSTANTS
    States,     \* what load() may return
    Deltas,     \* the argument of try_save_delta
    NoCall,     \* no call is running
    Apply(_, _) \* the state a delta leads to

VARIABLES
    shown,  \* what load() would return now
    kept,   \* what load() may return after a power loss
    call,   \* the call that is running
    done    \* has it taken effect?

vars == <<shown, kept, call, done>>

Calls == [op : {"delta"}, arg : Deltas] \cup [op : {"full"}, arg : States]

Target == IF call.op = "delta" THEN Apply(shown, call.arg) ELSE call.arg

Begin(c) ==
    /\ call = NoCall
    /\ call' = c
    /\ UNCHANGED <<shown, kept, done>>

TakeEffect ==
    /\ call # NoCall
    /\ ~done
    /\ shown' = Target
    /\ kept' = kept \cup {Target}
    /\ done' = TRUE
    /\ UNCHANGED call

MakeDurable ==
    /\ kept' = {shown}
    /\ UNCHANGED <<shown, call, done>>

ReturnOk ==
    /\ call # NoCall
    /\ done
    /\ kept' = {shown}
    /\ call' = NoCall
    /\ done' = FALSE
    /\ UNCHANGED shown

\* An Err, or the end of the process.
CutShort ==
    /\ call # NoCall
    /\ call' = NoCall
    /\ done' = FALSE
    /\ UNCHANGED <<shown, kept>>

PowerLoss ==
    /\ shown' \in kept
    /\ kept' = {shown'}
    /\ call' = NoCall
    /\ done' = FALSE

Init ==
    /\ shown \in States
    /\ kept = {shown}
    /\ call = NoCall
    /\ done = FALSE

Next ==
    \/ \E c \in Calls : Begin(c)
    \/ TakeEffect
    \/ MakeDurable
    \/ ReturnOk
    \/ CutShort
    \/ PowerLoss

Spec == Init /\ [][Next]_vars
==============================================================================
