----------------------------- MODULE VirtualDisk -----------------------------
(***************************************************************************)
(* What a virtual disk promises its clients: one write of an lba at a time  *)
(* takes effect at once, is answered only after it has taken effect, and is *)
(* still there after a crash.  A write that fails leaves no trace, and one  *)
(* the crash caught unanswered has happened altogether or not at all.       *)
(* WritePath is shown to implement this specification.                      *)
(***************************************************************************)
CONSTANTS Write, Lba, None

VARIABLES
    value,    \* value[l]: what a read of l returns; while down, the answered write
    pending,  \* pending[l]: the write of l under way, or None
    answered, \* answered[l]: the last write of l the client was told succeeded
    up        \* commands are served

vars == <<value, pending, answered, up>>

\* An lba that was never written holds its first content, named after the lba.
Init ==
    /\ value = [l \in Lba |-> l]
    /\ pending = [l \in Lba |-> None]
    /\ answered = value
    /\ up = TRUE

Start(l, w) ==
    /\ up /\ pending[l] = None
    /\ pending' = [pending EXCEPT ![l] = w]
    /\ UNCHANGED <<value, answered, up>>

Effect(l) ==
    /\ up /\ pending[l] # None
    /\ value' = [value EXCEPT ![l] = pending[l]]
    /\ UNCHANGED <<pending, answered, up>>

Answer(l) ==
    /\ up /\ pending[l] # None /\ value[l] = pending[l]
    /\ answered' = [answered EXCEPT ![l] = pending[l]]
    /\ UNCHANGED <<value, pending, up>>

\* A write that has not been answered is undone.
Undo(l) ==
    /\ up /\ pending[l] # None
    /\ value' = [value EXCEPT ![l] = answered[l]]
    /\ UNCHANGED <<pending, answered, up>>

\* The write is over, answered or undone.
End(l) ==
    /\ up /\ pending[l] # None /\ value[l] = answered[l]
    /\ pending' = [pending EXCEPT ![l] = None]
    /\ UNCHANGED <<value, answered, up>>

Crash ==
    /\ up' = FALSE
    /\ value' = answered
    /\ UNCHANGED <<pending, answered>>

\* Each write the crash caught has happened or has not.
Recover ==
    /\ ~up /\ up' = TRUE
    /\ \A l \in Lba : value'[l] \in {answered[l]} \cup ({pending[l]} \ {None})
    /\ value' = [l \in Lba |-> value'[l]]
    /\ answered' = value'
    /\ pending' = [l \in Lba |-> None]

Next ==
    \/ \E l \in Lba, w \in Write : Start(l, w)
    \/ \E l \in Lba : Effect(l) \/ Answer(l) \/ Undo(l) \/ End(l)
    \/ Crash
    \/ Recover

Spec == Init /\ [][Next]_vars
=============================================================================
