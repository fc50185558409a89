----------------------------- MODULE ResumeStore -----------------------------
(***************************************************************************)
(* What a part file promises the download that uses it, whatever crashes   *)
(* in between: a store that remembers complete chunks.  A chunk enters the *)
(* store at most once and never leaves it; a commit is acknowledged only   *)
(* when the chunk is in the store; and the store is promoted to the target *)
(* only when it holds every chunk.                                         *)
(***************************************************************************)
CONSTANT Chunks        \* the chunk indexes of the resource

VARIABLES
    stored,            \* chunks that survive any crash
    acked,             \* chunks whose commit has been acknowledged
    promoted           \* the store has become the target file

vars == <<stored, acked, promoted>>

Init ==
    /\ stored = {}
    /\ acked = {}
    /\ promoted = FALSE

\* A chunk becomes durable.
Store(c) ==
    /\ stored' = stored \cup {c}
    /\ UNCHANGED <<acked, promoted>>

\* The commit of a chunk returns, the chunk being durable by then.
Acknowledge(c) ==
    /\ stored' = stored \cup {c}
    /\ acked' = acked \cup {c}
    /\ UNCHANGED promoted

Promote ==
    /\ stored = Chunks
    /\ promoted' = TRUE
    /\ UNCHANGED <<stored, acked>>

Next ==
    \/ \E c \in Chunks : Store(c) \/ Acknowledge(c)
    \/ Promote

Spec == Init /\ [][Next]_vars
=============================================================================
