------------------------------ MODULE SlotPool ------------------------------
(***************************************************************************)
(* What the graph execution pool promises its callers                      *)
(* (graph_execution_pool.py): a number of slots, each held by at most one  *)
(* of the users, taken with or without waiting, and given back once.  No   *)
(* condition variable, no deadline, no counters: TaskAdmission implements  *)
(* it.                                                                     *)
(***************************************************************************)
EXTENDS Naturals

CONSTANTS
    Users,  \* whoever may want a slot
    Slots   \* the number of slots

VARIABLES
    free,     \* slots nobody holds
    holders,  \* users that hold one
    wanting   \* users that wait for one

slotVars == <<free, holders, wanting>>

SlotInit == free = Slots /\ holders = {} /\ wanting = {}

Wait(u) ==
    /\ u \notin holders \cup wanting
    /\ wanting' = wanting \cup {u}
    /\ UNCHANGED <<free, holders>>

Take(u) ==
    /\ u \notin holders /\ free > 0
    /\ free' = free - 1
    /\ holders' = holders \cup {u}
    /\ wanting' = wanting \ {u}

\* A user whose patience is over.
Abandon(u) ==
    /\ u \in wanting
    /\ wanting' = wanting \ {u}
    /\ UNCHANGED <<free, holders>>

GiveBack(u) ==
    /\ u \in holders
    /\ free' = free + 1
    /\ holders' = holders \ {u}
    /\ UNCHANGED wanting

\* The process starts again.
Restart == free' = Slots /\ holders' = {} /\ wanting' = {}

SlotNext ==
    \/ \E u \in Users : Wait(u) \/ Take(u) \/ Abandon(u) \/ GiveBack(u)
    \/ Restart

SlotSpec == SlotInit /\ [][SlotNext]_slotVars
=============================================================================
