----------------------------- MODULE RefreshSpec -----------------------------
(***************************************************************************)
(* What a refresh of the prices promises to the window and to the shops,   *)
(* whatever its walks, threads and events: the cells it was started for    *)
(* are each searched for at most once, one at a time per shop, and it ends *)
(* when every one has been answered, or, after Stop, given up.             *)
(***************************************************************************)
CONSTANTS
    Cell,        \* the cells of the table
    ShopOfCell   \* the shop whose plugin is asked for a cell

VARIABLES
    guiState,    \* the button: "Ready", "InProgress" or "Stopping"
    waiting,     \* the cells still to be searched for
    busy         \* the cells whose plugin is searching

specVars == <<guiState, waiting, busy>>

Init == guiState = "Ready" /\ waiting = {} /\ busy = {}

\* the user starts a refresh of some cells
Start(S) ==
    /\ guiState = "Ready" /\ guiState' = "InProgress"
    /\ waiting' = S /\ busy' = {}

\* a plugin without a search is given one; never after Stop
Ask(x) ==
    /\ guiState = "InProgress" /\ guiState' = guiState
    /\ x \in waiting /\ \A y \in busy : ShopOfCell[y] # ShopOfCell[x]
    /\ waiting' = waiting \ {x} /\ busy' = busy \cup {x}

\* a cell is answered, perhaps by a late answer before it was asked for
Answered(x) ==
    /\ guiState # "Ready" /\ guiState' = guiState
    /\ waiting' = waiting \ {x} /\ busy' = busy \ {x}

Stop ==
    /\ guiState = "InProgress" /\ guiState' = "Stopping"
    /\ UNCHANGED <<waiting, busy>>

\* after Stop what still waits is dropped
Drop(S) ==
    /\ guiState = "Stopping" /\ guiState' = guiState
    /\ waiting' = waiting \ S /\ busy' = busy

\* after Stop a search whose plugin has ended is put back to be dropped
GiveUp(x) ==
    /\ guiState = "Stopping" /\ guiState' = guiState
    /\ x \in busy
    /\ busy' = busy \ {x} /\ waiting' = waiting \cup {x}

\* the end of a refresh: nothing waits and nobody searches
End ==
    /\ guiState # "Ready" /\ guiState' = "Ready"
    /\ waiting = {} /\ busy = {}
    /\ UNCHANGED <<waiting, busy>>

Next ==
    \/ \E S \in SUBSET Cell : Start(S) \/ Drop(S)
    \/ \E x \in Cell : Ask(x) \/ Answered(x) \/ GiveUp(x)
    \/ Stop \/ End

Spec == Init /\ [][Next]_specVars
=============================================================================
