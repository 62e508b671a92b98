------------------------- MODULE BootstrapContract -------------------------
(***************************************************************************)
(* What a bootstrap provider promises the controller of a Machine: data is *)
(* published once and never rewritten, it is there before it is announced, *)
(* and a machine that was given it boots from exactly what was published.  *)
(* CritConfig implements this.                                             *)
(***************************************************************************)
CONSTANTS
    Data,           \* what bootstrap data may say
    None            \* no data

VARIABLES
    data,           \* the bootstrap data
    ready,          \* it is announced in the status
    given           \* the machine refers to it

contract == <<data, ready, given>>

Init == data = None /\ ready = FALSE /\ given = FALSE

Publish ==
    /\ data = None
    /\ data' \in Data
    /\ UNCHANGED <<ready, given>>

Announce ==
    /\ data # None
    /\ ready' = TRUE
    /\ UNCHANGED <<data, given>>

Give ==
    /\ ready
    /\ given' = TRUE
    /\ UNCHANGED <<data, ready>>

\* The objects move to another management cluster, which has no status yet.
Forget ==
    /\ ready' = FALSE
    /\ UNCHANGED <<data, given>>

Next == Publish \/ Announce \/ Give \/ Forget

Spec == Init /\ [][Next]_contract

=============================================================================
