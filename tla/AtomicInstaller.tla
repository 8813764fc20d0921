--------------------------- MODULE AtomicInstaller ---------------------------
(***************************************************************************)
(* What the staging installer promises: an installation happens as a whole *)
(* or not at all, and a removal puts back exactly what was there before.   *)
(* An operation that is stopped half way, or that fails where the code has *)
(* no way back, tears the tree, and from then on nothing is promised.      *)
(***************************************************************************)
CONSTANTS
    Files,      \* the paths of the package
    Ours,       \* what the package puts there
    Users,      \* what a user may have put there
    Absent

VARIABLES
    tree,   \* what is at each path
    installed,
    saved,  \* while installed: what was there before
    torn

vars == <<tree, installed, saved, torn>>

Content == Users \cup {Ours, Absent}
Tree == [Files -> Content]
Package == [f \in Files |-> Ours]
Nothing == [f \in Files |-> Absent]

Init == tree \in Tree /\ ~installed /\ saved = Nothing /\ torn = FALSE

Install ==
    /\ ~installed /\ installed' = TRUE
    /\ saved' = tree /\ tree' = Package
    /\ torn' = torn

(* Only when every file still is the package's. *)
Uninstall ==
    /\ installed /\ tree = Package
    /\ installed' = FALSE
    /\ tree' = saved /\ saved' = Nothing
    /\ torn' = torn

Edit ==
    /\ \E f \in Files, c \in Content : tree' = [tree EXCEPT ![f] = c]
    /\ UNCHANGED <<installed, saved, torn>>

Tear == torn' = TRUE

Next == Tear \/ (~torn /\ (Install \/ Uninstall \/ Edit))

Spec == Init /\ [][Next]_vars
=============================================================================
