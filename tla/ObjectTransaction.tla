------------------------- MODULE ObjectTransaction -------------------------
(***************************************************************************)
(* What the client promises about its account objects (Security /0 and     *)
(* Server /1): a bootstrap session works on them as a transaction.  While  *)
(* the session is open the bootstrap server rewrites them at will; when    *)
(* it succeeds the result is kept, when it fails every write of it is      *)
(* undone.  Outside a session a management server may change them.        *)
(***************************************************************************)
CONSTANT Contents       \* the values the two objects can hold

VARIABLES
    working,            \* what the objects hold now
    committed,          \* what they held when no session was open
    open                \* a bootstrap session is open

vars == <<working, committed, open>>

Init ==
    /\ committed \in Contents
    /\ working = committed
    /\ open = FALSE

Begin ==
    /\ ~open
    /\ open' = TRUE
    /\ UNCHANGED <<working, committed>>

Write ==
    /\ open
    /\ working' \in Contents
    /\ UNCHANGED <<committed, open>>

Commit ==
    /\ open
    /\ open' = FALSE
    /\ committed' = working
    /\ UNCHANGED working

Abort ==
    /\ open
    /\ open' = FALSE
    /\ working' = committed
    /\ UNCHANGED committed

Manage ==
    /\ ~open
    /\ working' \in Contents
    /\ committed' = working'
    /\ UNCHANGED open

Next == Begin \/ Write \/ Commit \/ Abort \/ Manage

Spec == Init /\ [][Next]_vars

=============================================================================
