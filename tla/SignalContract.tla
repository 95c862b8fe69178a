--------------------------- MODULE SignalContract ---------------------------
(***************************************************************************)
(* What a SignalHandler (signal_handling.go) promises to main.go: its      *)
(* callback runs for one signal at a time, and a signal that arrives while *)
(* it runs makes it run once more, however many arrive.                    *)
(***************************************************************************)
VARIABLES pending,  \* a signal has arrived that the callback has not seen
          busy      \* the callback is running

vars == <<pending, busy>>

Init == pending = FALSE /\ busy = FALSE

Arrive == pending' = TRUE /\ UNCHANGED busy

Take ==
    /\ pending /\ ~busy
    /\ pending' = FALSE /\ busy' = TRUE

Finish ==
    /\ busy
    /\ busy' = FALSE
    /\ UNCHANGED pending

Next == Arrive \/ Take \/ Finish

Spec == Init /\ [][Next]_vars
=============================================================================
