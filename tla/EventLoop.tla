------------------------------ MODULE EventLoop ------------------------------
(***************************************************************************)
(* What the servers of this repository promise about the loop they run on: *)
(* an io_context that is run at most once.  Handlers run one at a time,    *)
(* none begins before the loop runs, and none begins once it was halted;   *)
(* a handler that was executing when the loop was halted may still end,    *)
(* and one that ends by an exception may leave the loop halted.            *)
(***************************************************************************)

VARIABLES
    loop,   \* "fresh": never run, "running", "halted": stopped for good
    busy    \* a handler is executing

vars == <<loop, busy>>

Init ==
    /\ loop = "fresh"
    /\ busy = FALSE

Run ==
    /\ loop = "fresh"
    /\ loop' = "running"
    /\ UNCHANGED busy

BeginHandler ==
    /\ loop = "running"
    /\ ~busy
    /\ busy' = TRUE
    /\ UNCHANGED loop

EndHandler ==
    /\ busy
    /\ busy' = FALSE
    /\ loop' \in {loop, "halted"}

Halt ==
    /\ loop # "halted"
    /\ loop' = "halted"
    /\ UNCHANGED busy

Next == Run \/ BeginHandler \/ EndHandler \/ Halt

Spec == Init /\ [][Next]_vars

=============================================================================
