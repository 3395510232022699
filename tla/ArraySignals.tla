---------------------------- MODULE ArraySignals ----------------------------
(***************************************************************************)
(* What SAController::execute may assume of a weight-stationary array:     *)
(* the signals it reads (has_array_flipped, is_idle, weights_preloaded,    *)
(* is_psums_accumulated), when each may change, and the commands it        *)
(* answers.  SAController's Complete, StartExe and ArrayCycle move its     *)
(* array variables in these steps; WSMesh is shown to implement them.      *)
(***************************************************************************)
EXTENDS Naturals

VARIABLES
    preloading,  \* a PRELOAD is in executing_preload_cmds
    multiplies,  \* multiplies the accumulation buffer waits for
    flipped, mem_idle, preloaded, accumulated

signalVars == <<preloading, multiplies, flipped, mem_idle, preloaded, accumulated>>

Init ==
    /\ preloading = FALSE /\ multiplies = 0
    /\ flipped = TRUE /\ mem_idle = TRUE /\ preloaded = FALSE /\ accumulated = FALSE

\* The controller takes note of what is complete; reading resets it.
Collect ==
    /\ preloading' = (preloading /\ ~preloaded)
    /\ multiplies' = IF accumulated THEN multiplies - 1 ELSE multiplies
    /\ preloaded' = FALSE /\ accumulated' = FALSE
    /\ UNCHANGED <<flipped, mem_idle>>

Preload ==
    /\ ~preloading /\ flipped
    /\ preloading' = TRUE /\ flipped' = FALSE
    /\ UNCHANGED <<multiplies, mem_idle, preloaded, accumulated>>

Multiply ==
    /\ flipped /\ mem_idle
    /\ multiplies' = multiplies + 1 /\ mem_idle' = FALSE
    /\ UNCHANGED <<preloading, flipped, preloaded, accumulated>>

\* A signal is raised for work under way and stays until it is read; an idle
\* memory stays idle until the next multiply.
Cycle ==
    /\ flipped' \in BOOLEAN /\ mem_idle' \in BOOLEAN
    /\ preloaded' \in BOOLEAN /\ accumulated' \in BOOLEAN
    /\ mem_idle => mem_idle'
    /\ preloaded => preloaded'
    /\ accumulated => accumulated'
    /\ preloaded' => preloading
    /\ accumulated' => multiplies > 0
    /\ UNCHANGED <<preloading, multiplies>>

Next == Collect \/ Preload \/ Multiply \/ Cycle

Spec == Init /\ [][Next]_signalVars
=============================================================================
