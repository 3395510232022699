----------------------------- MODULE DMAInterface -----------------------------
(***************************************************************************)
(* What the DMA engine promises the systolic-array controller.  A command  *)
(* handed over with submit() is in flight until its last transaction has   *)
(* come back.  A read is reported complete when it leaves; a write may be  *)
(* reported while its transactions are still under way (completed_early),  *)
(* and is then never reported again.                                       *)
(***************************************************************************)
EXTENDS FiniteSets

CONSTANT Cmds

VARIABLES
    inflight,   \* commands with an entry in DMAEngine::inflight
    early,      \* those of them already reported (completed_early)
    reads       \* those of them that are reads

Init == inflight = {} /\ early = {} /\ reads = {}

\* DMAEngine::submit.
Submit(rd, wr) ==
    /\ inflight' = inflight \cup rd \cup wr
    /\ reads' = reads \cup rd
    /\ early' = early

\* One DMAEngine::cycle and the take_completed that follows it: report the
\* commands in done, drop the ones in drained.
Cycle(done, drained) ==
    /\ done \subseteq inflight \ early
    /\ drained \subseteq early \cup done
    /\ done \cap reads \subseteq drained
    /\ inflight' = inflight \ drained
    /\ early' = (early \cup done) \ drained
    /\ reads' = reads \ drained

Next ==
    \/ \E c \in Cmds \ inflight : Submit({c}, {}) \/ Submit({}, {c})
    \/ \E done \in SUBSET inflight : \E drained \in SUBSET inflight : Cycle(done, drained)

Spec == Init /\ [][Next]_<<inflight, early, reads>>
=============================================================================
