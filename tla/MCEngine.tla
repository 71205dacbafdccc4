------------------------------ MODULE MCEngine ------------------------------
(***************************************************************************)
(* Small profiles for TLC.                                                 *)
(***************************************************************************)
EXTENDS Engine, TLC

CONSTANTS k1, k2, a1, a2, o1, o2

OneKey == {k1}
TwoKeys == {k1, k2}

On(kind) == [kind |-> kind, enabled |-> TRUE]
Off(kind) == [kind |-> kind, enabled |-> FALSE]

\* A looping macro with a gate between its loop target and its checklist, a
\* disabled sub-state on either side, and a final macro entered at a gate.
GatedPipeline ==
    <<[subs |-> <<Off("inject"), On("execute"), On("human_approval"),
                  Off("review"), On("checklist")>>,
       criteria |-> {k1}, max_iterations |-> 3, loop |-> TRUE],
      [subs |-> <<Off("execute"), On("human_approval"), On("checklist")>>,
       criteria |-> {k1, k2}, max_iterations |-> 2, loop |-> FALSE]>>

\* A pipeline that opens with a gate, so that the challenge is part of the
\* start, loops back past it, and ends in a macro that is a checklist alone.
GateFirstPipeline ==
    <<[subs |-> <<On("human_approval"), On("execute"), On("checklist")>>,
       criteria |-> {k1}, max_iterations |-> 3, loop |-> TRUE],
      [subs |-> <<On("checklist")>>,
       criteria |-> {k2}, max_iterations |-> 2, loop |-> FALSE]>>

\* The shortest pipeline with a loop-back through a gate, for runs that keep
\* the transcript; its last checklist fails the session at the first refusal.
LoopedGatePipeline ==
    <<[subs |-> <<On("execute"), On("human_approval"), On("checklist")>>,
       criteria |-> {k1}, max_iterations |-> 2, loop |-> TRUE],
      [subs |-> <<On("checklist")>>,
       criteria |-> {k1}, max_iterations |-> 1, loop |-> FALSE]>>

NoFaults == {}
CrashOnly == {"crash"}
CrashAndLoss == {"crash", "lost"}
Loss == {"lost"}
AnyFault == AllFaults

OneArtifact == {a1}
TwoArtifacts == {a1, a2}
NoArtifacts == {}
OneOutput == {o1}
TwoOutputs == {o1, o2}

Interchangeable == Permutations(TwoArtifacts) \cup Permutations(TwoOutputs)

=============================================================================
