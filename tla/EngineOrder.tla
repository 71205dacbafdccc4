---------------------------- MODULE EngineOrder ----------------------------
(***************************************************************************)
(* The engine implements ForcedOrder.  The step a session is at is read    *)
(* off its ledger, so the promise covers what any restart would resume.    *)
(***************************************************************************)
EXTENDS Engine

\* Number of enabled sub-states of the macros before m.
Before(m) ==
    Cardinality({q \in Macros \X UNION {Subs(n) : n \in Macros} :
                    q[1] < m /\ q[2] \in EnabledSubs(q[1])})

StepAt(p) ==
    Before(p.macro) + Cardinality({k \in EnabledSubs(p.macro) : k <= p.sub})

EnabledPositions ==
    {At(q[1], q[2]) : q \in {r \in Macros \X UNION {Subs(n) : n \in Macros} :
                                r[2] \in EnabledSubs(r[1])}}

StepCount == Before(Len(Pipeline) + 1)

GateSteps ==
    {StepAt(p) : p \in {q \in EnabledPositions :
                           Kind(q.macro, q.sub) = "human_approval"}}

LoopingMacros == {m \in Macros : AutoLoop /\ Pipeline[m].loop}

LoopTarget ==
    [i \in {StepAt(At(m, Trailing(m))) : m \in LoopingMacros} |->
        LET m == CHOOSE n \in LoopingMacros : StepAt(At(n, Trailing(n))) = i
        IN  StepAt(At(m, FirstExecute(m)))]

CurrentStep ==
    IF ~published THEN 0
    ELSE IF durable.position = None THEN StepCount + 1
    ELSE StepAt(durable.position)

Consented ==
    \E s \in {session, durable} \ {None} :
        s.pending_approval # None /\ s.pending_approval \in signed

Order == INSTANCE ForcedOrder WITH
            Steps <- StepCount, Gates <- GateSteps, Target <- LoopTarget,
            step <- CurrentStep,
            failed <- published /\ durable.status = "Failed",
            consent <- Consented

\* The engine, with its crashes and failed appends, takes the steps of the
\* profile in their order and leaves no gate without a consent.
ImplementsForcedOrder == Order!OrderSpec

=============================================================================
