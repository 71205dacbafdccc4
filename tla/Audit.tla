------------------------------- MODULE Audit -------------------------------
(***************************************************************************)
(* What is computed offline from a transcript: the Merkle root a completed *)
(* session is issued, with the inclusion proofs against it, and the step   *)
(* metrics.  Neither reads anything but the ledger.                        *)
(***************************************************************************)
EXTENDS Transcript, Merkle, FiniteSetsExt

\* The events appended where a session arrives carry the new position, the
\* others the one the session stood at.
Arrivals == {"SessionStarted", "SubStateAdvanced", "MacroAdvanced", "MacroLoopedBack"}

\* The step each event was appended at.
StepIds ==
    [i \in DOMAIN ledger |->
        Replayed[IF ledger[i].type \in Arrivals THEN i ELSE i - 1].position]

EventsAt(steps, step) == {i \in DOMAIN ledger : steps[i] = step}

IsPassEvent(e) == e.type \in {"MilestoneAccepted", "SessionCompleted"}

\* Mutant: whatever leaves a step passes it, a loop-back too.
PassedMutant(steps, step) ==
    \E i \in EventsAt(steps, step) : i < Len(ledger) /\ steps[i + 1] # step

\* passed, rejections and status of compute_session_metrics.  Dwell times
\* are left out: they need a clock.
Passed(steps, step) == \E i \in EventsAt(steps, step) : IsPassEvent(ledger[i])

\* Mutant: refused approvals are not counted.
FrictionMutant == {"MilestoneRejected", "OutputContractViolated"}

Friction == {"MilestoneRejected", "ApprovalRejected", "OutputContractViolated"}

Rejections(steps, step) ==
    Cardinality({i \in EventsAt(steps, step) : ledger[i].type \in Friction})

MetricsStatus ==
    LET types == {e.type : e \in Range(ledger)}
    IN  IF "SessionCompleted" \in types THEN "Completed"
        ELSE IF "CircuitBreakerTriggered" \in types THEN "Failed"
        ELSE "Active"

-----------------------------------------------------------------------------
(* Properties.                                                             *)

Gate(m) == At(m, Trailing(m))

\* An auditor reads the ledger of a process that is gone, which may happen
\* after any event.
Read == session = None /\ ledger # <<>>

\* Every event of a completed session is proved by its path against the root
\* the session is issued, at its own position, and neither neighbour is proved
\* in its place: the order of two events cannot be swapped under the root.
InclusionProven ==
    Read /\ ledger[Len(ledger)].type = "SessionCompleted" =>
        LET n == Len(ledger)
            root == Root(ledger)
            paths == [i \in 1..n |-> Path(ledger, i - 1)]
        IN  \A j \in 1..n : \A i \in {j - 1, j, j + 1} \cap 1..n :
              VerifyProof(root, ledger[i], j - 1, n, paths[j]) <=> ledger[i] = ledger[j]

\* The metrics agree with what the recovery makes of the same transcript on
\* how the session ended, and on which checklists it has behind it: one that
\* only looped back has not passed, and one that passed has been left, unless
\* a failure came between the acceptance and the move.
MetricsFollow ==
    Read =>
        LET now == durable
            steps == StepIds
        IN  /\ MetricsStatus = now.status
            /\ \A m \in Macros :
                 LET left == now.position = None \/ m < now.position.macro
                     cutShort == \E i \in EventsAt(steps, Gate(m)) :
                                    /\ ledger[i].type = "MilestoneAccepted"
                                    /\ \/ i = Len(ledger)
                                       \/ ledger[i + 1].type \notin {"MacroAdvanced", "SessionCompleted"}
                 IN  /\ left => Passed(steps, Gate(m))
                     /\ Passed(steps, Gate(m)) => left \/ cutShort

\* The session holds the challenge of the gate it stands at.
HoldsChallenge(s) ==
    /\ AtGate(s) /\ s.pending_approval # None
    /\ At(s.pending_approval.macro, s.pending_approval.sub) = s.position

\* The friction the metrics report is the one the breakers act on: for a
\* checklist no more rejections than the iteration limit has counted, for a
\* gate that has its challenge no fewer than the approval limit has, across
\* loop-backs, restarts and lost events.
RejectionsCounted ==
    Read =>
        LET now == durable
            steps == StepIds
            gate == Gate(now.position.macro)
            violations == {i \in EventsAt(steps, gate) : Entry(i, "OutputContractViolated")}
        IN  now.position # None =>
              /\ Rejections(steps, gate) <= now.macro_iteration + Cardinality(violations)
              /\ HoldsChallenge(now) =>
                   now.approval_rejections <= Rejections(steps, now.position)

=============================================================================
