----------------------------- MODULE Transcript -----------------------------
(***************************************************************************)
(* What an auditor can establish from the ledger alone, with no access to  *)
(* the engine that wrote it.  Needs KeepLedger.                            *)
(***************************************************************************)
EXTENDS Engine

\* The state the first n events replay to.
Replayed[n \in 0..Len(ledger)] ==
    IF n = 0 THEN None ELSE Apply(Replayed[n - 1], ledger[n])

Entry(i, type) == i \in DOMAIN ledger /\ ledger[i].type = type

Recorded == {ledger[i].artifact : i \in {j \in DOMAIN ledger :
                                           Entry(j, "ArtifactStored")}}

\* An accepted approval names the challenge that was issued last, and a human
\* signed that very challenge.
ApprovalsReverify ==
    \A i \in DOMAIN ledger : Entry(i, "ApprovalAccepted") =>
        /\ ledger[i].challenge \in signed
        /\ \E j \in 1..(i - 1) :
             /\ Entry(j, "ApprovalChallengeIssued")
             /\ ledger[j].challenge = ledger[i].challenge
             /\ \A n \in (j + 1)..(i - 1) :
                  ~Entry(n, "ApprovalChallengeIssued")

\* The event that must stand directly before event i.
Justification(i) ==
    CASE ledger[i].type \in {"MacroAdvanced", "SessionCompleted"} ->
           "MilestoneAccepted"
      [] ledger[i].type = "MacroLoopedBack" -> "MilestoneRejected"
      [] ledger[i].type = "SubStateAdvanced" /\ AtGate(Replayed[i - 1]) ->
           "ApprovalAccepted"
      [] ledger[i].type = "CircuitBreakerTriggered" ->
           CASE ledger[i].breaker = "ApprovalRejectionLimit" ->
                  "ApprovalRejected"
             [] ledger[i].breaker \in {"MaxIterations", "RepetitiveLoop"} ->
                  "MilestoneRejected"
             [] OTHER -> "none"
      [] OTHER -> "none"

\* Every move and every trip follows directly on the event that justifies it,
\* so that the reason for it can be read off the transcript.
MovesJustified ==
    \A i \in DOMAIN ledger :
        Justification(i) # "none" => Entry(i - 1, Justification(i))

\* The rejections of one macro carry increasing iteration numbers, restarts
\* and lost events notwithstanding.
RejectionsNumbered ==
    \A i \in DOMAIN ledger : Entry(i, "MilestoneRejected") =>
        ledger[i].iteration > Replayed[i - 1].macro_iteration

\* A terminal event is the last one.
TerminalIsLast ==
    \A i \in DOMAIN ledger :
        \/ Entry(i, "SessionCompleted")
        \/ Entry(i, "CircuitBreakerTriggered")
        => i = Len(ledger)

\* The final milestone is accepted, and its deliverable written, only while
\* every artifact the transcript records verifies, those recorded before a
\* restart included.
ArtifactsVerified ==
    [][/\ Active /\ IsFinal(session.position.macro)
       /\ \/ /\ Len(ledger') > Len(ledger)
             /\ ledger'[Len(ledger')] = MilestoneAccepted
          \/ pc' = "accepting"
       => Recorded \cap tampered = {}]_vars

=============================================================================
