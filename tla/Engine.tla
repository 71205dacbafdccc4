------------------------------- MODULE Engine -------------------------------
(***************************************************************************)
(* One session of ProfileFsmEngine and the ledger it is recorded in.       *)
(*                                                                         *)
(* The engine runs under the gateway's mutex, so handlers of one process   *)
(* never interleave; what does interleave is a handler and the failures    *)
(* around it.  A handler is therefore cut at its ledger appends: one       *)
(* action reaches from one append to the next, and `pc' names the append   *)
(* the handler goes on to.  Between two actions the process may crash, and *)
(* each append may fail.                                                   *)
(*                                                                         *)
(* `session' is the entry of the engine's in-memory map.  `durable' is the *)
(* state that recover_profile_session computes from the ledger: every      *)
(* append folds its event into it (Apply), so a recovery is                *)
(* session' = durable and histories of any length stay in a finite state   *)
(* space.  The transcript itself is kept in `ledger' when KeepLedger.      *)
(***************************************************************************)
EXTENDS Profile

CONSTANTS
    None,                  \* Option::None
    OscillationThreshold,  \* settings.oscillation_detection_threshold
    AutoLoop,              \* settings.auto_loop_on_checklist_failure
    ApprovalCap,           \* settings.approval_rejection_cap, 0 disables it
    HasTimeout,            \* settings.global_timeout_seconds # 0
    HasContract,           \* the profile has an output contract
    Outputs,               \* outputs that satisfy the contract's schema
    Artifacts,             \* artifacts a client may offload
    Faults,                \* the failures that happen, a subset of AllFaults
    MaxFaults,             \* bound: failures in one behaviour
    MaxUncapped,           \* bound: approval rejections when ApprovalCap = 0,
                           \* violations of the contract when KeepLedger
    KeepLedger             \* keep the transcript (bounded histories only)

\* crash:    the process dies between two appends and is restarted
\* lost:     an append returns an error and leaves nothing in the ledger; a
\*           library entry that no longer resolves fails at the same points
\* unsynced: an append returns an error (fdatasync failed) although the line
\*           was written and a later replay reads it
AllFaults == {"crash", "lost", "unsynced"}

ASSUME EngineAssumption ==
    /\ OscillationThreshold \in Nat
    /\ AutoLoop \in BOOLEAN
    /\ ApprovalCap \in Nat
    /\ HasTimeout \in BOOLEAN
    /\ HasContract \in BOOLEAN
    /\ Faults \subseteq AllFaults
    /\ MaxFaults \in Nat
    /\ MaxUncapped \in Nat
    /\ KeepLedger \in BOOLEAN

VARIABLES
    session,      \* the live SessionState, None when not in the map
    durable,      \* the SessionState the ledger replays to
    ledger,       \* the transcript, when KeepLedger
    pc,           \* where the handler in progress stands
    inflight,     \* the artifact or output the handler in progress holds
    published,    \* protocol_start returned; the session can be recovered
    minted,       \* number of challenges minted so far
    arrival,      \* history: challenges minted before the last move
    signed,       \* challenges the human has signed
    expired,      \* the wall-clock budget is used up
    blobs,        \* artifact files written to the store
    tampered,     \* artifact files changed since
    deliverable,  \* content of the output-contract file
    committed,    \* output digest in the last SessionCompleted
    faults        \* number of failures so far, of each kind

\* What lies outside the engine and its handlers.
world == <<published, signed, expired, blobs, tampered>>

vars == <<session, durable, ledger, pc, inflight, published, minted, arrival,
          signed, expired, blobs, tampered, deliverable, committed, faults>>

\* idle: no handler runs.  Every other value names the append that is next.
Locations == {"idle", "entering", "publishing", "rejected", "advancing",
              "accepting", "completing", "approved", "tripping", "storing"}

-----------------------------------------------------------------------------
(* Session state and the events that are recorded of it.                   *)

Challenge == [macro : Macros, sub : Nat, nonce : Nat]

Status == {"Active", "Completed", "Failed"}

SessionState ==
    [status : Status,
     position : Positions \cup {None},
     macro_iteration : Nat,
     identical_rejections : Nat,
     last_keys : SUBSET Keys,
     approval_rejections : Nat,
     pending_approval : Challenge \cup {None},
     artifacts : SUBSET Artifacts]

ASSUME NoneAssumption ==
    None \notin SessionState \cup Positions \cup Challenge
                 \cup Outputs \cup Artifacts

SessionStarted == [type |-> "SessionStarted"]
MilestoneRejected(keys, n) ==
    [type |-> "MilestoneRejected", keys |-> keys, iteration |-> n]
MilestoneAccepted == [type |-> "MilestoneAccepted"]
SubStateAdvanced(k, j) == [type |-> "SubStateAdvanced", from |-> k, to |-> j]
MacroAdvanced(m, n) == [type |-> "MacroAdvanced", from |-> m, to |-> n]
MacroLoopedBack(k, j) == [type |-> "MacroLoopedBack", from |-> k, to |-> j]
CircuitBreakerTriggered(b) ==
    [type |-> "CircuitBreakerTriggered", breaker |-> b]
SessionCompleted(o) == [type |-> "SessionCompleted", output |-> o]
OutputContractViolated == [type |-> "OutputContractViolated"]
ArtifactStored(a) == [type |-> "ArtifactStored", artifact |-> a]
ApprovalChallengeIssued(c) ==
    [type |-> "ApprovalChallengeIssued", challenge |-> c]
ApprovalAccepted(c) == [type |-> "ApprovalAccepted", challenge |-> c]
ApprovalRejected == [type |-> "ApprovalRejected"]

At(m, k) == [macro |-> m, sub |-> k]

\* The state of a session that starts, live and replayed alike.
Fresh ==
    [status |-> "Active",
     position |-> At(1, FirstEnabled(1)),
     macro_iteration |-> 0,
     identical_rejections |-> 0,
     last_keys |-> {},
     approval_rejections |-> 0,
     pending_approval |-> None,
     artifacts |-> {}]

-----------------------------------------------------------------------------
(* Recovery: the fold of recover_profile_session.                          *)

\* Mutant: the streak survives a rejection with other keys.
RejectionReplayedMutant(s, e) ==
    [s EXCEPT !.last_keys = e.keys,
              !.identical_rejections = @ + 1,
              !.macro_iteration = e.iteration]

RejectionReplayed(s, e) ==
    LET identical == s.identical_rejections > 0 /\ e.keys = s.last_keys
    IN  [s EXCEPT !.last_keys = e.keys,
                  !.identical_rejections = IF identical THEN @ + 1 ELSE 1,
                  !.macro_iteration = e.iteration]

\* Mutant: the session is put at the first sub-state, enabled or not.
MacroEnteredMutant(s, m) ==
    [s EXCEPT !.position = At(m, 1),
              !.macro_iteration = 0,
              !.identical_rejections = 0,
              !.last_keys = {},
              !.pending_approval = None]

MacroEntered(s, m) ==
    [s EXCEPT !.position = At(m, FirstEnabled(m)),
              !.macro_iteration = 0,
              !.identical_rejections = 0,
              !.last_keys = {},
              !.pending_approval = None]

\* Mutant: artifacts are not rehydrated.
ArtifactReplayedMutant(s, a) == s

ArtifactReplayed(s, a) == [s EXCEPT !.artifacts = @ \cup {a}]

Apply(s, e) ==
    IF e.type = "SessionStarted" THEN Fresh ELSE
    IF s = None THEN None ELSE
    CASE e.type = "MilestoneRejected" -> RejectionReplayed(s, e)
      [] e.type \in {"SubStateAdvanced", "MacroLoopedBack"} ->
           [s EXCEPT !.position = IF @ = None THEN None ELSE At(@.macro, e.to),
                     !.pending_approval = None]
      [] e.type = "MacroAdvanced" -> MacroEntered(s, e.to)
      [] e.type = "CircuitBreakerTriggered" -> [s EXCEPT !.status = "Failed"]
      [] e.type = "SessionCompleted" ->
           [s EXCEPT !.status = "Completed", !.position = None]
      [] e.type = "ApprovalChallengeIssued" ->
           [s EXCEPT !.pending_approval = e.challenge,
                     !.approval_rejections = 0]
      [] e.type = "ApprovalAccepted" -> [s EXCEPT !.pending_approval = None]
      [] e.type = "ApprovalRejected" -> [s EXCEPT !.approval_rejections = @ + 1]
      [] e.type = "ArtifactStored" -> ArtifactReplayed(s, e.artifact)
      [] e.type \in {"MilestoneAccepted", "OutputContractViolated"} -> s

-----------------------------------------------------------------------------
(* Appending to the ledger.                                                *)

Log(e) ==
    /\ durable' = Apply(durable, e)
    /\ ledger' = IF KeepLedger THEN Append(ledger, e) ELSE ledger
    /\ committed' = IF e.type = "SessionCompleted" THEN e.output ELSE committed

Failures == faults["crash"] + faults["lost"] + faults["unsynced"]

Fault(kind) ==
    /\ kind \in Faults
    /\ Failures < MaxFaults
    /\ faults' = [faults EXCEPT ![kind] = @ + 1]

AppendFails(e) ==
    \/ Fault("lost") /\ UNCHANGED <<durable, ledger, committed>>
    \/ Fault("unsynced") /\ Log(e)

\* A handler appends e with its memory at `before'.  On Ok the memory becomes
\* `after' and control goes on at `next'; on Err the handler returns.
Attempt(e, before, after, next) ==
    \/ /\ Log(e)
       /\ session' = after
       /\ pc' = next
       /\ arrival' = IF after.position # session.position
                     THEN minted ELSE arrival
       /\ UNCHANGED faults
    \/ /\ AppendFails(e)
       /\ session' = before
       /\ pc' = "idle"
       /\ UNCHANGED arrival

-----------------------------------------------------------------------------
(* Entering a sub-state.                                                   *)

Settled == IF published THEN "idle" ELSE "publishing"

\* Mutant: a route that does not go through enter_sub.
ArrivedMutant(p) == Settled

\* Where a handler goes on once the session stands at position p.
Arrived(p) ==
    IF Kind(p.macro, p.sub) = "human_approval" THEN "entering" ELSE Settled

\* Mutant: the parked challenge survives the move.
RepositionedMutant(s, p) == [s EXCEPT !.position = p]

Repositioned(s, p) == [s EXCEPT !.position = p, !.pending_approval = None]

\* A start that fails takes the session out of the map, and protocol_start
\* removes the ledger file it had claimed.
StartAborted ==
    /\ Fault("lost") \/ Fault("unsynced")
    /\ session' = None
    /\ durable' = None
    /\ ledger' = <<>>
    /\ pc' = "idle"
    /\ UNCHANGED <<committed, arrival>>

\* issue_for.
IssuedFor(p) == [macro |-> p.macro, sub |-> p.sub, nonce |-> minted + 1]

\* enter_sub at a gate: mint a challenge, ledger it, park it.
EnterGate ==
    LET c == IssuedFor(session.position)
        parked == [session EXCEPT !.pending_approval = c,
                                  !.approval_rejections = 0]
    IN  /\ pc = "entering"
        /\ minted' = minted + 1
        /\ \/ published /\ Attempt(ApprovalChallengeIssued(c), session, parked,
                                   Settled)
           \/ /\ ~published
              /\ Log(ApprovalChallengeIssued(c))
              /\ session' = parked
              /\ pc' = Settled
              /\ UNCHANGED <<faults, arrival>>
           \/ ~published /\ StartAborted
        /\ UNCHANGED <<world, inflight, deliverable>>

-----------------------------------------------------------------------------
(* protocol_start / start_session.                                         *)

StartSession ==
    /\ pc = "idle" /\ session = None /\ durable = None
    /\ \/ /\ Log(SessionStarted)
          /\ session' = Fresh
          /\ pc' = Arrived(Fresh.position)
          /\ UNCHANGED <<faults, arrival>>
       \/ StartAborted
    /\ expired' = FALSE
    /\ UNCHANGED <<inflight, published, minted, signed, blobs, tampered,
                   deliverable>>

\* The session is registered and its sidecar written; protocol_start returns.
Publish ==
    /\ pc = "publishing"
    /\ published' = TRUE
    /\ pc' = "idle"
    /\ UNCHANGED <<session, durable, ledger, inflight, minted, arrival, signed, expired,
                   blobs, tampered, deliverable, committed, faults>>

-----------------------------------------------------------------------------
(* submit_milestone, up to the dispatch on the sub-state's type.           *)

\* Mutant: an ended session is told by its position, as the field's comment has
\* it, instead of by its status.
ActiveMutant ==
    pc = "idle" /\ published /\ session # None /\ session.position # None

Active == pc = "idle" /\ published /\ session # None /\ session.status = "Active"

\* A submission for the tracked position, inside the wall-clock budget.  Any
\* other submission is refused without a change of state.
Submitted(kinds) ==
    /\ Active
    /\ ~expired
    /\ session.position.sub \in Subs(session.position.macro)
    /\ Kind(session.position.macro, session.position.sub) \in kinds

\* Mutant: a status of the breakers' own.
FailedMutant(s) == [s EXCEPT !.status = "Tripped"]

Failed(s) == [s EXCEPT !.status = "Failed"]

\* Mutant: the trip is recorded, the session goes on.
TripMutant(breaker) ==
    Attempt(CircuitBreakerTriggered(breaker), session, session, "idle")

Trip(breaker) ==
    Attempt(CircuitBreakerTriggered(breaker), session, Failed(session), "idle")

GlobalTimeout ==
    /\ Active
    /\ expired
    /\ Trip("GlobalTimeout")
    /\ UNCHANGED <<world, inflight, minted, deliverable>>

-----------------------------------------------------------------------------
(* advance_plain: what a submission for an ungated sub-state does, and the  *)
(* second half of an accepted approval.                                    *)

AdvancePlain ==
    /\ LET p == session.position
           next == At(p.macro, NextEnabled(p.macro, p.sub))
       IN  Attempt(SubStateAdvanced(p.sub, next.sub),
                   session, Repositioned(session, next), Arrived(next))
    /\ UNCHANGED <<world, inflight, minted, deliverable>>

\* Mutant: a gate is dispatched like any sub-state that is not a checklist.
AdvanceUngatedMutant ==
    /\ Submitted({"inject", "execute", "review", "human_approval"})
    /\ AdvancePlain

AdvanceUngated == Submitted({"inject", "execute", "review"}) /\ AdvancePlain

-----------------------------------------------------------------------------
(* step_approval.                                                          *)

\* Mutant: any signature of the approver will do.
VerifiesMutant(sig) == session.pending_approval # None /\ sig # None

\* Does `sig', a signature over a challenge or None for anything else, verify
\* against the challenge that is live at this gate?
Verifies(sig) ==
    LET c == session.pending_approval
    IN  /\ c # None
        /\ At(c.macro, c.sub) = session.position
        /\ sig = c

AcceptApproval ==
    /\ Submitted({"human_approval"})
    /\ \E sig \in signed :
         /\ Verifies(sig)
         /\ Attempt(ApprovalAccepted(sig), session, session, "approved")
    /\ UNCHANGED <<world, inflight, minted, deliverable>>

AdvanceApproved == pc = "approved" /\ AdvancePlain

\* Mutant: a refused submission spends the challenge.
RefusedMutant(s) == [s EXCEPT !.approval_rejections = @ + 1,
                              !.pending_approval = None]

Refused(s) == [s EXCEPT !.approval_rejections = @ + 1]

RejectApproval ==
    /\ Submitted({"human_approval"})
    /\ ApprovalCap = 0 => session.approval_rejections < MaxUncapped
    /\ \E sig \in signed \cup {None} : ~Verifies(sig)
    /\ LET counted == Refused(session)
           capped == ApprovalCap # 0
                     /\ counted.approval_rejections >= ApprovalCap
       IN  Attempt(ApprovalRejected, session, counted,
                   IF capped THEN "tripping" ELSE "idle")
    /\ UNCHANGED <<world, inflight, minted, deliverable>>

TripApprovalLimit ==
    /\ pc = "tripping"
    /\ Trip("ApprovalRejectionLimit")
    /\ UNCHANGED <<world, inflight, minted, deliverable>>

-----------------------------------------------------------------------------
(* step_checklist with criteria missing: reject_checklist.                 *)

\* Mutant: only repetitions use up iterations.
RejectionCountedMutant(s, keys) ==
    LET identical == s.identical_rejections > 0 /\ keys = s.last_keys
    IN  [s EXCEPT !.macro_iteration = IF identical THEN @ + 1 ELSE @,
                  !.last_keys = keys,
                  !.identical_rejections = IF identical THEN @ + 1 ELSE 1]

\* The counters after one more rejection that carried `keys'.
RejectionCounted(s, keys) ==
    LET identical == s.identical_rejections > 0 /\ keys = s.last_keys
    IN  [s EXCEPT !.macro_iteration = @ + 1,
                  !.last_keys = keys,
                  !.identical_rejections = IF identical THEN @ + 1 ELSE 1]

\* The counters are in memory before the event is in the ledger, and stay
\* there when the append fails.
RejectChecklist ==
    /\ Submitted({"checklist"})
    /\ \E evidence \in Evidence :
         /\ MissingCriteria(session.position.macro, evidence) # {}
         /\ LET keys == CarriedKeys(evidence)
                counted == RejectionCounted(session, keys)
            IN  Attempt(MilestoneRejected(keys, counted.macro_iteration),
                        counted, counted, "rejected")
    /\ UNCHANGED <<world, inflight, minted, deliverable>>

\* Mutant: the limit is compared for equality.
IterationsUsedUpMutant ==
    session.macro_iteration = Pipeline[session.position.macro].max_iterations

\* Mutant: one iteration too many.
IterationsUsedUpLate ==
    session.macro_iteration > Pipeline[session.position.macro].max_iterations

IterationsUsedUp ==
    session.macro_iteration >= Pipeline[session.position.macro].max_iterations

Oscillating == session.identical_rejections >= OscillationThreshold

TripMaxIterations ==
    /\ pc = "rejected"
    /\ IterationsUsedUp
    /\ Trip("MaxIterations")
    /\ UNCHANGED <<world, inflight, minted, deliverable>>

TripRepetitiveLoop ==
    /\ pc = "rejected"
    /\ ~IterationsUsedUp
    /\ Oscillating
    /\ Trip("RepetitiveLoop")
    /\ UNCHANGED <<world, inflight, minted, deliverable>>

LoopEnabled == AutoLoop /\ Pipeline[session.position.macro].loop

\* Mutant: a loop-back starts the macro afresh.
LoopedMutant(s, p) == [s EXCEPT !.position = p, !.macro_iteration = 0]

Looped(s, p) == [s EXCEPT !.position = p]

LoopBack ==
    /\ pc = "rejected"
    /\ ~IterationsUsedUp /\ ~Oscillating
    /\ LoopEnabled
    /\ LET p == session.position
           target == At(p.macro, FirstExecute(p.macro))
       IN  Attempt(MacroLoopedBack(p.sub, target.sub), session,
                   Looped(session, target), "idle")
    /\ UNCHANGED <<world, inflight, minted, deliverable>>

StayRejected ==
    /\ pc = "rejected"
    /\ ~IterationsUsedUp /\ ~Oscillating
    /\ ~LoopEnabled
    /\ pc' = "idle"
    /\ UNCHANGED <<world, session, durable, ledger, inflight, minted, arrival,
                   deliverable, committed, faults>>

-----------------------------------------------------------------------------
(* step_checklist with every criterion present: advance_macro, or          *)
(* complete_final_macro in the last macro.                                 *)

\* A complete checklist submitted in a macro that is, or is not, the last.
Completed(final) ==
    /\ Submitted({"checklist"})
    /\ IsFinal(session.position.macro) = final
    /\ \E evidence \in Evidence :
         MissingCriteria(session.position.macro, evidence) = {}

AcceptMilestone ==
    /\ Completed(FALSE)
    /\ Attempt(MilestoneAccepted, session, session, "advancing")
    /\ UNCHANGED <<world, inflight, minted, deliverable>>

MacroReset(s) == [s EXCEPT !.macro_iteration = 0,
                           !.identical_rejections = 0,
                           !.last_keys = {}]

AdvanceMacro ==
    /\ pc = "advancing"
    /\ LET m == session.position.macro
           next == At(m + 1, FirstEnabled(m + 1))
       IN  Attempt(MacroAdvanced(m, m + 1), session,
                   MacroReset(Repositioned(session, next)), Arrived(next))
    /\ UNCHANGED <<world, inflight, minted, deliverable>>

\* verify_session_artifacts.  When it fails the submission is refused and
\* leaves no trace.
ArtifactsVerify == session.artifacts \cap tampered = {}

Violations == {i \in DOMAIN ledger : ledger[i].type = "OutputContractViolated"}

\* The output is absent or violates the contract.  Nothing in the code bounds
\* how often.
ViolateOutput ==
    /\ Completed(TRUE)
    /\ ArtifactsVerify
    /\ HasContract
    /\ KeepLedger => Cardinality(Violations) < MaxUncapped
    /\ Attempt(OutputContractViolated, session, session, "idle")
    /\ UNCHANGED <<world, inflight, minted, deliverable>>

\* validate_and_write_output: the file is on disk before anything about it is
\* in the ledger.
\* Mutant: a file that is already there is kept.
WrittenMutant(o) == IF deliverable = None THEN o ELSE deliverable

Written(o) == o

WriteOutput ==
    /\ Completed(TRUE)
    /\ ArtifactsVerify
    /\ HasContract
    /\ \E o \in Outputs :
         /\ deliverable' = Written(o)
         /\ inflight' = o
    /\ pc' = "accepting"
    /\ UNCHANGED <<world, session, durable, ledger, minted, arrival, committed, faults>>

AcceptFinal ==
    /\ Attempt(MilestoneAccepted, session, session, "completing")
    /\ inflight' = IF pc' = "idle" THEN None ELSE inflight
    /\ UNCHANGED <<world, minted, deliverable>>

AcceptDelivered == pc = "accepting" /\ AcceptFinal

AcceptUncontracted ==
    ~HasContract /\ Completed(TRUE) /\ ArtifactsVerify /\ AcceptFinal

Complete ==
    /\ pc = "completing"
    /\ Attempt(SessionCompleted(inflight), session,
               [session EXCEPT !.status = "Completed", !.position = None],
               "idle")
    /\ inflight' = None
    /\ UNCHANGED <<world, minted, deliverable>>

-----------------------------------------------------------------------------
(* store_artifact: the blob is written first, its event appended second.   *)

StoreBlob ==
    /\ Active
    /\ \E a \in Artifacts \ blobs :
         /\ blobs' = blobs \cup {a}
         /\ inflight' = a
    /\ pc' = "storing"
    /\ UNCHANGED <<session, durable, ledger, published, minted, arrival, signed, expired,
                   tampered, deliverable, committed, faults>>

RecordArtifact ==
    /\ pc = "storing"
    /\ Attempt(ArtifactStored(inflight), session,
               [session EXCEPT !.artifacts = @ \cup {inflight}], "idle")
    /\ inflight' = None
    /\ UNCHANGED <<world, minted, deliverable>>

-----------------------------------------------------------------------------
(* The gateway process dies, and a later request recovers the session.     *)

Crash ==
    /\ session # None
    /\ Fault("crash")
    /\ session' = None
    /\ pc' = "idle"
    /\ inflight' = None
    /\ UNCHANGED <<world, durable, ledger, minted, arrival, deliverable, committed>>

Recover ==
    /\ pc = "idle" /\ session = None
    /\ published /\ durable # None
    /\ session' = durable
    /\ UNCHANGED <<world, durable, ledger, pc, inflight, minted, arrival, deliverable,
                   committed, faults>>

-----------------------------------------------------------------------------
(* Outside the process: the human who signs, the clock, the file system.   *)

\* Every challenge that is live in the map or in the ledger can be signed once
\* the call that issued it has returned it.
Sign ==
    /\ published
    /\ \E s \in {session, durable} \ {None} :
         /\ s.pending_approval # None
         /\ s.pending_approval \notin signed
         /\ signed' = signed \cup {s.pending_approval}
    /\ UNCHANGED <<session, durable, ledger, pc, inflight, published, minted, arrival,
                   expired, blobs, tampered, deliverable, committed, faults>>

Expire ==
    /\ HasTimeout /\ ~expired
    /\ durable # None
    /\ expired' = TRUE
    /\ UNCHANGED <<session, durable, ledger, pc, inflight, published, minted, arrival,
                   signed, blobs, tampered, deliverable, committed, faults>>

Tamper ==
    /\ \E a \in blobs \ tampered : tampered' = tampered \cup {a}
    /\ UNCHANGED <<session, durable, ledger, pc, inflight, published, minted, arrival,
                   signed, expired, blobs, deliverable, committed, faults>>

-----------------------------------------------------------------------------
Init ==
    /\ session = None
    /\ durable = None
    /\ ledger = <<>>
    /\ pc = "idle"
    /\ inflight = None
    /\ published = FALSE
    /\ minted = 0
    /\ arrival = 0
    /\ signed = {}
    /\ expired = FALSE
    /\ blobs = {}
    /\ tampered = {}
    /\ deliverable = None
    /\ committed = None
    /\ faults = [kind \in AllFaults |-> 0]

\* What a client's submission starts.
Submission ==
    \/ GlobalTimeout
    \/ AdvanceUngated
    \/ AcceptApproval \/ RejectApproval
    \/ RejectChecklist
    \/ AcceptMilestone
    \/ ViolateOutput \/ WriteOutput \/ AcceptUncontracted

\* What a handler goes on with.
Continuation ==
    \/ EnterGate \/ Publish
    \/ AdvanceApproved \/ TripApprovalLimit
    \/ TripMaxIterations \/ TripRepetitiveLoop \/ LoopBack \/ StayRejected
    \/ AdvanceMacro
    \/ AcceptDelivered \/ Complete
    \/ RecordArtifact

Environment == Sign \/ Expire \/ Tamper \/ Crash

Next ==
    \/ StartSession \/ Recover
    \/ Submission \/ StoreBlob
    \/ Continuation
    \/ Environment

Spec == Init /\ [][Next]_vars

\* A handler that has begun goes on unless the process dies; the client keeps
\* submitting, which also recovers a session that is not in the map, and in
\* the end submits an output the contract accepts.
FairSpec ==
    /\ Spec
    /\ WF_vars(Continuation)
    /\ WF_vars(Recover)
    /\ WF_vars(Submission)
    /\ SF_vars(WriteOutput)

-----------------------------------------------------------------------------
(* Properties.                                                             *)

\* Every variable has its type.  The transcript is typed by the constructors
\* of its events.
TypeOK ==
    /\ session \in SessionState \cup {None}
    /\ durable \in SessionState \cup {None}
    /\ pc \in Locations
    /\ inflight \in Artifacts \cup Outputs \cup {None}
    /\ published \in BOOLEAN
    /\ minted \in Nat
    /\ arrival \in Nat
    /\ signed \subseteq Challenge
    /\ expired \in BOOLEAN
    /\ blobs \subseteq Artifacts
    /\ tampered \subseteq Artifacts
    /\ deliverable \in Outputs \cup {None}
    /\ committed \in Outputs \cup {None}
    /\ faults \in [AllFaults -> Nat]

Terminal(s) == s # None /\ s.status # "Active"

AtGate(s) ==
    /\ s # None /\ s.position # None
    /\ s.position.sub \in Subs(s.position.macro)
    /\ Kind(s.position.macro, s.position.sub) = "human_approval"

\* No append has returned an error.
Lossless == faults["lost"] = 0 /\ faults["unsynced"] = 0

\* Between two calls the ledger replays to the very state the live engine
\* holds: position, counters, parked challenge, tracked artifacts.  This is
\* the promise of recover_profile_session, and crashes do not break it; an
\* append that fails does.
LiveIsReplayed ==
    Lossless /\ pc = "idle" /\ session # None => session = durable

\* A gate is passed on a signature over a challenge minted since the session
\* came to it: no signature outlives a loop-back, a macro or a sibling gate,
\* whatever append failed on the way.
SignatureFresh == pc = "approved" => session.pending_approval.nonce > arrival

\* The signature of the gate's own challenge verifies for as long as the
\* session stands at the gate.
SignatureSurvives ==
    \A c \in signed :
        Active /\ At(c.macro, c.sub) = session.position /\ c.nonce > arrival
            => Verifies(c)

\* Until something fails, no refused submission and no other gate takes a
\* human's signature its worth.
SignatureHonoured == Failures = 0 => SignatureSurvives

\* Whatever append was lost, the live session and the replayed one stand at the
\* same place, in the same status, and track the same artifacts: a failed
\* append can only leave the live side ahead by rejections it could not record
\* or holding a challenge it has seen answered.
LiveStandsWhereReplayed ==
    pc = "idle" /\ session # None =>
        /\ session.position = durable.position
        /\ session.status = durable.status
        /\ session.approval_rejections = durable.approval_rejections
        /\ session.artifacts = durable.artifacts
        /\ session.macro_iteration >= durable.macro_iteration
        /\ durable.pending_approval \in {session.pending_approval, None}

\* A session that stands at a gate holds a challenge for that gate, so that a
\* human can let it pass.
GateChallenged ==
    Active /\ AtGate(session) =>
        /\ session.pending_approval # None
        /\ At(session.pending_approval.macro, session.pending_approval.sub)
             = session.position

\* Until something fails, no route leads to a gate without its challenge.
GateAnswerable == Failures = 0 => GateChallenged

Larger(a, b) == IF a > b THEN a ELSE b

\* The breakers bound the work an agent can burn in one macro: the session
\* counts at most max_iterations rejections there, and at most the cap of
\* refused approvals, plus one for every failure that swallowed a trip.
RejectionsBounded ==
    \A s \in {session, durable} \ {None} :
        /\ s.position # None =>
             s.macro_iteration <=
               Larger(1, Pipeline[s.position.macro].max_iterations) + Failures
        /\ ApprovalCap # 0 =>
             s.approval_rejections <= Larger(1, ApprovalCap) + Failures

\* A client never gets an answer from a session whose breaker is due: until
\* something fails, an Active session is below every limit between two calls.
BreakersTripped ==
    Failures = 0 /\ Active =>
        /\ session.macro_iteration <
             Larger(1, Pipeline[session.position.macro].max_iterations)
        /\ session.identical_rejections < Larger(1, OscillationThreshold)
        /\ ApprovalCap # 0 => session.approval_rejections < ApprovalCap

\* The digest in SessionCompleted is that of the deliverable on disk.
DeliverableCommitted ==
    Terminal(durable) /\ durable.status = "Completed" => committed = deliverable

\* Nothing is recorded of a session after its terminal event.
TerminalIsFinal ==
    [][Terminal(durable) => UNCHANGED <<durable, ledger>>]_vars

\* A session reaches its end however the client submits: rejections run into
\* the breakers, and everything else moves on.
Terminates == published ~> Terminal(durable)

=============================================================================
