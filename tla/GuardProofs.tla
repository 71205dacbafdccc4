---------------------------- MODULE GuardProofs -----------------------------
(***************************************************************************)
(* The guards of a session, for every valid pipeline, every setting and    *)
(* every kind of failure: no gate is passed on a signature from an earlier *)
(* visit; the breakers bound what a session may use up; and what a client  *)
(* finds at gates and breakers as long as nothing has failed.              *)
(***************************************************************************)
EXTENDS EngineProofs

(***************************************************************************)
(*                                Gates.                                   *)
(***************************************************************************)

Gate(p) == Kind(p.macro, p.sub) = "human_approval"

\* A challenge that names the place where s stands was minted after the first
\* n, and no challenge names a place that is not a gate.  After a failed append
\* s may hold a challenge of some other gate.
Current(s, n) ==
    s # None /\ s.pending_approval # None =>
        LET c == s.pending_approval
        IN  /\ Gate(c)
            /\ At(c.macro, c.sub) = s.position => c.nonce > n

\* The inductive invariant behind SignatureFresh.  It has to cover the replayed
\* session too, since a recovery makes it the live one.
SignatureInv ==
    /\ TypeInv
    /\ Current(session, arrival)
    /\ Current(durable, arrival)
    /\ arrival <= minted
    /\ pc = "entering" => Gate(session.position)
    /\ pc = "approved" =>
         /\ session.pending_approval # None
         /\ At(session.pending_approval.macro, session.pending_approval.sub)
              = session.position

-----------------------------------------------------------------------------
(* The fold.                                                               *)

\* The events that put a session somewhere else.
Moves == {"SubStateAdvanced", "MacroLoopedBack", "MacroAdvanced",
          "SessionCompleted"}

LEMMA NoneCurrent == ASSUME NEW n PROVE Current(None, n)
BY DEF Current

LEMMA UnparkedCurrent ==
    ASSUME NEW s, NEW n, s.pending_approval = None PROVE Current(s, n)
BY DEF Current

\* Only the place and the challenge of a session matter.
LEMMA SamePlaceCurrent ==
    ASSUME NEW s, s # None, NEW t, NEW n, Current(s, n),
           t.pending_approval = s.pending_approval,
           t.position = s.position
    PROVE  Current(t, n)
BY DEF Current

\* A session that has ended stands nowhere.
LEMMA EndedCurrent ==
    ASSUME NEW s, s # None, Held(s), NEW n, Current(s, n),
           NEW t, t.pending_approval = s.pending_approval, t.position = None
    PROVE  \A k : Current(t, k)
<1> DEFINE c == s.pending_approval
<1>1. ASSUME c # None PROVE Gate(c) /\ At(c.macro, c.sub) # None
  <2>1. c \in Challenge
    BY <1>1 DEF Held, SessionState
  <2>2. At(c.macro, c.sub) \in Positions
    BY <2>1 DEF Challenge, At, Positions
  <2> QED
    BY <1>1, <2>2, NoneAssumption DEF Current
<1> QED
  BY <1>1 DEF Current

LEMMA MacroEnteredUnparked ==
    ASSUME NEW s, Held(s), NEW m
    PROVE  MacroEntered(s, m).pending_approval = None
BY DEF Held, SessionState, MacroEntered

\* A session replayed from one event more holds no challenge of an earlier
\* visit; after a move, not even with respect to a later count.
LEMMA ReplayCurrent ==
    ASSUME NEW s, s = None \/ Held(s),
           NEW n \in Nat, Current(s, n),
           NEW e, EventOK(e),
           e.type = "ApprovalChallengeIssued" =>
               Gate(e.challenge) /\ e.challenge.nonce > n
    PROVE  /\ Current(Apply(s, e), n)
           /\ e.type \in Moves => \A k : Current(Apply(s, e), k)
<1>1. CASE e.type = "SessionStarted"
  <2>1. Apply(s, e) = Fresh /\ Fresh.pending_approval = None
    BY <1>1 DEF Apply, Fresh
  <2> QED
    BY <1>1, <2>1, UnparkedCurrent DEF Moves
<1>2. CASE e.type # "SessionStarted" /\ s = None
  BY <1>2, NoneCurrent DEF Apply
<1>3. CASE e.type # "SessionStarted" /\ s # None
  <2>1. Held(s)
    BY <1>3
  <2>2. CASE e.type = "MilestoneRejected"
    <3>1. Apply(s, e) = RejectionReplayed(s, e)
      BY <1>3, <2>2 DEF Apply
    <3>2. /\ RejectionReplayed(s, e).pending_approval = s.pending_approval
          /\ RejectionReplayed(s, e).position = s.position
      BY <2>1 DEF RejectionReplayed, Held, SessionState
    <3> QED
      BY <1>3, <2>2, <3>1, <3>2, SamePlaceCurrent DEF Moves
  <2>3. CASE e.type \in {"SubStateAdvanced", "MacroLoopedBack"}
    <3>1. Apply(s, e).pending_approval = None
      BY <1>3, <2>1, <2>3 DEF Apply, Held, SessionState
    <3> QED
      BY <3>1, UnparkedCurrent
  <2>4. CASE e.type = "MacroAdvanced"
    <3>1. Apply(s, e).pending_approval = None
      BY <1>3, <2>1, <2>4, MacroEnteredUnparked DEF Apply
    <3> QED
      BY <3>1, UnparkedCurrent
  <2>5. CASE e.type = "SessionCompleted"
    <3>1. Apply(s, e) = [s EXCEPT !.status = "Completed", !.position = None]
      BY <1>3, <2>5 DEF Apply
    <3>2. /\ Apply(s, e).pending_approval = s.pending_approval
          /\ Apply(s, e).position = None
      BY <2>1, <3>1 DEF Held, SessionState
    <3> QED
      BY <1>3, <2>1, <2>5, <3>2, EndedCurrent DEF Moves
  <2>6. CASE e.type = "ApprovalChallengeIssued"
    <3>1. Apply(s, e) = [s EXCEPT !.pending_approval = e.challenge, !.approval_rejections = 0]
      BY <1>3, <2>6 DEF Apply
    <3>2. Apply(s, e).pending_approval = e.challenge
      BY <2>1, <3>1 DEF Held, SessionState
    <3> QED
      BY <2>6, <3>2 DEF Current, Moves
  <2>7. CASE e.type = "ApprovalAccepted"
    <3>1. Apply(s, e).pending_approval = None
      BY <1>3, <2>1, <2>7 DEF Apply, Held, SessionState
    <3> QED
      BY <3>1, UnparkedCurrent
  <2>8. CASE e.type \in {"CircuitBreakerTriggered", "ApprovalRejected",
                         "ArtifactStored", "MilestoneAccepted",
                         "OutputContractViolated"}
    <3>1. \/ Apply(s, e) = [s EXCEPT !.status = "Failed"]
          \/ Apply(s, e) = [s EXCEPT !.approval_rejections = @ + 1]
          \/ Apply(s, e) = [s EXCEPT !.artifacts = @ \cup {e.artifact}]
          \/ Apply(s, e) = s
      BY <1>3, <2>8 DEF Apply, ArtifactReplayed
    <3>2. /\ Apply(s, e).pending_approval = s.pending_approval
          /\ Apply(s, e).position = s.position
      BY <2>1, <3>1 DEF Held, SessionState
    <3> QED
      BY <1>3, <2>8, <3>2, SamePlaceCurrent DEF Moves
  <2> QED
    BY <1>3, <2>2, <2>3, <2>4, <2>5, <2>6, <2>7, <2>8 DEF EventOK
<1> QED
  BY <1>1, <1>2, <1>3

-----------------------------------------------------------------------------
(* The steps.                                                              *)

\* An append keeps the invariant when what it makes of memory does: a session
\* that stays where it was keeps its challenge current, and one that moves
\* holds none for the place it comes to.
LEMMA AttemptKeepsCurrent ==
    ASSUME SignatureInv, TypeInv', minted <= minted',
           NEW e, EventOK(e),
           e.type = "ApprovalChallengeIssued" =>
               Gate(e.challenge) /\ e.challenge.nonce > arrival,
           NEW before, Current(before, arrival),
           NEW after,
           after.position = session.position => Current(after, arrival),
           after.position # session.position =>
               e.type \in Moves /\ Current(after, minted),
           NEW next,
           next = "entering" => Gate(after.position),
           next = "approved" =>
               /\ after.pending_approval # None
               /\ At(after.pending_approval.macro, after.pending_approval.sub)
                    = after.position,
           Attempt(e, before, after, next)
    PROVE  SignatureInv'
<1>1. /\ minted \in Nat /\ arrival \in Nat /\ arrival <= minted
      /\ minted' \in Nat
      /\ durable = None \/ Held(durable)
      /\ Current(durable, arrival)
  BY DEF SignatureInv, TypeInv, WorldInv, SessionInv
<1>2. /\ Current(Apply(durable, e), arrival)
      /\ e.type \in Moves => Current(Apply(durable, e), minted)
  BY <1>1, ReplayCurrent
<1>3. CASE /\ Log(e) /\ session' = after /\ pc' = next
           /\ arrival' = IF after.position # session.position
                         THEN minted ELSE arrival
  <2>1. durable' = Apply(durable, e)
    BY <1>3 DEF Log
  <2>2. Current(session', arrival') /\ Current(durable', arrival')
    BY <1>2, <1>3, <2>1
  <2>3. arrival' <= minted'
    BY <1>1, <1>3
  <2> QED
    BY <1>3, <2>2, <2>3 DEF SignatureInv
<1>4. CASE AppendFails(e) /\ session' = before /\ pc' = "idle" /\ arrival' = arrival
  <2>1. durable' = durable \/ durable' = Apply(durable, e)
    BY <1>4 DEF AppendFails, Log
  <2>2. Current(session', arrival') /\ Current(durable', arrival')
    BY <1>1, <1>2, <1>4, <2>1
  <2>3. arrival' <= minted'
    BY <1>1, <1>4
  <2> QED
    BY <1>4, <2>2, <2>3 DEF SignatureInv
<1> QED
  BY <1>3, <1>4 DEF Attempt

\* A handler that does not move the session and mints nothing.
LEMMA StandingKeepsCurrent ==
    ASSUME SignatureInv, TypeInv', UNCHANGED minted,
           session # None,
           NEW e, EventOK(e), e.type # "ApprovalChallengeIssued",
           NEW before,
           before.pending_approval = session.pending_approval,
           before.position = session.position,
           NEW after,
           after.pending_approval = session.pending_approval,
           after.position = session.position,
           NEW next, next # "entering",
           next = "approved" =>
               /\ session.pending_approval # None
               /\ At(session.pending_approval.macro,
                     session.pending_approval.sub) = session.position,
           Attempt(e, before, after, next)
    PROVE  SignatureInv'
<1>1. Current(before, arrival) /\ Current(after, arrival)
  BY SamePlaceCurrent DEF SignatureInv
<1>2. minted <= minted'
  BY DEF SignatureInv, TypeInv, WorldInv
<1> QED
  BY <1>1, <1>2, AttemptKeepsCurrent

\* A handler that leads the session elsewhere and clears its challenge.
LEMMA MovingKeepsCurrent ==
    ASSUME SignatureInv, TypeInv', UNCHANGED minted,
           NEW e, EventOK(e), e.type \in Moves,
           NEW after, after.pending_approval = None,
           NEW next, next = Arrived(after.position),
           Attempt(e, session, after, next)
    PROVE  SignatureInv'
<1>1. Current(after, arrival) /\ Current(after, minted)
  BY UnparkedCurrent
<1>2. next # "approved" /\ (next = "entering" => Gate(after.position))
  BY DEF Arrived, Settled, Gate
<1>3. minted <= minted' /\ Current(session, arrival)
  BY DEF SignatureInv, TypeInv, WorldInv
<1>4. e.type # "ApprovalChallengeIssued"
  BY DEF Moves
<1> QED
  BY <1>1, <1>2, <1>3, <1>4, AttemptKeepsCurrent

\* A start that fails leaves nothing behind.
LEMMA StartAbortedCurrent ==
    ASSUME SignatureInv, TypeInv', minted <= minted', StartAborted
    PROVE  SignatureInv'
<1>1. /\ session' = None /\ durable' = None
      /\ pc' = "idle" /\ arrival' = arrival
  BY DEF StartAborted
<1>2. arrival' <= minted'
  BY <1>1 DEF SignatureInv, TypeInv, SessionInv, WorldInv
<1> QED
  BY <1>1, <1>2, NoneCurrent DEF SignatureInv

LEMMA EnterGateCurrent == SignatureInv /\ TypeInv' /\ EnterGate => SignatureInv'
<1> SUFFICES ASSUME SignatureInv, TypeInv', EnterGate PROVE SignatureInv'
  OBVIOUS
<1> DEFINE p == session.position
           c == IssuedFor(p)
           e == ApprovalChallengeIssued(c)
           parked == [session EXCEPT !.pending_approval = c,
                                     !.approval_rejections = 0]
<1>1. /\ pc = "entering" /\ Gate(p)
      /\ Held(session) /\ session # None
      /\ p.macro \in Macros /\ p.sub \in Nat
  BY Engaged DEF EnterGate, SignatureInv
<1>2. /\ minted \in Nat /\ arrival \in Nat /\ arrival <= minted
      /\ minted' = minted + 1
  BY DEF EnterGate, SignatureInv, TypeInv, SessionInv, WorldInv
<1>3. /\ c \in Challenge /\ Gate(c) /\ c.nonce > arrival
  BY <1>1, <1>2 DEF IssuedFor, Challenge, Gate
<1>4. /\ EventOK(e) /\ e.type = "ApprovalChallengeIssued"
      /\ e.challenge = c
  BY <1>3 DEF EventOK, ApprovalChallengeIssued
<1>5. parked.pending_approval = c /\ parked.position = p
  BY <1>1 DEF Held, SessionState
<1>6. Current(parked, arrival)
  BY <1>3, <1>5 DEF Current
<1>7. Settled \notin {"entering", "approved"}
  BY DEF Settled
<1>8. \/ Attempt(e, session, parked, Settled)
      \/ /\ Log(e) /\ session' = parked /\ pc' = Settled
         /\ UNCHANGED <<faults, arrival>>
      \/ StartAborted
  BY DEF EnterGate
<1> HIDE DEF e, parked, c
<1>9. CASE Attempt(e, session, parked, Settled)
  <2>1. minted <= minted' /\ Current(session, arrival)
    BY <1>2 DEF SignatureInv
  <2> QED
    BY <1>3, <1>4, <1>5, <1>6, <1>7, <1>9, <2>1, AttemptKeepsCurrent
<1>10. CASE /\ Log(e) /\ session' = parked /\ pc' = Settled
            /\ UNCHANGED <<faults, arrival>>
  <2>1. durable' = Apply(durable, e) /\ arrival' = arrival
    BY <1>10 DEF Log
  <2>2. Current(durable', arrival')
    BY <1>2, <1>3, <1>4, <2>1, ReplayCurrent DEF SignatureInv, TypeInv, SessionInv
  <2> QED
    BY <1>2, <1>6, <1>7, <1>10, <2>1, <2>2 DEF SignatureInv
<1>11. CASE StartAborted
  BY <1>2, <1>11, StartAbortedCurrent
<1> QED
  BY <1>8, <1>9, <1>10, <1>11

\* What each kind of step makes of the place and the challenge.
LEMMA StandingSession ==
    ASSUME NEW s, s \in SessionState
    PROVE  /\ Failed(s).pending_approval = s.pending_approval
           /\ Failed(s).position = s.position
           /\ Refused(s).pending_approval = s.pending_approval
           /\ Refused(s).position = s.position
           /\ \A keys :
                /\ RejectionCounted(s, keys).pending_approval = s.pending_approval
                /\ RejectionCounted(s, keys).position = s.position
           /\ \A a :
                LET t == [s EXCEPT !.artifacts = @ \cup {a}]
                IN  /\ t.pending_approval = s.pending_approval
                    /\ t.position = s.position
BY DEF SessionState, Failed, Refused, RejectionCounted

LEMMA MovedSession ==
    ASSUME NEW s, s \in SessionState, NEW p
    PROVE  /\ Repositioned(s, p).pending_approval = None
           /\ Repositioned(s, p).position = p
           /\ MacroReset(Repositioned(s, p)).pending_approval = None
           /\ MacroReset(Repositioned(s, p)).position = p
           /\ Looped(s, p).pending_approval = s.pending_approval
           /\ Looped(s, p).position = p
BY DEF SessionState, Repositioned, MacroReset, Looped

LEMMA TripCurrent ==
    ASSUME SignatureInv, TypeInv', UNCHANGED minted,
           Held(session), session # None,
           NEW breaker, Trip(breaker)
    PROVE  SignatureInv'
<1>1. EventOK(CircuitBreakerTriggered(breaker))
      /\ CircuitBreakerTriggered(breaker).type # "ApprovalChallengeIssued"
  BY DEF EventOK, CircuitBreakerTriggered
<1>2. /\ Failed(session).pending_approval = session.pending_approval
      /\ Failed(session).position = session.position
  BY StandingSession DEF Held
<1>3. Attempt(CircuitBreakerTriggered(breaker), session, Failed(session), "idle")
  BY DEF Trip
<1> QED
  BY <1>1, <1>2, <1>3, StandingKeepsCurrent

LEMMA AdvancePlainCurrent ==
    ASSUME SignatureInv, TypeInv', pc # "idle" \/ Active, AdvancePlain
    PROVE  SignatureInv'
<1> DEFINE p == session.position
           next == At(p.macro, NextEnabled(p.macro, p.sub))
           e == SubStateAdvanced(p.sub, next.sub)
           moved == Repositioned(session, next)
<1>1. Held(session) /\ p.macro \in Macros /\ p.sub \in Nat
  BY Engaged DEF SignatureInv
<1>2. next.sub \in Nat
  BY <1>1, NextEnabledTyped
<1>3. EventOK(e) /\ e.type \in Moves
  BY <1>2 DEF EventOK, SubStateAdvanced, Moves
<1>4. moved.pending_approval = None /\ moved.position = next
  BY <1>1, MovedSession DEF Held
<1>5. Attempt(e, session, moved, Arrived(next)) /\ UNCHANGED minted
  BY DEF AdvancePlain
<1> HIDE DEF next, e, moved
<1> QED
  BY <1>3, <1>4, <1>5, MovingKeepsCurrent

\* The one move that leaves the challenge in memory: it leads to a sub-state
\* that is executed, and no challenge is for that.
LEMMA LoopBackCurrent == SignatureInv /\ TypeInv' /\ LoopBack => SignatureInv'
<1> SUFFICES ASSUME SignatureInv, TypeInv', LoopBack PROVE SignatureInv'
  OBVIOUS
<1> DEFINE m == session.position.macro
           target == At(m, FirstExecute(m))
           e == MacroLoopedBack(session.position.sub, target.sub)
           looped == Looped(session, target)
<1>1. Held(session) /\ session # None /\ m \in Macros
  BY Engaged DEF LoopBack, SignatureInv
<1>2. FirstExecute(m) \in Nat /\ Kind(m, FirstExecute(m)) = "execute"
  BY <1>1, FirstExecuteIsExecute, MacrosTyped DEF LoopBack, LoopEnabled
<1>3. target.sub \in Nat /\ ~Gate(target)
  BY <1>2 DEF At, Gate
<1>4. EventOK(e) /\ e.type \in Moves /\ e.type # "ApprovalChallengeIssued"
  BY <1>3 DEF EventOK, MacroLoopedBack, Moves
<1>5. /\ looped.pending_approval = session.pending_approval
      /\ looped.position = target
  BY <1>1, MovedSession DEF Held
<1>6. ASSUME looped.pending_approval # None
      PROVE  At(looped.pending_approval.macro, looped.pending_approval.sub) # target
  BY <1>1, <1>3, <1>5, <1>6 DEF SignatureInv, Current, Gate, At
<1>7. \A n : Current(looped, n)
  BY <1>1, <1>5, <1>6 DEF SignatureInv, Current
<1>8. Attempt(e, session, looped, "idle") /\ UNCHANGED minted
  BY DEF LoopBack
<1>9. minted <= minted' /\ Current(session, arrival)
  BY <1>8 DEF SignatureInv, TypeInv, WorldInv
<1> HIDE DEF target, e, looped
<1> QED
  BY <1>4, <1>7, <1>8, <1>9, AttemptKeepsCurrent

LEMMA AdvanceMacroCurrent ==
    SignatureInv /\ TypeInv' /\ AdvanceMacro => SignatureInv'
<1> SUFFICES ASSUME SignatureInv, TypeInv', AdvanceMacro PROVE SignatureInv'
  OBVIOUS
<1> DEFINE m == session.position.macro
           next == At(m + 1, FirstEnabled(m + 1))
           e == MacroAdvanced(m, m + 1)
           moved == MacroReset(Repositioned(session, next))
<1>1. Held(session) /\ m \in Macros /\ ~IsFinal(m)
  BY Engaged DEF AdvanceMacro, SignatureInv, TypeInv, SessionInv
<1>2. EventOK(e) /\ e.type \in Moves
  BY <1>1, NextMacro DEF EventOK, MacroAdvanced, Moves
<1>3. moved.pending_approval = None /\ moved.position = next
  BY <1>1, MovedSession DEF Held
<1>4. Attempt(e, session, moved, Arrived(next)) /\ UNCHANGED minted
  BY DEF AdvanceMacro
<1> HIDE DEF next, e, moved
<1> QED
  BY <1>2, <1>3, <1>4, MovingKeepsCurrent

LEMMA CompleteCurrent == SignatureInv /\ TypeInv' /\ Complete => SignatureInv'
<1> SUFFICES ASSUME SignatureInv, TypeInv', Complete PROVE SignatureInv'
  OBVIOUS
<1> DEFINE e == SessionCompleted(inflight)
           done == [session EXCEPT !.status = "Completed", !.position = None]
<1>1. Held(session) /\ session # None /\ inflight \in Outputs \cup {None}
  BY Engaged DEF Complete, SignatureInv, TypeInv, HandlerInv
<1>2. EventOK(e) /\ e.type \in Moves /\ e.type # "ApprovalChallengeIssued"
  BY <1>1 DEF EventOK, SessionCompleted, Moves
<1>3. done.pending_approval = session.pending_approval /\ done.position = None
  BY <1>1 DEF Held, SessionState
<1>4. \A n : Current(done, n)
  BY <1>1, <1>3, EndedCurrent DEF SignatureInv
<1>5. Attempt(e, session, done, "idle") /\ UNCHANGED minted
  BY DEF Complete
<1>6. minted <= minted' /\ Current(session, arrival)
  BY <1>5 DEF SignatureInv, TypeInv, WorldInv
<1> HIDE DEF e, done
<1> QED
  BY <1>2, <1>4, <1>5, <1>6, AttemptKeepsCurrent

\* Calls and handlers that leave the session where it is.
LEMMA StandingCurrent ==
    SignatureInv /\ TypeInv'
      /\ (GlobalTimeout \/ AcceptApproval \/ RejectApproval \/ RejectChecklist
            \/ AcceptMilestone \/ ViolateOutput \/ AcceptUncontracted
            \/ AcceptDelivered \/ RecordArtifact \/ TripApprovalLimit
            \/ TripMaxIterations \/ TripRepetitiveLoop)
        => SignatureInv'
<1> SUFFICES ASSUME SignatureInv, TypeInv',
                    GlobalTimeout \/ AcceptApproval \/ RejectApproval
                      \/ RejectChecklist \/ AcceptMilestone \/ ViolateOutput
                      \/ AcceptUncontracted \/ AcceptDelivered
                      \/ RecordArtifact \/ TripApprovalLimit
                      \/ TripMaxIterations \/ TripRepetitiveLoop
             PROVE  SignatureInv'
  OBVIOUS
<1>1. UNCHANGED minted /\ (pc # "idle" \/ Active)
  BY DEF GlobalTimeout, AcceptApproval, RejectApproval, RejectChecklist,
         AcceptMilestone, ViolateOutput, AcceptUncontracted, AcceptDelivered,
         AcceptFinal, RecordArtifact, TripApprovalLimit, TripMaxIterations,
         TripRepetitiveLoop, Completed, Submitted
<1>2. Held(session) /\ session # None
  BY <1>1, Engaged DEF SignatureInv
<1>3. session \in SessionState
  BY <1>2 DEF Held
<1>4. CASE GlobalTimeout \/ TripApprovalLimit \/ TripMaxIterations
           \/ TripRepetitiveLoop
  BY <1>1, <1>2, <1>4, TripCurrent
     DEF GlobalTimeout, TripApprovalLimit, TripMaxIterations, TripRepetitiveLoop
<1>5. CASE AcceptApproval
  <2>1. PICK sig \in signed :
          Verifies(sig) /\ Attempt(ApprovalAccepted(sig), session, session, "approved")
    BY <1>5 DEF AcceptApproval
  <2>2. EventOK(ApprovalAccepted(sig))
        /\ ApprovalAccepted(sig).type # "ApprovalChallengeIssued"
    BY DEF EventOK, ApprovalAccepted
  <2>3. /\ session.pending_approval # None
        /\ At(session.pending_approval.macro, session.pending_approval.sub)
             = session.position
    BY <2>1 DEF Verifies
  <2> QED
    BY <1>1, <1>2, <2>1, <2>2, <2>3, StandingKeepsCurrent
<1>6. CASE RejectApproval
  <2>1. PICK next \in {"tripping", "idle"} :
          Attempt(ApprovalRejected, session, Refused(session), next)
    BY <1>6, Zenon DEF RejectApproval
  <2>2. EventOK(ApprovalRejected)
        /\ ApprovalRejected.type # "ApprovalChallengeIssued"
    BY DEF EventOK, ApprovalRejected
  <2>3. next # "entering" /\ next # "approved"
    OBVIOUS
  <2> QED
    BY <1>1, <1>2, <1>3, <2>1, <2>2, <2>3, StandingSession, StandingKeepsCurrent
<1>7. CASE RejectChecklist
  <2>1. PICK evidence \in Evidence :
          LET counted == RejectionCounted(session, CarriedKeys(evidence))
          IN  Attempt(MilestoneRejected(CarriedKeys(evidence), counted.macro_iteration),
                      counted, counted, "rejected")
    BY <1>7 DEF RejectChecklist
  <2> DEFINE keys == CarriedKeys(evidence)
             counted == RejectionCounted(session, keys)
             e == MilestoneRejected(keys, counted.macro_iteration)
  <2>2. keys \in SUBSET Keys
    BY DEF CarriedKeys
  <2>3. EventOK(e) /\ e.type # "ApprovalChallengeIssued"
    BY <1>2, <2>2, RejectionCountedHeld DEF EventOK, MilestoneRejected
  <2>4. /\ counted.pending_approval = session.pending_approval
        /\ counted.position = session.position
    BY <1>3, StandingSession
  <2>5. Attempt(e, counted, counted, "rejected")
    BY <2>1
  <2> HIDE DEF e, counted
  <2> QED
    BY <1>1, <1>2, <2>3, <2>4, <2>5, StandingKeepsCurrent
<1>8. CASE AcceptMilestone \/ AcceptUncontracted \/ AcceptDelivered
  <2>1. PICK next \in {"advancing", "completing"} :
          Attempt(MilestoneAccepted, session, session, next)
    BY <1>8 DEF AcceptMilestone, AcceptUncontracted, AcceptDelivered, AcceptFinal
  <2>2. EventOK(MilestoneAccepted)
        /\ MilestoneAccepted.type # "ApprovalChallengeIssued"
    BY DEF EventOK, MilestoneAccepted
  <2>3. next # "entering" /\ next # "approved"
    OBVIOUS
  <2> QED
    BY <1>1, <1>2, <2>1, <2>2, <2>3, StandingKeepsCurrent
<1>9. CASE ViolateOutput
  <2>1. Attempt(OutputContractViolated, session, session, "idle")
    BY <1>9 DEF ViolateOutput
  <2>2. EventOK(OutputContractViolated)
        /\ OutputContractViolated.type # "ApprovalChallengeIssued"
    BY DEF EventOK, OutputContractViolated
  <2> QED
    BY <1>1, <1>2, <2>1, <2>2, StandingKeepsCurrent
<1>10. CASE RecordArtifact
  <2> DEFINE tracked == [session EXCEPT !.artifacts = @ \cup {inflight}]
  <2>1. EventOK(ArtifactStored(inflight))
        /\ ArtifactStored(inflight).type # "ApprovalChallengeIssued"
    BY <1>10 DEF RecordArtifact, SignatureInv, TypeInv, HandlerInv, EventOK,
                 ArtifactStored
  <2>2. /\ tracked.pending_approval = session.pending_approval
        /\ tracked.position = session.position
    BY <1>3, StandingSession
  <2>3. Attempt(ArtifactStored(inflight), session, tracked, "idle")
    BY <1>10 DEF RecordArtifact
  <2> HIDE DEF tracked
  <2> QED
    BY <1>1, <1>2, <2>1, <2>2, <2>3, StandingKeepsCurrent
<1> QED
  BY <1>4, <1>5, <1>6, <1>7, <1>8, <1>9, <1>10

\* What appends nothing, or starts the session.
LEMMA SilentCurrent ==
    SignatureInv /\ TypeInv'
      /\ (StartSession \/ Recover \/ Crash \/ Publish \/ StayRejected
            \/ WriteOutput \/ StoreBlob \/ Sign \/ Expire \/ Tamper)
        => SignatureInv'
<1> SUFFICES ASSUME SignatureInv, TypeInv',
                    StartSession \/ Recover \/ Crash \/ Publish
                      \/ StayRejected \/ WriteOutput \/ StoreBlob \/ Sign
                      \/ Expire \/ Tamper
             PROVE  SignatureInv'
  OBVIOUS
<1>1. CASE StartSession
  <2>1. CASE StartAborted
    <3>1. minted <= minted'
      BY <1>1 DEF StartSession, SignatureInv, TypeInv, WorldInv
    <3> QED
      BY <2>1, <3>1, StartAbortedCurrent
  <2>2. CASE /\ Log(SessionStarted) /\ session' = Fresh
             /\ pc' = Arrived(Fresh.position) /\ arrival' = arrival
    <3>1. durable' = Fresh
      BY <2>2 DEF Log, Apply, SessionStarted
    <3>2. Fresh.pending_approval = None
      BY DEF Fresh
    <3>3. pc' # "approved" /\ (pc' = "entering" => Gate(session'.position))
      BY <2>2 DEF Arrived, Settled, Gate
    <3>4. arrival' <= minted'
      BY <1>1, <2>2 DEF StartSession, SignatureInv
    <3> QED
      BY <2>2, <3>1, <3>2, <3>3, <3>4, UnparkedCurrent DEF SignatureInv
  <2> QED
    BY <1>1, <2>1, <2>2 DEF StartSession
<1>2. CASE Recover
  BY <1>2 DEF Recover, SignatureInv
<1>3. CASE Crash
  BY <1>3, NoneCurrent DEF Crash, SignatureInv
<1>4. CASE Publish \/ StayRejected \/ WriteOutput \/ StoreBlob
  BY <1>4 DEF Publish, StayRejected, WriteOutput, StoreBlob, SignatureInv
<1>5. CASE Sign \/ Expire \/ Tamper
  BY <1>5 DEF Sign, Expire, Tamper, SignatureInv
<1> QED
  BY <1>1, <1>2, <1>3, <1>4, <1>5

-----------------------------------------------------------------------------
LEMMA SignatureInvInit == Init => SignatureInv
BY TypeInvInit, NoneCurrent DEF Init, SignatureInv

LEMMA SignatureInvNext == SignatureInv /\ [Next]_vars => SignatureInv'
<1> SUFFICES ASSUME SignatureInv, [Next]_vars PROVE SignatureInv'
  OBVIOUS
<1>1. TypeInv'
  BY TypeInvNext DEF SignatureInv
<1>2. CASE Next
  <2>1. AdvanceUngated \/ AdvanceApproved => SignatureInv'
    BY <1>1, AdvancePlainCurrent DEF AdvanceUngated, AdvanceApproved, Submitted
  <2> QED
    BY <1>1, <1>2, <2>1, StandingCurrent, SilentCurrent, EnterGateCurrent,
       LoopBackCurrent, AdvanceMacroCurrent, CompleteCurrent
       DEF Next, Submission, Continuation, Environment
<1>3. CASE UNCHANGED vars
  BY <1>1, <1>3 DEF vars, SignatureInv
<1> QED
  BY <1>2, <1>3

\* A gate is passed only on a signature over a challenge minted since the
\* session came to it, whatever failed on the way.
THEOREM SignaturesAreFresh == Spec => []SignatureFresh
<1>1. Spec => []SignatureInv
  BY SignatureInvInit, SignatureInvNext, PTL DEF Spec
<1>2. SignatureInv => SignatureFresh
  <2> SUFFICES ASSUME SignatureInv, pc = "approved"
               PROVE  session.pending_approval.nonce > arrival
    BY DEF SignatureFresh
  <2>1. session # None
    BY DEF SignatureInv, TypeInv, SessionInv
  <2> QED
    BY <2>1 DEF SignatureInv, Current
<1> QED
  BY <1>1, <1>2, PTL

(***************************************************************************)
(*                               Breakers.                                 *)
(***************************************************************************)

-----------------------------------------------------------------------------
(* Bounds.                                                                 *)

Limit(m) == Larger(1, Pipeline[m].max_iterations)

\* After f failures.
Within(s, f) ==
    /\ s.position # None => s.macro_iteration <= Limit(s.position.macro) + f
    /\ ApprovalCap # 0 => s.approval_rejections <= Larger(1, ApprovalCap) + f

\* A breaker that is due has been recorded, or is about to be.
Below(s, location, f) ==
    s.status = "Active" =>
        /\ location # "rejected" =>
             s.macro_iteration < Limit(s.position.macro) + f
        /\ location # "tripping" /\ ApprovalCap # 0 =>
             s.approval_rejections < Larger(1, ApprovalCap) + f

InBounds(s, location, f) == Within(s, f) /\ Below(s, location, f)

Trusted == "unsynced" \notin Faults \/ Failures = 0

BoundInv ==
    Trusted =>
        /\ session # None => InBounds(session, pc, Failures)
        /\ session = None /\ durable # None => InBounds(durable, "idle", Failures)

-----------------------------------------------------------------------------
(* As long as nothing has failed.                                          *)

\* A challenge signed since the session came where it stands is the one it
\* holds; at a gate it holds one for that gate; its streak of identical
\* rejections is below the limit.  `count' is the number of challenges minted,
\* `came' that of those minted before the session came here.
Orderly(s, location, count, came, by) ==
    /\ s.pending_approval # None => s.pending_approval.nonce <= count
    /\ \A c \in by : c.nonce <= count
                     /\ (c.nonce > came => s.pending_approval = c)
    /\ location = "entering" => count = came
    /\ location = "approved" => AtGate(s)
    /\ s.status = "Active" /\ AtGate(s) /\ location # "entering" =>
         /\ s.pending_approval # None
         /\ At(s.pending_approval.macro, s.pending_approval.sub) = s.position
    /\ s.status = "Active" /\ location # "rejected" =>
         s.identical_rejections < Larger(1, OscillationThreshold)

OrderInv ==
    Failures = 0 =>
        /\ session # None => Orderly(session, pc, minted, arrival, signed)
        /\ session = None => durable = None /\ minted = arrival /\ signed = {}

-----------------------------------------------------------------------------
LEMMA FailureCounted ==
    ASSUME faults \in [AllFaults -> Nat]
    PROVE  /\ Failures \in Nat
           /\ UNCHANGED faults => Failures' = Failures
           /\ \A kind : Fault(kind) => Failures' = Failures + 1
<1>1. Failures \in Nat /\ (UNCHANGED faults => Failures' = Failures)
  BY DEF Failures, AllFaults
<1>2. ASSUME NEW kind, Fault(kind) PROVE Failures' = Failures + 1
  <2>1. kind \in AllFaults
    BY <1>2, EngineAssumption DEF Fault
  <2>2. faults' = [faults EXCEPT ![kind] = faults[kind] + 1]
    BY <1>2 DEF Fault
  <2> QED BY <2>1, <2>2 DEF Failures, AllFaults
<1> QED BY <1>1, <1>2

\* An append that succeeds changes what it means to; one that fails is counted.
LEMMA AttemptCounted ==
    ASSUME TypeInv, NEW e, NEW before, NEW after, NEW next,
           Attempt(e, before, after, next)
    PROVE  /\ Failures \in Nat
           /\ \/ /\ session' = after /\ pc' = next /\ Failures' = Failures
                 /\ arrival' = IF after.position # session.position
                               THEN minted ELSE arrival
              \/ session' = before /\ pc' = "idle" /\ Failures' = Failures + 1
BY FailureCounted DEF TypeInv, SessionInv, Attempt, AppendFails

LEMMA Limits ==
    /\ \A m \in Macros :
         Limit(m) \in Nat /\ Limit(m) >= 1 /\ Limit(m) >= Pipeline[m].max_iterations
    /\ Larger(1, ApprovalCap) \in Nat /\ Larger(1, ApprovalCap) >= 1
    /\ Larger(1, ApprovalCap) >= ApprovalCap
    /\ Larger(1, OscillationThreshold) \in Nat /\ Larger(1, OscillationThreshold) >= 1
    /\ Larger(1, OscillationThreshold) >= OscillationThreshold
<1>1. \A n \in Nat : Larger(1, n) \in Nat /\ Larger(1, n) >= 1 /\ Larger(1, n) >= n
  BY DEF Larger
<1>2. \A m \in Macros : Pipeline[m].max_iterations \in Nat
  BY MacrosTyped
<1> QED BY <1>1, <1>2, EngineAssumption DEF Limit

\* What a session has used up is a number.
LEMMA Used ==
    ASSUME NEW s, Held(s)
    PROVE  /\ s.macro_iteration \in Nat /\ s.approval_rejections \in Nat
           /\ s.identical_rejections \in Nat
           /\ s.position # None => s.position.macro \in Macros
           /\ s.status = "Active" => s.position # None
BY DEF Held, SessionState, Positions

\* One failure more makes room for a trip that was swallowed.
LEMMA WithinLater ==
    ASSUME NEW s, Held(s), NEW f \in Nat, Within(s, f)
    PROVE  InBounds(s, "idle", f + 1)
<1>1. /\ s.position # None => Limit(s.position.macro) \in Nat
      /\ Larger(1, ApprovalCap) \in Nat
  BY Limits, Used
<1>2. s.macro_iteration \in Nat /\ s.approval_rejections \in Nat
      /\ (s.status = "Active" => s.position # None)
  BY Used
<1> QED BY <1>1, <1>2 DEF InBounds, Within, Below

\* The session of a handler or a call is in bounds.
LEMMA EngagedBounds ==
    ASSUME TypeInv, BoundInv, pc # "idle" \/ Active, Trusted
    PROVE  /\ Held(session) /\ session # None /\ session.status = "Active"
           /\ session.position # None /\ session.position.macro \in Macros
           /\ Limit(session.position.macro) \in Nat /\ Failures \in Nat
           /\ session.macro_iteration \in Nat
           /\ session.approval_rejections \in Nat
           /\ InBounds(session, pc, Failures)
BY Engaged, Limits, Used, FailureCounted DEF BoundInv, TypeInv, SessionInv

LEMMA AttemptBounds ==
    ASSUME TypeInv, BoundInv, pc # "idle" \/ Active,
           NEW e, NEW before, Held(before), NEW after, Held(after), NEW next,
           Trusted => Within(before, Failures) /\ InBounds(after, next, Failures),
           Attempt(e, before, after, next)
    PROVE  BoundInv'
<1>1. Failures \in Nat /\ (Trusted' => Trusted)
  BY AttemptCounted DEF Trusted
<1>2. CASE session' = after /\ pc' = next /\ Failures' = Failures
  BY <1>1, <1>2, HeldThere DEF BoundInv
<1>3. CASE session' = before /\ pc' = "idle" /\ Failures' = Failures + 1
  BY <1>1, <1>3, HeldThere, WithinLater DEF BoundInv
<1> QED BY <1>2, <1>3, AttemptCounted

\* A step that leaves the counters alone.
LEMMA SameBounds ==
    ASSUME NEW s, NEW t, NEW f, NEW location, NEW next, InBounds(s, location, f),
           t.position = s.position, t.macro_iteration = s.macro_iteration,
           t.approval_rejections = s.approval_rejections,
           t.status = s.status \/ t.status # "Active",
           location \notin {"rejected", "tripping"} \/ t.status # "Active"
    PROVE  InBounds(t, next, f)
BY DEF InBounds, Within, Below

LEMMA TripBounds ==
    ASSUME TypeInv, BoundInv, pc # "idle" \/ Active, NEW breaker, Trip(breaker)
    PROVE  BoundInv'
<1> DEFINE after == Failed(session)
<1>1. Attempt(CircuitBreakerTriggered(breaker), session, after, "idle")
  BY DEF Trip
<1>2. Held(session)
  BY Engaged
<1>3. /\ Held(after) /\ after.position = session.position
      /\ after.macro_iteration = session.macro_iteration
      /\ after.approval_rejections = session.approval_rejections
      /\ after.status # "Active"
  BY <1>2 DEF Failed, Held, SessionState, Status
<1>4. Trusted => Within(session, Failures) /\ InBounds(after, "idle", Failures)
  BY <1>3, EngagedBounds, SameBounds DEF InBounds
<1> HIDE DEF after
<1> QED BY <1>1, <1>2, <1>3, <1>4, AttemptBounds

LEMMA PlainBounds ==
    ASSUME TypeInv, BoundInv, pc # "idle" \/ Active,
           pc \notin {"rejected", "tripping"}, AdvancePlain
    PROVE  BoundInv'
<1> DEFINE p == session.position
           next == At(p.macro, NextEnabled(p.macro, p.sub))
           e == SubStateAdvanced(p.sub, next.sub)
           after == Repositioned(session, next)
<1>1. Held(session) /\ p.macro \in Macros /\ p.sub \in Nat /\ p # None
  BY Engaged
<1>2. next \in Positions /\ next.macro = p.macro
  BY <1>1, NextEnabledTyped
<1>3. Attempt(e, session, after, Arrived(next))
  BY DEF AdvancePlain
<1> HIDE DEF next
<1>s. Held(after) /\ after.position = next /\ after.status = session.status
  BY <1>1, <1>2, RepositionedHeld
<1>4. /\ after.macro_iteration = session.macro_iteration
      /\ after.approval_rejections = session.approval_rejections
  BY <1>1 DEF Repositioned, Held, SessionState
<1> HIDE DEF e, after
<1>5. Trusted => InBounds(after, Arrived(next), Failures)
  BY <1>1, <1>2, <1>s, <1>4, EngagedBounds DEF InBounds, Within, Below
<1>6. Trusted => Within(session, Failures)
  BY EngagedBounds DEF InBounds
<1> QED BY <1>1, <1>3, <1>s, <1>5, <1>6, AttemptBounds

LEMMA StartBounds == TypeInv /\ BoundInv /\ StartSession => BoundInv'
<1> SUFFICES ASSUME TypeInv, BoundInv, StartSession PROVE BoundInv'
  OBVIOUS
<1>1. CASE session' = Fresh /\ UNCHANGED faults
  <2>1. Failures' = Failures /\ Failures \in Nat
    BY <1>1, FailureCounted DEF TypeInv, SessionInv
  <2>2. Held(Fresh) /\ Fresh.macro_iteration = 0 /\ Fresh.approval_rejections = 0
    BY FreshHeld DEF Fresh
  <2>3. \A location : InBounds(Fresh, location, Failures)
    BY <2>1, <2>2, Limits, Used DEF InBounds, Within, Below
  <2> HIDE DEF Fresh
  <2> QED BY <1>1, <2>1, <2>2, <2>3, HeldThere DEF BoundInv
<1>2. CASE StartAborted
  BY <1>2 DEF StartAborted, BoundInv
<1> QED BY <1>1, <1>2 DEF StartSession

LEMMA EnterGateBounds == TypeInv /\ BoundInv /\ EnterGate => BoundInv'
<1> SUFFICES ASSUME TypeInv, BoundInv, EnterGate PROVE BoundInv'
  OBVIOUS
<1> DEFINE c == IssuedFor(session.position)
           e == ApprovalChallengeIssued(c)
           parked == [session EXCEPT !.pending_approval = c,
                                     !.approval_rejections = 0]
<1>1. /\ pc = "entering" /\ Held(session) /\ session.position.macro \in Macros
      /\ session.position.sub \in Nat
  BY Engaged DEF EnterGate
<1>2. c \in Challenge
  BY <1>1 DEF IssuedFor, Challenge, EnterGate, TypeInv, WorldInv
<1>3. /\ parked.position = session.position /\ parked.status = session.status
      /\ parked.approval_rejections = 0
      /\ parked.macro_iteration = session.macro_iteration
  BY <1>1 DEF Held, SessionState
<1>4. Attempt(e, session, parked, Settled) \/ StartAborted
  BY <1>3 DEF EnterGate, Attempt
<1> HIDE DEF c
<1>5. Held(parked)
  <2>1. c \in Challenge \cup {None} /\ 0 \in Nat
    BY <1>2
  <2>2. parked \in SessionState
    BY <1>1, <2>1 DEF Held, SessionState
  <2> QED BY <1>1, <1>3, <2>2 DEF Held
<1> HIDE DEF e, parked
<1>6. Trusted => Within(session, Failures) /\ InBounds(parked, Settled, Failures)
  BY <1>1, <1>3, EngagedBounds, Limits DEF InBounds, Within, Below
<1>7. CASE Attempt(e, session, parked, Settled)
  BY <1>1, <1>5, <1>6, <1>7, AttemptBounds
<1>8. CASE StartAborted
  BY <1>8 DEF StartAborted, BoundInv
<1> QED BY <1>4, <1>7, <1>8

LEMMA RefuseBounds == TypeInv /\ BoundInv /\ RejectApproval => BoundInv'
<1> SUFFICES ASSUME TypeInv, BoundInv, RejectApproval PROVE BoundInv'
  OBVIOUS
<1> DEFINE after == Refused(session)
           capped == ApprovalCap # 0 /\ after.approval_rejections >= ApprovalCap
           next == IF capped THEN "tripping" ELSE "idle"
<1>1. Active /\ pc = "idle" /\ Held(session)
  BY Engaged DEF RejectApproval, Submitted, Active
<1>2. Attempt(ApprovalRejected, session, after, next)
  BY DEF RejectApproval
<1>3. /\ Held(after) /\ after.position = session.position
      /\ after.status = session.status
      /\ after.macro_iteration = session.macro_iteration
      /\ after.approval_rejections = session.approval_rejections + 1
  BY <1>1 DEF Refused, Held, SessionState
<1> HIDE DEF after
<1>4. ASSUME Trusted
      PROVE  Within(session, Failures) /\ InBounds(after, next, Failures)
  <2>1. /\ InBounds(session, "idle", Failures) /\ Failures \in Nat
        /\ session.approval_rejections \in Nat /\ session.status = "Active"
    BY <1>1, <1>4, EngagedBounds
  <2>2. ApprovalCap # 0 => session.approval_rejections < Larger(1, ApprovalCap) + Failures
    BY <2>1 DEF InBounds, Below
  <2>3. Within(after, Failures)
    BY <1>3, <2>1, <2>2, Limits DEF InBounds, Within
  <2>4. next # "tripping" /\ ApprovalCap # 0 =>
          after.approval_rejections < Larger(1, ApprovalCap) + Failures
    BY <1>3, <2>1, Limits, EngineAssumption
  <2>5. Below(after, next, Failures)
    BY <1>3, <2>1, <2>4 DEF InBounds, Below
  <2> QED BY <2>1, <2>3, <2>5 DEF InBounds
<1> HIDE DEF next
<1> QED BY <1>1, <1>2, <1>3, <1>4, AttemptBounds

LEMMA RejectBounds == TypeInv /\ BoundInv /\ RejectChecklist => BoundInv'
<1> SUFFICES ASSUME TypeInv, BoundInv, RejectChecklist PROVE BoundInv'
  OBVIOUS
<1>1. Active /\ pc = "idle" /\ Held(session) /\ session.position # None
  BY Engaged DEF RejectChecklist, Submitted, Active
<1>2. PICK evidence \in Evidence :
        LET keys == CarriedKeys(evidence)
            counted == RejectionCounted(session, keys)
        IN  Attempt(MilestoneRejected(keys, counted.macro_iteration),
                    counted, counted, "rejected")
  BY DEF RejectChecklist
<1> DEFINE keys == CarriedKeys(evidence)
           counted == RejectionCounted(session, keys)
           e == MilestoneRejected(keys, counted.macro_iteration)
<1>3. keys \in SUBSET Keys
  BY DEF CarriedKeys
<1>4. Attempt(e, counted, counted, "rejected")
  BY <1>2
<1> HIDE DEF keys
<1>5. /\ Held(counted) /\ counted.position = session.position
      /\ counted.status = session.status
  BY <1>1, <1>3, RejectionCountedHeld, RejectionMatches
<1>6. /\ counted.macro_iteration = session.macro_iteration + 1
      /\ counted.approval_rejections = session.approval_rejections
  BY <1>1 DEF RejectionCounted, Held, SessionState
<1> HIDE DEF counted, e
<1>7. ASSUME Trusted PROVE InBounds(counted, "rejected", Failures)
  <2>1. /\ InBounds(session, "idle", Failures) /\ Failures \in Nat
        /\ session.macro_iteration \in Nat /\ session.status = "Active"
        /\ Limit(session.position.macro) \in Nat
    BY <1>1, <1>7, EngagedBounds
  <2>2. session.macro_iteration < Limit(session.position.macro) + Failures
    BY <2>1 DEF InBounds, Below
  <2>3. Within(counted, Failures)
    BY <1>5, <1>6, <2>1, <2>2 DEF InBounds, Within
  <2>4. Below(counted, "rejected", Failures)
    BY <1>5, <1>6, <2>1 DEF InBounds, Below
  <2> QED BY <2>3, <2>4 DEF InBounds
<1> QED BY <1>1, <1>4, <1>5, <1>7, AttemptBounds DEF InBounds


\* A call, or what a handler goes on with, that leaves the counters alone.
LEMMA SteadyBounds ==
    ASSUME TypeInv, BoundInv, pc # "idle" \/ Active,
           pc \notin {"rejected", "tripping"},
           NEW e, NEW after, Held(after), NEW next,
           after.position = session.position, after.status = session.status,
           after.macro_iteration = session.macro_iteration,
           after.approval_rejections = session.approval_rejections,
           Attempt(e, session, after, next)
    PROVE  BoundInv'
<1>1. Held(session)
  BY Engaged
<1>2. Trusted => Within(session, Failures) /\ InBounds(after, next, Failures)
  BY EngagedBounds, SameBounds DEF InBounds
<1> QED BY <1>1, <1>2, AttemptBounds

\* Nothing happens to the session, the ledger or the appends.
LEMMA RestBounds ==
    ASSUME TypeInv, BoundInv, UNCHANGED <<session, durable, faults>>,
           pc \notin {"rejected", "tripping"} \/ pc' = pc
    PROVE  BoundInv'
<1>1. Failures' = Failures
  BY FailureCounted DEF TypeInv, SessionInv
<1> QED BY <1>1 DEF BoundInv, Trusted, InBounds, Below

LEMMA ApprovedBounds == TypeInv /\ BoundInv /\ AcceptApproval => BoundInv'
<1> SUFFICES ASSUME TypeInv, BoundInv, AcceptApproval PROVE BoundInv'
  OBVIOUS
<1>1. Active /\ pc = "idle" /\ Held(session)
  BY Engaged DEF AcceptApproval, Submitted, Active
<1>2. PICK sig : Attempt(ApprovalAccepted(sig), session, session, "approved")
  BY DEF AcceptApproval
<1> QED BY <1>1, <1>2, SteadyBounds

LEMMA FinalBounds ==
    TypeInv /\ BoundInv
      /\ (AcceptMilestone \/ ViolateOutput \/ AcceptDelivered \/ AcceptUncontracted)
        => BoundInv'
<1> SUFFICES ASSUME TypeInv, BoundInv,
                    \/ AcceptMilestone \/ ViolateOutput
                    \/ AcceptDelivered \/ AcceptUncontracted
             PROVE  BoundInv'
  OBVIOUS
<1>1. (pc # "idle" \/ Active) /\ pc \notin {"rejected", "tripping"}
  BY DEF AcceptMilestone, ViolateOutput, AcceptDelivered, AcceptUncontracted,
     Completed, Submitted, Active
<1>2. \E e, next : Attempt(e, session, session, next)
  BY DEF AcceptMilestone, ViolateOutput, AcceptDelivered, AcceptUncontracted,
     AcceptFinal
<1> QED BY <1>1, <1>2, Engaged, SteadyBounds

LEMMA CompleteBounds == TypeInv /\ BoundInv /\ Complete => BoundInv'
<1> SUFFICES ASSUME TypeInv, BoundInv, Complete PROVE BoundInv'
  OBVIOUS
<1> DEFINE e == SessionCompleted(inflight)
           done == [session EXCEPT !.status = "Completed", !.position = None]
<1>1. pc = "completing" /\ Attempt(e, session, done, "idle") /\ Held(session)
  BY Engaged DEF Complete
<1>2. /\ Held(done) /\ done.position = None /\ done.status # "Active"
      /\ done.approval_rejections = session.approval_rejections
  BY <1>1 DEF Held, SessionState, Status
<1> HIDE DEF e, done
<1>3. Trusted => Within(session, Failures) /\ InBounds(done, "idle", Failures)
  BY <1>1, <1>2, EngagedBounds DEF InBounds, Within, Below
<1> QED BY <1>1, <1>2, <1>3, AttemptBounds

LEMMA ArtifactBounds == TypeInv /\ BoundInv /\ RecordArtifact => BoundInv'
<1> SUFFICES ASSUME TypeInv, BoundInv, RecordArtifact PROVE BoundInv'
  OBVIOUS
<1> DEFINE e == ArtifactStored(inflight)
           stored == [session EXCEPT !.artifacts = @ \cup {inflight}]
<1>1. /\ pc = "storing" /\ Attempt(e, session, stored, "idle") /\ Held(session)
      /\ inflight \in Artifacts
  BY Engaged DEF RecordArtifact, TypeInv, HandlerInv
<1>2. /\ Held(stored) /\ stored.position = session.position
      /\ stored.status = session.status
      /\ stored.macro_iteration = session.macro_iteration
      /\ stored.approval_rejections = session.approval_rejections
  BY <1>1 DEF Held, SessionState
<1> HIDE DEF e, stored
<1> QED BY <1>1, <1>2, SteadyBounds

\* A rejection that trips nothing is below every limit.
LEMMA PassedBounds ==
    ASSUME TypeInv, BoundInv, pc = "rejected", ~IterationsUsedUp, Trusted,
           NEW t, t.position # None, t.position.macro = session.position.macro,
           t.macro_iteration = session.macro_iteration,
           t.approval_rejections = session.approval_rejections
    PROVE  Within(session, Failures) /\ InBounds(t, "idle", Failures)
<1> DEFINE limit == Pipeline[session.position.macro].max_iterations
<1>1. /\ InBounds(session, "rejected", Failures) /\ Failures \in Nat
      /\ session.macro_iteration \in Nat /\ session.position # None
      /\ session.position.macro \in Macros /\ session.status = "Active"
  BY EngagedBounds
<1>2. limit \in Nat /\ Limit(session.position.macro) \in Nat
      /\ Limit(session.position.macro) >= limit
  BY <1>1, MacrosTyped, Limits
<1>3. ~ (session.macro_iteration >= limit)
  BY DEF IterationsUsedUp
<1> HIDE DEF limit
<1>4. session.macro_iteration < Limit(session.position.macro) + Failures
  BY <1>1, <1>2, <1>3
<1> QED BY <1>1, <1>4 DEF InBounds, Within, Below

LEMMA LoopBounds == TypeInv /\ BoundInv /\ LoopBack => BoundInv'
<1> SUFFICES ASSUME TypeInv, BoundInv, LoopBack PROVE BoundInv'
  OBVIOUS
<1> DEFINE p == session.position
           target == At(p.macro, FirstExecute(p.macro))
           e == MacroLoopedBack(p.sub, target.sub)
           after == Looped(session, target)
<1>1. /\ pc = "rejected" /\ ~IterationsUsedUp
      /\ Attempt(e, session, after, "idle")
  BY DEF LoopBack
<1>2. Held(session) /\ p.macro \in Macros
  BY <1>1, Engaged
<1>3. target \in Positions /\ target.macro = p.macro
  BY <1>2, FirstExecuteIsExecute, MacrosTyped
     DEF LoopBack, LoopEnabled, At, Positions
<1> HIDE DEF target
<1>4. Held(after) /\ after.position = target /\ target # None
  BY <1>2, <1>3, NoneAssumption DEF Looped, Held, SessionState
<1>5. /\ after.macro_iteration = session.macro_iteration
      /\ after.approval_rejections = session.approval_rejections
  BY <1>2 DEF Looped, Held, SessionState
<1> HIDE DEF e, after
<1>6. Trusted => Within(session, Failures) /\ InBounds(after, "idle", Failures)
  BY <1>1, <1>3, <1>4, <1>5, PassedBounds
<1> QED BY <1>1, <1>2, <1>4, <1>6, AttemptBounds

LEMMA StayBounds == TypeInv /\ BoundInv /\ StayRejected => BoundInv'
<1> SUFFICES ASSUME TypeInv, BoundInv, StayRejected PROVE BoundInv'
  OBVIOUS
<1>1. /\ pc = "rejected" /\ ~IterationsUsedUp /\ pc' = "idle"
      /\ UNCHANGED <<session, durable, faults>>
  BY DEF StayRejected
<1>2. Failures' = Failures /\ session # None /\ session.position # None
  BY <1>1, FailureCounted, Engaged DEF TypeInv, SessionInv
<1>3. Trusted => InBounds(session, "idle", Failures)
  BY <1>1, <1>2, PassedBounds
<1> QED BY <1>1, <1>2, <1>3 DEF BoundInv, Trusted

LEMMA MacroBounds == TypeInv /\ BoundInv /\ AdvanceMacro => BoundInv'
<1> SUFFICES ASSUME TypeInv, BoundInv, AdvanceMacro PROVE BoundInv'
  OBVIOUS
<1> DEFINE m == session.position.macro
           next == At(m + 1, FirstEnabled(m + 1))
           e == MacroAdvanced(m, m + 1)
           moved == Repositioned(session, next)
           after == MacroReset(moved)
<1>1. pc = "advancing" /\ Attempt(e, session, after, Arrived(next))
  BY DEF AdvanceMacro
<1>2. Held(session) /\ m + 1 \in Macros
  BY <1>1, Engaged, NextMacro DEF TypeInv, SessionInv
<1>3. next \in Positions /\ next.macro \in Macros
  BY <1>2, FirstEnabledIsFirst, MacrosTyped DEF At, Positions
<1> HIDE DEF next
<1>4. /\ Held(moved) /\ moved.position = next /\ moved.status = session.status
      /\ moved.approval_rejections = session.approval_rejections
  <2>1. Held(moved) /\ moved.position = next /\ moved.status = session.status
    BY <1>2, <1>3, RepositionedHeld
  <2>2. moved.approval_rejections = session.approval_rejections
    BY <1>2 DEF Repositioned, Held, SessionState
  <2> QED BY <2>1, <2>2
<1> HIDE DEF moved
<1>5. /\ Held(after) /\ after.position = next /\ after.macro_iteration = 0
      /\ after.status = session.status
      /\ after.approval_rejections = session.approval_rejections
  BY <1>4 DEF MacroReset, Held, SessionState
<1> HIDE DEF e, after
<1>6. Trusted => Within(session, Failures) /\ InBounds(after, Arrived(next), Failures)
  BY <1>1, <1>3, <1>5, EngagedBounds, Limits DEF InBounds, Within, Below
<1> QED BY <1>1, <1>2, <1>5, <1>6, AttemptBounds

LEMMA RecoverBounds == TypeInv /\ BoundInv /\ Recover => BoundInv'
<1> SUFFICES ASSUME TypeInv, BoundInv, Recover PROVE BoundInv'
  OBVIOUS
<1>1. Failures' = Failures
  BY FailureCounted DEF Recover, TypeInv, SessionInv
<1> QED BY <1>1 DEF Recover, BoundInv, Trusted

\* What the ledger replays to after a crash has counted no more than the
\* session that is gone.
LEMMA CrashBounds == TypeInv /\ ReplayInv /\ BoundInv /\ Crash => BoundInv'
<1> SUFFICES ASSUME TypeInv, ReplayInv, BoundInv, Crash, Trusted',
                    durable' # None
             PROVE  InBounds(durable, "idle", Failures')
  BY DEF BoundInv, Crash
<1>1. /\ Failures \in Nat /\ Failures' = Failures + 1 /\ session # None
      /\ Held(session) /\ Held(durable)
  BY FailureCounted DEF Crash, TypeInv, SessionInv
<1>2. "unsynced" \notin Faults
  BY <1>1 DEF Trusted
<1>3. Within(session, Failures) /\ Stands(session, durable)
  BY <1>1, <1>2 DEF BoundInv, Trusted, InBounds, ReplayInv, StandsInv
<1>4. Within(durable, Failures)
  <2>1. /\ session.macro_iteration \in Nat /\ durable.macro_iteration \in Nat
        /\ session.position # None => Limit(session.position.macro) \in Nat
    BY <1>1, Used, Limits
  <2> QED BY <1>1, <1>3, <2>1 DEF Within, Stands
<1> QED BY <1>1, <1>4, WithinLater

LEMMA BoundInvNext == TypeInv /\ ReplayInv /\ BoundInv /\ [Next]_vars => BoundInv'
<1> SUFFICES ASSUME TypeInv, ReplayInv, BoundInv, [Next]_vars PROVE BoundInv'
  OBVIOUS
<1>1. CASE \/ GlobalTimeout \/ TripApprovalLimit \/ TripMaxIterations
           \/ TripRepetitiveLoop
  BY <1>1, TripBounds DEF GlobalTimeout, TripApprovalLimit, TripMaxIterations,
     TripRepetitiveLoop
<1>2. CASE AdvanceUngated \/ AdvanceApproved
  BY <1>2, PlainBounds DEF AdvanceUngated, AdvanceApproved, Submitted, Active
<1>3. CASE \/ WriteOutput \/ StoreBlob \/ Publish \/ Sign \/ Expire \/ Tamper
           \/ UNCHANGED vars
  BY <1>3, RestBounds DEF WriteOutput, StoreBlob, Publish, Sign, Expire, Tamper,
     Completed, Submitted, Active, vars
<1>4. CASE \/ AcceptApproval \/ RejectApproval \/ RejectChecklist
           \/ AcceptMilestone \/ ViolateOutput \/ AcceptUncontracted
           \/ StartSession \/ Recover
  BY <1>4, ApprovedBounds, RefuseBounds, RejectBounds, FinalBounds, StartBounds,
     RecoverBounds
<1>5. CASE \/ EnterGate \/ LoopBack \/ StayRejected \/ AdvanceMacro
           \/ AcceptDelivered \/ Complete \/ RecordArtifact \/ Crash
  BY <1>5, EnterGateBounds, LoopBounds, StayBounds, MacroBounds, FinalBounds,
     CompleteBounds, ArtifactBounds, CrashBounds
<1> QED BY <1>1, <1>2, <1>3, <1>4, <1>5
        DEF Next, Submission, Continuation, Environment

LEMMA BoundInvAlways == Spec => [](TypeInv /\ ReplayInv /\ BoundInv)
<1>1. Init => BoundInv
  BY DEF Init, BoundInv
<1> QED BY <1>1, BoundInvNext, ReplayInvAlways, PTL DEF Spec

\* Whatever a client submits and however often the process dies, a session
\* counts at most max_iterations rejections in a macro and at most the cap of
\* refused approvals, plus one for every failure.
THEOREM WorkBounded == "unsynced" \notin Faults /\ Spec => []RejectionsBounded
<1>1. ASSUME "unsynced" \notin Faults, TypeInv, ReplayInv, BoundInv
      PROVE  RejectionsBounded
  <2>1. \A s \in {session, durable} \ {None} : Within(s, Failures)
    <3>1. session # None => Within(session, Failures)
      BY <1>1 DEF BoundInv, Trusted, InBounds
    <3>2. session = None /\ durable # None => Within(durable, Failures)
      BY <1>1 DEF BoundInv, Trusted, InBounds
    <3>3. CASE session # None
      <4>1. Stands(session, durable) /\ Held(session) /\ Held(durable)
        BY <1>1, <3>3 DEF ReplayInv, StandsInv, Stands, TypeInv, SessionInv
      <4>2. /\ session.macro_iteration \in Nat /\ durable.macro_iteration \in Nat
            /\ session.position # None => Limit(session.position.macro) \in Nat
            /\ Failures \in Nat
        BY <1>1, <4>1, Used, Limits, FailureCounted DEF TypeInv, SessionInv
      <4>3. Within(durable, Failures)
        BY <3>1, <3>3, <4>1, <4>2 DEF Within, Stands
      <4> QED BY <3>1, <4>3
    <3> QED BY <3>2, <3>3
  <2> QED BY <2>1 DEF Within, Limit, RejectionsBounded
<1>2. CASE "unsynced" \in Faults
  BY <1>2
<1>3. CASE "unsynced" \notin Faults
  <2>1. TypeInv /\ ReplayInv /\ BoundInv => RejectionsBounded
    BY <1>1, <1>3
  <2> QED BY <2>1, BoundInvAlways, PTL
<1> QED BY <1>2, <1>3

-----------------------------------------------------------------------------
(* As long as nothing fails, every append does what it means to.           *)

LEMMA Unfailing ==
    ASSUME TypeInv
    PROVE  /\ UNCHANGED faults /\ Failures' = 0 => Failures = 0
           /\ \A kind : Fault(kind) => Failures' # 0
           /\ Failures = 0 => Lossless
<1>1. faults \in [AllFaults -> Nat]
  BY DEF TypeInv, SessionInv
<1>2. Failures = 0 => Lossless
  BY <1>1 DEF Failures, Lossless, AllFaults
<1> QED BY <1>1, <1>2, FailureCounted

LEMMA Succeeds ==
    ASSUME TypeInv, Failures' = 0, NEW e, NEW before, NEW after, NEW next,
           Attempt(e, before, after, next)
    PROVE  /\ Failures = 0 /\ session' = after /\ pc' = next
           /\ arrival' = IF after.position # session.position
                         THEN minted ELSE arrival
BY AttemptCounted

\* The session of a handler or a call, before anything has failed.
LEMMA EngagedOrder ==
    ASSUME TypeInv, OrderInv, pc # "idle" \/ Active, Failures = 0
    PROVE  /\ Held(session) /\ session # None /\ session.status = "Active"
           /\ session.position # None /\ session.position.macro \in Macros
           /\ session.position.sub \in Nat
           /\ Orderly(session, pc, minted, arrival, signed)
BY Engaged DEF OrderInv

\* An append that leaves the session where it stands, with its challenge.
LEMMA StandingOrder ==
    ASSUME TypeInv, OrderInv, pc # "idle" \/ Active, pc # "entering",
           NEW e, NEW before, NEW after, Held(after), NEW next,
           Attempt(e, before, after, next), UNCHANGED <<minted, signed>>,
           after.position = session.position,
           after.pending_approval = session.pending_approval,
           next # "entering", next = "approved" => AtGate(session),
           after.status = "Active" /\ next # "rejected" /\ Failures = 0 =>
             after.identical_rejections < Larger(1, OscillationThreshold)
    PROVE  OrderInv'
<1> SUFFICES ASSUME Failures' = 0 PROVE OrderInv'
  BY DEF OrderInv
<1>1. /\ Failures = 0 /\ session' = after /\ pc' = next /\ arrival' = arrival
  BY Succeeds
<1>2. Orderly(session, pc, minted, arrival, signed) /\ session.status = "Active"
      /\ session # None
  BY <1>1, EngagedOrder
<1>3. after # None
  BY HeldThere
<1>4. AtGate(after) <=> AtGate(session)
  BY <1>2, <1>3 DEF AtGate
<1>5. Orderly(after, next, minted, arrival, signed)
  BY <1>1, <1>2, <1>4 DEF Orderly
<1> QED BY <1>1, <1>3, <1>5 DEF OrderInv

\* An append that moves the session; where it comes to a gate, the handler goes
\* on to the gate's challenge.
LEMMA MovingOrder ==
    ASSUME TypeInv, OrderInv, pc # "idle" \/ Active,
           NEW e, NEW before, NEW after, Held(after), NEW next,
           Attempt(e, before, after, next), UNCHANGED <<minted, signed>>,
           after.position # session.position,
           after.pending_approval \in {None, session.pending_approval},
           next \notin {"rejected", "approved"},
           AtGate(after) /\ after.status = "Active" => next = "entering",
           after.status = "Active" /\ Failures = 0 =>
             after.identical_rejections < Larger(1, OscillationThreshold)
    PROVE  OrderInv'
<1> SUFFICES ASSUME Failures' = 0 PROVE OrderInv'
  BY DEF OrderInv
<1>1. /\ Failures = 0 /\ session' = after /\ pc' = next /\ arrival' = minted
  BY Succeeds
<1>2. Orderly(session, pc, minted, arrival, signed)
  BY <1>1, EngagedOrder
<1>3. \A c \in signed : c.nonce <= minted /\ ~ (c.nonce > minted)
  <2>1. SUFFICES ASSUME NEW c \in signed PROVE c.nonce <= minted /\ ~ (c.nonce > minted)
    OBVIOUS
  <2>2. c.nonce \in Nat /\ minted \in Nat
    BY DEF TypeInv, WorldInv, Challenge
  <2>3. c.nonce <= minted
    BY <1>2 DEF Orderly
  <2> QED BY <2>2, <2>3
<1>4. after.pending_approval # None => after.pending_approval.nonce <= minted
  BY <1>2 DEF Orderly
<1>5. Orderly(after, next, minted, minted, signed)
  BY <1>1, <1>3, <1>4 DEF Orderly
<1> QED BY <1>1, <1>5, HeldThere DEF OrderInv

\* Nothing happens to the session, the ledger or the challenges.
LEMMA RestOrder ==
    ASSUME TypeInv, OrderInv,
           UNCHANGED <<session, durable, faults, arrival, minted, signed>>,
           \/ pc' = pc
           \/ /\ pc \notin {"entering", "rejected"}
              /\ pc' \notin {"entering", "approved"}
    PROVE  OrderInv'
<1> SUFFICES ASSUME Failures' = 0 PROVE OrderInv'
  BY DEF OrderInv
<1>1. Failures = 0
  BY Unfailing
<1>2. session # None => Orderly(session, pc', minted, arrival, signed)
  BY <1>1 DEF OrderInv, Orderly
<1> QED BY <1>1, <1>2 DEF OrderInv

\* The session leaves the map on a failure.
LEMMA FailedOrder == ASSUME TypeInv, NEW kind, Fault(kind) PROVE OrderInv'
BY Unfailing DEF OrderInv

-----------------------------------------------------------------------------
LEMMA TripOrder ==
    ASSUME TypeInv, OrderInv, pc # "idle" \/ Active, pc # "entering",
           NEW breaker, Trip(breaker), UNCHANGED <<minted, signed>>
    PROVE  OrderInv'
<1>1. Attempt(CircuitBreakerTriggered(breaker), session, Failed(session), "idle")
  BY DEF Trip
<1>2. Held(session)
  BY Engaged
<1>3. /\ Held(Failed(session)) /\ Failed(session).position = session.position
      /\ Failed(session).pending_approval = session.pending_approval
      /\ Failed(session).status # "Active"
  BY <1>2 DEF Failed, Held, SessionState, Status
<1> QED BY <1>1, <1>3, StandingOrder

LEMMA BeforeChecklist ==
    ASSUME NEW m \in Macros, NEW k \in Subs(m), Kind(m, k) # "checklist"
    PROVE  NextEnabled(m, k) # k
<1>1. Kind(m, Trailing(m)) = "checklist"
  BY MacrosTyped, ProfileAssumption
     DEF Runnable, Macros, Kind, Trailing, Subs, EnabledSubs
<1>2. k \in Nat /\ k < Trailing(m)
  BY <1>1, MacrosTyped
<1>3. NextEnabled(m, k) > k
  BY <1>2, NextEnabledIsNext
<1> QED BY <1>2, <1>3, NextEnabledIsNext, MacrosTyped

LEMMA PlainOrder ==
    ASSUME TypeInv, OrderInv, pc # "idle" \/ Active,
           pc \notin {"entering", "rejected"}, AdvancePlain,
           Failures = 0 =>
             /\ session.position.sub \in Subs(session.position.macro)
             /\ Kind(session.position.macro, session.position.sub) # "checklist"
    PROVE  OrderInv'
<1> DEFINE p == session.position
           next == At(p.macro, NextEnabled(p.macro, p.sub))
           e == SubStateAdvanced(p.sub, next.sub)
           after == Repositioned(session, next)
<1>1. Held(session) /\ p.macro \in Macros /\ p.sub \in Nat /\ p # None
  BY Engaged
<1>2. next \in Positions
  BY <1>1, NextEnabledTyped
<1>3. Attempt(e, session, after, Arrived(next)) /\ UNCHANGED <<minted, signed>>
  BY DEF AdvancePlain, world
<1>4. Failures = 0 => next # p
  BY <1>1, BeforeChecklist DEF At
<1> HIDE DEF next
<1>5. Held(after) /\ after.position = next /\ after.status = session.status
  BY <1>1, <1>2, RepositionedHeld
<1>6. /\ after.pending_approval = None
      /\ after.identical_rejections = session.identical_rejections
  BY <1>1 DEF Repositioned, Held, SessionState
<1> HIDE DEF e, after
<1>7. AtGate(after) => Arrived(next) = "entering"
  BY <1>5 DEF AtGate, Arrived
<1>8. Failures = 0 =>
        session.identical_rejections < Larger(1, OscillationThreshold)
  BY EngagedOrder DEF Orderly
<1>9. CASE Failures = 0
  BY <1>3, <1>4, <1>5, <1>6, <1>7, <1>8, <1>9, SettledPlace, MovingOrder
<1>10. CASE Failures # 0
  BY <1>3, <1>10, Succeeds DEF OrderInv
<1> QED BY <1>9, <1>10

LEMMA StartOrder == TypeInv /\ OrderInv /\ StartSession => OrderInv'
<1> SUFFICES ASSUME TypeInv, OrderInv, StartSession, Failures' = 0
             PROVE  OrderInv'
  BY DEF OrderInv
<1>1. ~StartAborted
  BY Unfailing DEF StartAborted
<1>2. /\ session' = Fresh /\ pc' = Arrived(Fresh.position)
      /\ UNCHANGED <<faults, arrival, minted, signed>> /\ session = None
  BY <1>1 DEF StartSession
<1>3. Failures = 0 /\ minted = arrival /\ signed = {}
  BY <1>2, Unfailing DEF OrderInv
<1>4. /\ Held(Fresh) /\ Fresh # None /\ Fresh.pending_approval = None
      /\ Fresh.identical_rejections = 0
  BY FreshHeld, HeldThere DEF Fresh
<1>5. AtGate(Fresh) => Arrived(Fresh.position) = "entering"
  BY DEF AtGate, Arrived
<1> HIDE DEF Fresh
<1>6. Orderly(Fresh, Arrived(Fresh.position), minted, arrival, signed)
  BY <1>3, <1>4, <1>5, SettledPlace, Limits DEF Orderly
<1> QED BY <1>2, <1>4, <1>6 DEF OrderInv

\* A challenge minted at a gate is the only one since the session came there.
LEMMA EnterGateOrder == TypeInv /\ ReplayInv /\ OrderInv /\ EnterGate => OrderInv'
<1> SUFFICES ASSUME TypeInv, ReplayInv, OrderInv, EnterGate, Failures' = 0
             PROVE  OrderInv'
  BY DEF OrderInv
<1> DEFINE c == IssuedFor(session.position)
           e == ApprovalChallengeIssued(c)
           parked == [session EXCEPT !.pending_approval = c,
                                     !.approval_rejections = 0]
<1>1. /\ pc = "entering" /\ Held(session) /\ session # None
      /\ session.position # None
      /\ session.position.macro \in Macros /\ session.position.sub \in Nat
  BY Engaged DEF EnterGate
<1>2. /\ c \in Challenge /\ c.nonce = minted + 1 /\ minted \in Nat
      /\ At(c.macro, c.sub) = session.position
  <2>1. session.position = At(session.position.macro, session.position.sub)
    BY <1>1 DEF Held, SessionState, Positions, At
  <2> QED BY <1>1, <2>1 DEF IssuedFor, Challenge, At, EnterGate, TypeInv, WorldInv
<1>3. /\ parked.position = session.position /\ parked.status = session.status
      /\ parked.pending_approval = c
      /\ parked.identical_rejections = session.identical_rejections
  BY <1>1 DEF Held, SessionState
<1>4. ~StartAborted
  BY Unfailing DEF StartAborted
<1>5. Attempt(e, session, parked, Settled)
  BY <1>3, <1>4 DEF EnterGate, Attempt
<1>6. minted' = minted + 1 /\ signed' = signed
  BY DEF EnterGate, world
<1> HIDE DEF c
<1>7. parked \in SessionState
  <2>1. c \in Challenge \cup {None} /\ 0 \in Nat
    BY <1>2
  <2> QED BY <1>1, <2>1 DEF Held, SessionState
<1> HIDE DEF e, parked
<1>8. /\ Failures = 0 /\ session' = parked /\ pc' = Settled /\ arrival' = arrival
  BY <1>3, <1>5, Succeeds
<1>9. Orderly(session, pc, minted, arrival, signed) /\ minted = arrival
  BY <1>1, <1>8, EngagedOrder DEF Orderly
<1>10. \A a \in signed : a.nonce <= minted + 1 /\ ~ (a.nonce > arrival)
  <2>1. SUFFICES ASSUME NEW a \in signed
                 PROVE  a.nonce <= minted + 1 /\ ~ (a.nonce > arrival)
    OBVIOUS
  <2>2. a.nonce \in Nat
    BY DEF TypeInv, WorldInv, Challenge
  <2>3. a.nonce <= minted
    BY <1>9 DEF Orderly
  <2> QED BY <1>2, <1>9, <2>2, <2>3
<1>11. c.nonce <= minted + 1 /\ c # None
  BY <1>2, NoneAssumption
<1>12. session.status = "Active" =>
         session.identical_rejections < Larger(1, OscillationThreshold)
  BY <1>1, <1>9 DEF Orderly
<1>13. Orderly(parked, Settled, minted + 1, arrival, signed)
  BY <1>2, <1>3, <1>10, <1>11, <1>12, SettledPlace DEF Orderly
<1>14. parked # None
  BY <1>7, NoneAssumption
<1> QED BY <1>6, <1>8, <1>13, <1>14 DEF OrderInv

LEMMA ApprovalOrder ==
    TypeInv /\ OrderInv /\ (AcceptApproval \/ RejectApproval) => OrderInv'
<1> SUFFICES ASSUME TypeInv, OrderInv, AcceptApproval \/ RejectApproval
             PROVE  OrderInv'
  OBVIOUS
<1>1. /\ Active /\ pc = "idle" /\ Held(session) /\ AtGate(session)
      /\ UNCHANGED <<minted, signed>>
  BY Engaged DEF AcceptApproval, RejectApproval, Submitted, Active, AtGate, world
<1>2. Failures = 0 =>
        session.identical_rejections < Larger(1, OscillationThreshold)
  BY <1>1, EngagedOrder DEF Orderly
<1>3. CASE AcceptApproval
  <2>1. PICK sig : Attempt(ApprovalAccepted(sig), session, session, "approved")
    BY <1>3 DEF AcceptApproval
  <2> QED BY <1>1, <1>2, <2>1, StandingOrder
<1>4. CASE RejectApproval
  <2> DEFINE after == Refused(session)
  <2>1. PICK next \in {"tripping", "idle"} :
          Attempt(ApprovalRejected, session, after, next)
    BY <1>4 DEF RejectApproval
  <2>2. /\ Held(after) /\ after.position = session.position
        /\ after.pending_approval = session.pending_approval
        /\ after.identical_rejections = session.identical_rejections
    BY <1>1 DEF Refused, Held, SessionState
  <2> HIDE DEF after
  <2> QED BY <1>1, <1>2, <2>1, <2>2, StandingOrder
<1> QED BY <1>3, <1>4

LEMMA RejectOrder == TypeInv /\ OrderInv /\ RejectChecklist => OrderInv'
<1> SUFFICES ASSUME TypeInv, OrderInv, RejectChecklist PROVE OrderInv'
  OBVIOUS
<1>1. /\ Active /\ pc = "idle" /\ Held(session) /\ session.position # None
      /\ UNCHANGED <<minted, signed>>
  BY Engaged DEF RejectChecklist, Submitted, Active, world
<1>2. PICK evidence \in Evidence :
        LET keys == CarriedKeys(evidence)
            counted == RejectionCounted(session, keys)
        IN  Attempt(MilestoneRejected(keys, counted.macro_iteration),
                    counted, counted, "rejected")
  BY DEF RejectChecklist
<1> DEFINE keys == CarriedKeys(evidence)
           counted == RejectionCounted(session, keys)
           e == MilestoneRejected(keys, counted.macro_iteration)
<1>3. keys \in SUBSET Keys
  BY DEF CarriedKeys
<1>4. Attempt(e, counted, counted, "rejected")
  BY <1>2
<1> HIDE DEF keys
<1>5. Held(counted) /\ counted.position = session.position
  BY <1>1, <1>3, RejectionCountedHeld, RejectionMatches
<1>6. counted.pending_approval = session.pending_approval
  BY <1>1 DEF RejectionCounted, Held, SessionState
<1> HIDE DEF counted, e
<1> QED BY <1>1, <1>4, <1>5, <1>6, StandingOrder

LEMMA LoopOrder == TypeInv /\ ReplayInv /\ OrderInv /\ LoopBack => OrderInv'
<1> SUFFICES ASSUME TypeInv, ReplayInv, OrderInv, LoopBack PROVE OrderInv'
  OBVIOUS
<1> DEFINE p == session.position
           target == At(p.macro, FirstExecute(p.macro))
           e == MacroLoopedBack(p.sub, target.sub)
           after == Looped(session, target)
<1>1. /\ pc = "rejected" /\ ~Oscillating /\ UNCHANGED <<minted, signed>>
      /\ Attempt(e, session, after, "idle")
  BY DEF LoopBack, world
<1>2. /\ Held(session) /\ p.macro \in Macros
      /\ Kind(p.macro, p.sub) = "checklist"
  BY <1>1, Engaged DEF ReplayInv, PlaceInv
<1>3. /\ target \in Positions /\ Kind(target.macro, target.sub) = "execute"
      /\ target # p
  BY <1>2, FirstExecuteIsExecute, MacrosTyped
     DEF LoopBack, LoopEnabled, At, Positions
<1> HIDE DEF target
<1>4. Held(after) /\ after.position = target
  BY <1>2, <1>3, NoneAssumption DEF Looped, Held, SessionState
<1>5. /\ after.pending_approval = session.pending_approval
      /\ after.identical_rejections = session.identical_rejections
      /\ session.identical_rejections \in Nat
  BY <1>2 DEF Looped, Held, SessionState
<1> HIDE DEF e, after
<1>6. session.identical_rejections < Larger(1, OscillationThreshold)
  <2>1. ~ (session.identical_rejections >= OscillationThreshold)
    BY <1>1 DEF Oscillating
  <2> QED BY <1>5, <2>1, Limits, EngineAssumption
<1>7. ~AtGate(after)
  BY <1>3, <1>4 DEF AtGate
<1> QED BY <1>1, <1>3, <1>4, <1>5, <1>6, <1>7, MovingOrder

LEMMA StayOrder == TypeInv /\ OrderInv /\ StayRejected => OrderInv'
<1> SUFFICES ASSUME TypeInv, OrderInv, StayRejected, Failures' = 0
             PROVE  OrderInv'
  BY DEF OrderInv
<1>1. /\ pc = "rejected" /\ ~Oscillating /\ pc' = "idle"
      /\ UNCHANGED <<session, faults, minted, signed, arrival>>
  BY DEF StayRejected, world
<1>2. Failures = 0
  BY <1>1, Unfailing
<1>3. Orderly(session, pc, minted, arrival, signed) /\ Held(session)
      /\ session # None
  BY <1>1, <1>2, EngagedOrder
<1>4. session.identical_rejections < Larger(1, OscillationThreshold)
  <2>1. ~ (session.identical_rejections >= OscillationThreshold)
    BY <1>1 DEF Oscillating
  <2> QED BY <1>3, <2>1, Limits, Used, EngineAssumption
<1>5. Orderly(session, "idle", minted, arrival, signed)
  BY <1>1, <1>3, <1>4 DEF Orderly
<1> QED BY <1>1, <1>3, <1>5 DEF OrderInv

LEMMA MacroOrder == TypeInv /\ OrderInv /\ AdvanceMacro => OrderInv'
<1> SUFFICES ASSUME TypeInv, OrderInv, AdvanceMacro PROVE OrderInv'
  OBVIOUS
<1> DEFINE m == session.position.macro
           next == At(m + 1, FirstEnabled(m + 1))
           e == MacroAdvanced(m, m + 1)
           moved == Repositioned(session, next)
           after == MacroReset(moved)
<1>1. /\ pc = "advancing" /\ Attempt(e, session, after, Arrived(next))
      /\ UNCHANGED <<minted, signed>>
  BY DEF AdvanceMacro, world
<1>2. Held(session) /\ m \in Macros /\ m + 1 \in Macros
  BY <1>1, Engaged, NextMacro DEF TypeInv, SessionInv
<1>3. next \in Positions /\ next # session.position
  BY <1>2, FirstEnabledIsFirst, MacrosTyped DEF At, Positions
<1> HIDE DEF next
<1>4. Held(moved) /\ moved.position = next /\ moved.pending_approval = None
  <2>1. Held(moved) /\ moved.position = next
    BY <1>2, <1>3, RepositionedHeld
  <2>2. moved.pending_approval = None
    BY <1>2 DEF Repositioned, Held, SessionState
  <2> QED BY <2>1, <2>2
<1> HIDE DEF moved
<1>5. /\ Held(after) /\ after.position = next /\ after.identical_rejections = 0
      /\ after.pending_approval = None
  BY <1>4 DEF MacroReset, Held, SessionState
<1> HIDE DEF e, after
<1>6. AtGate(after) => Arrived(next) = "entering"
  BY <1>5 DEF AtGate, Arrived
<1> QED BY <1>1, <1>3, <1>5, <1>6, Limits, SettledPlace, MovingOrder

LEMMA FinalOrder ==
    TypeInv /\ OrderInv
      /\ (AcceptMilestone \/ ViolateOutput \/ AcceptDelivered \/ AcceptUncontracted)
        => OrderInv'
<1> SUFFICES ASSUME TypeInv, OrderInv,
                    \/ AcceptMilestone \/ ViolateOutput
                    \/ AcceptDelivered \/ AcceptUncontracted
             PROVE  OrderInv'
  OBVIOUS
<1>1. /\ pc # "idle" \/ Active
      /\ pc \notin {"rejected", "entering"} /\ UNCHANGED <<minted, signed>>
  BY DEF AcceptMilestone, ViolateOutput, AcceptDelivered, AcceptUncontracted,
     AcceptFinal, Completed, Submitted, Active, world
<1>2. \E e : \E next \in {"advancing", "idle", "completing"} :
         Attempt(e, session, session, next)
  BY DEF AcceptMilestone, ViolateOutput, AcceptDelivered, AcceptUncontracted,
     AcceptFinal
<1>3. Held(session)
  BY <1>1, Engaged
<1>4. Failures = 0 =>
        session.identical_rejections < Larger(1, OscillationThreshold)
  BY <1>1, EngagedOrder DEF Orderly
<1> QED BY <1>1, <1>2, <1>3, <1>4, StandingOrder

LEMMA CompleteOrder == TypeInv /\ OrderInv /\ Complete => OrderInv'
<1> SUFFICES ASSUME TypeInv, OrderInv, Complete PROVE OrderInv'
  OBVIOUS
<1> DEFINE e == SessionCompleted(inflight)
           done == [session EXCEPT !.status = "Completed", !.position = None]
<1>1. /\ pc = "completing" /\ Attempt(e, session, done, "idle")
      /\ Held(session) /\ session.position # None
      /\ UNCHANGED <<minted, signed>>
  BY Engaged DEF Complete, world
<1>2. /\ Held(done) /\ done.position = None /\ done.status # "Active"
      /\ done.pending_approval = session.pending_approval
  BY <1>1 DEF Held, SessionState, Status
<1> HIDE DEF e, done
<1> QED BY <1>1, <1>2, MovingOrder

LEMMA ArtifactOrder == TypeInv /\ OrderInv /\ RecordArtifact => OrderInv'
<1> SUFFICES ASSUME TypeInv, OrderInv, RecordArtifact PROVE OrderInv'
  OBVIOUS
<1> DEFINE e == ArtifactStored(inflight)
           stored == [session EXCEPT !.artifacts = @ \cup {inflight}]
<1>1. /\ pc = "storing" /\ Attempt(e, session, stored, "idle") /\ Held(session)
      /\ inflight \in Artifacts /\ UNCHANGED <<minted, signed>>
  BY Engaged DEF RecordArtifact, TypeInv, HandlerInv, world
<1>2. /\ Held(stored) /\ stored.position = session.position
      /\ stored.pending_approval = session.pending_approval
      /\ stored.identical_rejections = session.identical_rejections
  BY <1>1 DEF Held, SessionState
<1>3. Failures = 0 =>
        session.identical_rejections < Larger(1, OscillationThreshold)
  BY <1>1, EngagedOrder DEF Orderly
<1> HIDE DEF e, stored
<1> QED BY <1>1, <1>2, <1>3, StandingOrder

\* What the human signs is what the session holds.
LEMMA SignOrder == TypeInv /\ ReplayInv /\ OrderInv /\ Sign => OrderInv'
<1> SUFFICES ASSUME TypeInv, ReplayInv, OrderInv, Sign, Failures' = 0
             PROVE  OrderInv'
  BY DEF OrderInv
<1>1. UNCHANGED <<session, durable, pc, minted, arrival, faults>>
  BY DEF Sign
<1>2. Failures = 0 /\ Lossless
  BY <1>1, Unfailing
<1>3. PICK s \in {session, durable} \ {None} :
        /\ s.pending_approval # None
        /\ signed' = signed \cup {s.pending_approval}
  BY DEF Sign
<1>4. /\ session # None /\ Held(session)
      /\ Orderly(session, pc, minted, arrival, signed)
  BY <1>2, <1>3 DEF OrderInv, TypeInv, SessionInv
<1>5. durable = InLedger(session, pc)
  BY <1>2, <1>4 DEF ReplayInv, MatchInv
<1>6. s.pending_approval = session.pending_approval
  <2>1. Answered(session).pending_approval = None
    BY <1>4 DEF Answered, Held, SessionState
  <2> QED BY <1>3, <1>5, <2>1 DEF InLedger
<1>7. Orderly(session, pc, minted, arrival, signed')
  BY <1>3, <1>4, <1>6 DEF Orderly
<1> QED BY <1>1, <1>4, <1>7 DEF OrderInv

LEMMA OrderInvNext == TypeInv /\ ReplayInv /\ OrderInv /\ [Next]_vars => OrderInv'
<1> SUFFICES ASSUME TypeInv, ReplayInv, OrderInv, [Next]_vars PROVE OrderInv'
  OBVIOUS
<1>1. CASE \/ GlobalTimeout \/ TripApprovalLimit \/ TripMaxIterations
           \/ TripRepetitiveLoop
  BY <1>1, TripOrder DEF GlobalTimeout, TripApprovalLimit, TripMaxIterations,
     TripRepetitiveLoop, Active, world
<1>2. CASE AdvanceUngated
  <2>1. /\ pc = "idle" /\ Active /\ AdvancePlain
        /\ session.position.sub \in Subs(session.position.macro)
        /\ Kind(session.position.macro, session.position.sub) # "checklist"
    BY <1>2 DEF AdvanceUngated, Submitted, Active
  <2> QED BY <2>1, PlainOrder
<1>3. CASE AdvanceApproved
  <2>1. pc = "approved" /\ AdvancePlain
    BY <1>3 DEF AdvanceApproved
  <2>2. Failures = 0 => AtGate(session)
    BY <2>1, EngagedOrder DEF Orderly
  <2> QED BY <2>1, <2>2, PlainOrder DEF AtGate
<1>4. CASE \/ WriteOutput \/ StoreBlob \/ Publish \/ Expire \/ Tamper
           \/ UNCHANGED vars
  BY <1>4, RestOrder DEF WriteOutput, StoreBlob, Publish, Expire, Tamper,
     Completed, Submitted, Active, vars, world
<1>5. CASE Recover
  BY <1>5, Unfailing DEF Recover, OrderInv
<1>6. CASE Crash
  BY <1>6, FailedOrder DEF Crash
<1>7. CASE \/ AcceptApproval \/ RejectApproval \/ RejectChecklist
           \/ AcceptMilestone \/ ViolateOutput \/ AcceptUncontracted
           \/ StartSession \/ Sign
  BY <1>7, ApprovalOrder, RejectOrder, FinalOrder, StartOrder, SignOrder
<1>8. CASE \/ EnterGate \/ LoopBack \/ StayRejected \/ AdvanceMacro
           \/ AcceptDelivered \/ Complete \/ RecordArtifact
  BY <1>8, EnterGateOrder, LoopOrder, StayOrder, MacroOrder, FinalOrder,
     CompleteOrder, ArtifactOrder
<1> QED BY <1>1, <1>2, <1>3, <1>4, <1>5, <1>6, <1>7, <1>8
        DEF Next, Submission, Continuation, Environment

LEMMA OrderInvAlways == Spec => [](TypeInv /\ BoundInv /\ OrderInv)
<1>1. Init => OrderInv
  BY DEF Init, OrderInv
<1> QED BY <1>1, OrderInvNext, BoundInvAlways, PTL DEF Spec

\* Until something fails, a session that stands at a gate between two calls
\* holds a challenge for that gate, whichever route led there.
THEOREM GatesAnswerable == Spec => []GateAnswerable
<1>1. TypeInv /\ OrderInv => GateAnswerable
  <2> SUFFICES ASSUME TypeInv, OrderInv, Failures = 0, Active, AtGate(session)
               PROVE  /\ session.pending_approval # None
                      /\ At(session.pending_approval.macro,
                            session.pending_approval.sub) = session.position
    BY DEF GateAnswerable, GateChallenged
  <2>1. /\ Orderly(session, pc, minted, arrival, signed) /\ pc = "idle"
        /\ session.status = "Active"
    BY EngagedOrder DEF Active
  <2> QED BY <2>1 DEF Orderly
<1> QED BY <1>1, OrderInvAlways, PTL

\* Until something fails, a human's signature over the challenge of the gate
\* the session stands at verifies, whatever was refused since.
THEOREM SignaturesHonoured == Spec => []SignatureHonoured
<1>1. TypeInv /\ OrderInv => SignatureHonoured
  <2> SUFFICES ASSUME TypeInv, OrderInv, Failures = 0, NEW c \in signed, Active,
                      At(c.macro, c.sub) = session.position, c.nonce > arrival
               PROVE  Verifies(c)
    BY DEF SignatureHonoured, SignatureSurvives
  <2>1. session.pending_approval = c
    BY EngagedOrder DEF Orderly
  <2>2. c # None
    BY NoneAssumption DEF TypeInv, WorldInv
  <2> QED BY <2>1, <2>2 DEF Verifies
<1> QED BY <1>1, OrderInvAlways, PTL

\* Until something fails, no client gets an answer from a session whose
\* breaker is due.
THEOREM BreakersTrip == Spec => []BreakersTripped
<1>1. TypeInv /\ BoundInv /\ OrderInv => BreakersTripped
  <2> SUFFICES ASSUME TypeInv, BoundInv, OrderInv, Failures = 0, Active
               PROVE  /\ session.macro_iteration < Limit(session.position.macro)
                      /\ session.identical_rejections < Larger(1, OscillationThreshold)
                      /\ ApprovalCap # 0 => session.approval_rejections < ApprovalCap
    BY DEF BreakersTripped, Limit
  <2>1. /\ pc = "idle" /\ session.status = "Active" /\ Held(session)
        /\ Orderly(session, pc, minted, arrival, signed)
    BY EngagedOrder DEF Active
  <2>2. InBounds(session, "idle", 0) /\ session.position.macro \in Macros
    BY <2>1, EngagedBounds DEF Trusted
  <2>3. /\ Limit(session.position.macro) \in Nat
        /\ Larger(1, ApprovalCap) \in Nat
        /\ session.macro_iteration \in Nat /\ session.approval_rejections \in Nat
        /\ ApprovalCap # 0 => Larger(1, ApprovalCap) = ApprovalCap
    BY <2>1, <2>2, Limits, Used, EngineAssumption DEF Larger
  <2> QED BY <2>1, <2>2, <2>3 DEF InBounds, Below, Orderly
<1> QED BY <1>1, OrderInvAlways, PTL

=============================================================================
