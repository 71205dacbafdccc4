---------------------------- MODULE EngineProofs ----------------------------
(***************************************************************************)
(* What the engine keeps, for every valid pipeline, every setting and      *)
(* every kind of failure: the types of its state; and recovery, what the   *)
(* ledger replays to against the session that is live.                     *)
(***************************************************************************)
EXTENDS Engine, TLAPS, WellFoundedInduction

-----------------------------------------------------------------------------
(* Navigation: what the helpers return, for every valid pipeline.           *)

\* A non-empty set of naturals has a least element.
LEMMA LeastIsLeast ==
    ASSUME NEW S \in SUBSET Nat, S # {}
    PROVE  Least(S) \in S /\ \A j \in S : Least(S) <= j
<1>1. \E x \in S : \A y \in S : ~ (<<y, x>> \in OpToRel(<, Nat))
  BY NatLessThanWellFounded, WFMin
<1>2. PICK x \in S : \A y \in S : ~ (<<y, x>> \in OpToRel(<, Nat))
  BY <1>1
<1>3. \A y \in S : x <= y
  <2>1. SUFFICES ASSUME NEW y \in S, ~ (x <= y) PROVE FALSE
    OBVIOUS
  <2>2. <<y, x>> \in Nat \X Nat /\ <<y, x>>[1] < <<y, x>>[2]
    BY <2>1
  <2>3. <<y, x>> \in OpToRel(<, Nat)
    BY <2>2 DEF OpToRel
  <2> QED
    BY <2>3, <1>2
<1> QED
  BY <1>2, <1>3 DEF Least

LEMMA MacrosTyped ==
    ASSUME NEW m \in Macros
    PROVE  /\ m \in Nat \ {0}
           /\ Pipeline[m] \in Macro
           /\ Pipeline[m].subs \in Seq(SubState)
           /\ Pipeline[m].max_iterations \in Nat
           /\ Trailing(m) \in Nat \ {0}
           /\ Subs(m) = 1..Trailing(m)
           /\ EnabledSubs(m) \subseteq Subs(m)
           /\ Trailing(m) \in EnabledSubs(m)
<1>1. Pipeline \in Seq(Macro) /\ Pipeline[m].subs # <<>> /\ Trailing(m) \in EnabledSubs(m)
  BY ProfileAssumption DEF Runnable, Macros, Trailing, EnabledSubs, Subs
<1>2. m \in Nat \ {0} /\ Pipeline[m] \in Macro
  BY <1>1 DEF Macros
<1>3. Pipeline[m].subs \in Seq(SubState) /\ Pipeline[m].max_iterations \in Nat
  BY <1>2 DEF Macro
<1>4. Trailing(m) \in Nat \ {0} /\ Subs(m) = 1..Trailing(m)
  BY <1>1, <1>3 DEF Trailing, Subs
<1> QED
  BY <1>1, <1>2, <1>3, <1>4 DEF EnabledSubs

\* The pipeline has a first macro, and after a macro that is not the last
\* there is a next one.
LEMMA NextMacro ==
    /\ 1 \in Macros
    /\ \A m \in Macros : ~IsFinal(m) => m + 1 \in Macros
<1>1. Pipeline \in Seq(Macro) /\ Pipeline # <<>>
  BY ProfileAssumption DEF Runnable
<1>2. Macros = 1..Len(Pipeline) /\ Len(Pipeline) \in Nat /\ Len(Pipeline) # 0
  BY <1>1 DEF Macros
<1> QED
  BY <1>2 DEF IsFinal

\* A macro is entered at an enabled sub-state with none enabled before it.
LEMMA FirstEnabledIsFirst ==
    ASSUME NEW m \in Macros
    PROVE  /\ FirstEnabled(m) \in EnabledSubs(m)
           /\ \A j \in EnabledSubs(m) : FirstEnabled(m) <= j
<1>1. EnabledSubs(m) \in SUBSET Nat /\ EnabledSubs(m) # {}
  BY MacrosTyped
<1> QED
  BY <1>1, LeastIsLeast DEF FirstEnabled

\* A looping macro goes back to an enabled execute sub-state.
LEMMA FirstExecuteIsExecute ==
    ASSUME NEW m \in Macros, Pipeline[m].loop
    PROVE  /\ FirstExecute(m) \in EnabledSubs(m)
           /\ Kind(m, FirstExecute(m)) = "execute"
<1>1. ExecuteSubs(m) \in SUBSET Nat
  BY MacrosTyped DEF ExecuteSubs
<1>2. ExecuteSubs(m) # {}
  BY ProfileAssumption DEF Runnable, Macros, ExecuteSubs, EnabledSubs, Subs, Kind
<1>3. FirstExecute(m) \in ExecuteSubs(m)
  BY <1>1, <1>2, LeastIsLeast DEF FirstExecute
<1> QED
  BY <1>3 DEF ExecuteSubs

\* The sub-state a session goes on to is enabled.  From any sub-state before
\* the checklist it is a later one, with no enabled sub-state skipped.
THEOREM NextEnabledIsNext ==
    ASSUME NEW m \in Macros, NEW k \in Nat
    PROVE  /\ NextEnabled(m, k) \in EnabledSubs(m)
           /\ k < Trailing(m) =>
                /\ NextEnabled(m, k) > k
                /\ \A j \in EnabledSubs(m) : j > k => NextEnabled(m, k) <= j
<1> DEFINE later == {j \in EnabledSubs(m) : j > k}
<1>1. later \in SUBSET Nat
  BY MacrosTyped
<1>2. CASE later # {}
  <2>1. NextEnabled(m, k) = Least(later)
    BY <1>2 DEF NextEnabled
  <2>2. Least(later) \in later /\ \A j \in later : Least(later) <= j
    BY <1>1, <1>2, LeastIsLeast
  <2> QED
    BY <2>1, <2>2
<1>3. CASE later = {}
  <2>1. NextEnabled(m, k) = Trailing(m)
    BY <1>3 DEF NextEnabled
  <2>2. Trailing(m) \in EnabledSubs(m) /\ ~ (Trailing(m) > k)
    BY <1>3, MacrosTyped
  <2> QED
    BY <2>1, <2>2, MacrosTyped
<1> QED
  BY <1>2, <1>3

LEMMA NextEnabledTyped ==
    ASSUME NEW m \in Macros, NEW k \in Nat
    PROVE  /\ NextEnabled(m, k) \in Nat
           /\ At(m, NextEnabled(m, k)) \in Positions
           /\ At(m, NextEnabled(m, k)).macro = m
           /\ At(m, NextEnabled(m, k)).sub = NextEnabled(m, k)
<1>1. NextEnabled(m, k) \in EnabledSubs(m)
  BY NextEnabledIsNext
<1>2. Subs(m) \subseteq Nat /\ EnabledSubs(m) \subseteq Subs(m)
  BY MacrosTyped
<1>3. NextEnabled(m, k) \in Nat
  BY <1>1, <1>2
<1> DEFINE j == NextEnabled(m, k)
<1> HIDE DEF j
<1>4. j \in Nat => At(m, j) \in Positions /\ At(m, j).macro = m /\ At(m, j).sub = j
  BY DEF At, Positions
<1> QED BY <1>3, <1>4 DEF j

-----------------------------------------------------------------------------
(* Session states.                                                         *)

\* A state a session can be in, live or replayed: an Active one has a place.
Held(s) == s \in SessionState /\ (s.status = "Active" => s.position # None)

LEMMA FreshHeld == Held(Fresh)
<1>1. At(1, FirstEnabled(1)) \in Positions
  BY NextMacro, FirstEnabledIsFirst, MacrosTyped DEF At, Positions
<1> QED
  BY <1>1, NoneAssumption DEF Held, SessionState, Fresh, Status

LEMMA RepositionedHeld ==
    ASSUME NEW s, Held(s), NEW p \in Positions
    PROVE  /\ Held(Repositioned(s, p))
           /\ Repositioned(s, p).status = s.status
           /\ Repositioned(s, p).position = p
BY NoneAssumption DEF Held, SessionState, Repositioned

LEMMA MacroEnteredHeld ==
    ASSUME NEW s, Held(s), NEW m \in Macros
    PROVE  Held(MacroEntered(s, m))
<1>1. At(m, FirstEnabled(m)) \in Positions
  BY FirstEnabledIsFirst, MacrosTyped DEF At, Positions
<1> QED
  BY <1>1, NoneAssumption DEF Held, SessionState, MacroEntered

LEMMA RejectionReplayedHeld ==
    ASSUME NEW s, Held(s), NEW e, e.keys \subseteq Keys, e.iteration \in Nat
    PROVE  Held(RejectionReplayed(s, e))
<1> DEFINE n == IF s.identical_rejections > 0 /\ e.keys = s.last_keys
                  THEN s.identical_rejections + 1 ELSE 1
<1>1. n \in Nat
  BY DEF Held, SessionState
<1>2. RejectionReplayed(s, e) = [s EXCEPT !.last_keys = e.keys,
                                          !.identical_rejections = n,
                                          !.macro_iteration = e.iteration]
  BY DEF RejectionReplayed, Held, SessionState
<1> HIDE DEF n
<1> QED
  BY <1>1, <1>2 DEF Held, SessionState

\* What the fold needs of an event.
EventOK(e) ==
    /\ e.type \in {"SessionStarted", "MilestoneRejected", "MilestoneAccepted",
                   "SubStateAdvanced", "MacroAdvanced", "MacroLoopedBack",
                   "CircuitBreakerTriggered", "SessionCompleted",
                   "OutputContractViolated", "ArtifactStored",
                   "ApprovalChallengeIssued", "ApprovalAccepted",
                   "ApprovalRejected"}
    /\ e.type = "MilestoneRejected" => e.keys \subseteq Keys /\ e.iteration \in Nat
    /\ e.type \in {"SubStateAdvanced", "MacroLoopedBack"} => e.to \in Nat
    /\ e.type = "MacroAdvanced" => e.to \in Macros
    /\ e.type = "SessionCompleted" => e.output \in Outputs \cup {None}
    /\ e.type = "ApprovalChallengeIssued" => e.challenge \in Challenge
    /\ e.type = "ArtifactStored" => e.artifact \in Artifacts

\* Whatever the ledger holds, it replays to a well-formed session.
LEMMA ReplayHeld ==
    ASSUME NEW s, s = None \/ Held(s), NEW e, EventOK(e)
    PROVE  Apply(s, e) = None \/ Held(Apply(s, e))
<1>1. CASE e.type = "SessionStarted"
  BY <1>1, FreshHeld DEF Apply
<1>2. CASE e.type # "SessionStarted" /\ s = None
  BY <1>2 DEF Apply
<1>3. CASE e.type # "SessionStarted" /\ s # None
  <2>1. Held(s)
    BY <1>3
  <2>2. CASE e.type = "MilestoneRejected"
    BY <1>3, <2>1, <2>2, RejectionReplayedHeld DEF Apply, EventOK
  <2>3. CASE e.type \in {"SubStateAdvanced", "MacroLoopedBack"}
    <3> DEFINE p == IF s.position = None THEN None ELSE At(s.position.macro, e.to)
    <3>1. Apply(s, e) = [s EXCEPT !.position = p, !.pending_approval = None]
      BY <1>3, <2>1, <2>3 DEF Apply, Held, SessionState
    <3>2. s.position # None => At(s.position.macro, e.to) \in Positions
      BY <2>1, <2>3 DEF Held, SessionState, EventOK, At, Positions
    <3>3. p \in Positions \cup {None} /\ (s.position # None => p # None)
      BY <3>2, NoneAssumption
    <3> HIDE DEF p
    <3> QED
      BY <2>1, <3>1, <3>3 DEF Held, SessionState
  <2>4. CASE e.type = "MacroAdvanced"
    BY <1>3, <2>1, <2>4, MacroEnteredHeld DEF Apply, EventOK
  <2>5. CASE e.type = "CircuitBreakerTriggered"
    <3>1. Apply(s, e) = [s EXCEPT !.status = "Failed"]
      BY <1>3, <2>5 DEF Apply
    <3> QED
      BY <2>1, <3>1 DEF Held, SessionState, Status
  <2>6. CASE e.type = "SessionCompleted"
    <3>1. Apply(s, e) = [s EXCEPT !.status = "Completed", !.position = None]
      BY <1>3, <2>6 DEF Apply
    <3> QED
      BY <2>1, <3>1 DEF Held, SessionState, Status
  <2>7. CASE e.type = "ApprovalChallengeIssued"
    <3>1. Apply(s, e) = [s EXCEPT !.pending_approval = e.challenge, !.approval_rejections = 0]
      BY <1>3, <2>7 DEF Apply
    <3>2. e.challenge \in Challenge
      BY <2>7 DEF EventOK
    <3> DEFINE c == e.challenge
    <3> HIDE DEF c
    <3>3. c \in Challenge /\ Apply(s, e) = [s EXCEPT !.pending_approval = c, !.approval_rejections = 0]
      BY <3>1, <3>2 DEF c
    <3>4. c \in Challenge \cup {None} /\ 0 \in Nat
      BY <3>3
    <3>5. Apply(s, e) \in SessionState
      BY <2>1, <3>3, <3>4 DEF Held, SessionState
    <3>6. Apply(s, e).status = s.status /\ Apply(s, e).position = s.position
      BY <2>1, <3>3 DEF Held, SessionState
    <3> QED
      BY <2>1, <3>5, <3>6 DEF Held
  <2>8. CASE e.type = "ApprovalAccepted"
    <3>1. Apply(s, e) = [s EXCEPT !.pending_approval = None]
      BY <1>3, <2>8 DEF Apply
    <3> QED
      BY <2>1, <3>1 DEF Held, SessionState
  <2>9. CASE e.type = "ApprovalRejected"
    <3>1. Apply(s, e) = [s EXCEPT !.approval_rejections = @ + 1]
      BY <1>3, <2>9 DEF Apply
    <3> QED
      BY <2>1, <3>1 DEF Held, SessionState
  <2>10. CASE e.type = "ArtifactStored"
    <3>1. Apply(s, e) = [s EXCEPT !.artifacts = @ \cup {e.artifact}]
      BY <1>3, <2>10 DEF Apply, ArtifactReplayed
    <3> QED
      BY <2>1, <2>10, <3>1 DEF Held, SessionState, EventOK
  <2>11. CASE e.type \in {"MilestoneAccepted", "OutputContractViolated"}
    <3>1. Apply(s, e) = s
      BY <1>3, <2>11 DEF Apply
    <3> QED
      BY <2>1, <3>1
  <2> QED
    BY <1>3, <2>2, <2>3, <2>4, <2>5, <2>6, <2>7, <2>8, <2>9, <2>10, <2>11 DEF EventOK
<1> QED
  BY <1>1, <1>2, <1>3

-----------------------------------------------------------------------------
(* The inductive invariant behind TypeOK: where a handler stands, it has   *)
(* the session, the place and the data it goes on with.                    *)

SessionInv ==
    /\ session = None \/ Held(session)
    /\ durable = None \/ Held(durable)
    /\ pc \in Locations
    /\ pc # "idle" => session # None /\ session.status = "Active"
    /\ pc = "advancing" => ~IsFinal(session.position.macro)
    /\ committed \in Outputs \cup {None}
    /\ arrival \in Nat
    /\ faults \in [AllFaults -> Nat]

HandlerInv ==
    /\ pc = "storing" => inflight \in Artifacts
    /\ pc \in {"accepting", "completing"} => inflight \in Outputs \cup {None}
    /\ pc \notin {"storing", "accepting", "completing"} => inflight = None

WorldInv ==
    /\ published \in BOOLEAN
    /\ minted \in Nat
    /\ signed \subseteq Challenge
    /\ expired \in BOOLEAN
    /\ blobs \subseteq Artifacts
    /\ tampered \subseteq Artifacts
    /\ deliverable \in Outputs \cup {None}

TypeInv == SessionInv /\ HandlerInv /\ WorldInv

LEMMA TypeInvTypes == TypeInv => TypeOK
BY DEF TypeInv, SessionInv, HandlerInv, WorldInv, TypeOK, Held, Locations

\* The session of a handler in progress, or of a client's call.
LEMMA Engaged ==
    ASSUME TypeInv, pc # "idle" \/ Active
    PROVE  /\ Held(session)
           /\ session # None
           /\ session.status = "Active"
           /\ session.position \in Positions
           /\ session.position # None
           /\ session.position.macro \in Macros
           /\ session.position.sub \in Nat
BY DEF TypeInv, SessionInv, Active, Held, SessionState, Positions

LEMMA FaultCounted ==
    ASSUME faults \in [AllFaults -> Nat], NEW kind, Fault(kind)
    PROVE  faults' \in [AllFaults -> Nat]
<1>1. kind \in AllFaults
  BY EngineAssumption DEF Fault
<1>2. faults' = [faults EXCEPT ![kind] = faults[kind] + 1]
  BY DEF Fault
<1>3. faults[kind] + 1 \in Nat
  BY <1>1
<1> QED
  BY <1>1, <1>2, <1>3

\* An append keeps the session part of the invariant, whether it succeeds or
\* fails, and leaves the handler where it goes on or nowhere.
LEMMA AttemptKeeps ==
    ASSUME TypeInv,
           NEW e, EventOK(e),
           NEW before, Held(before),
           NEW after, Held(after),
           NEW next \in Locations,
           next # "idle" => after.status = "Active",
           next = "advancing" => ~IsFinal(after.position.macro),
           Attempt(e, before, after, next)
    PROVE  SessionInv' /\ pc' \in {next, "idle"}
<1>1. None \notin SessionState
  BY NoneAssumption
<1>2. /\ durable' = durable \/ durable' = Apply(durable, e)
      /\ committed' = committed \/ (e.type = "SessionCompleted" /\ committed' = e.output)
  BY DEF Attempt, Log, AppendFails
<1>3. durable' = None \/ Held(durable')
  BY <1>2, ReplayHeld DEF TypeInv, SessionInv
<1>4. committed' \in Outputs \cup {None}
  BY <1>2 DEF TypeInv, SessionInv, EventOK
<1>5. arrival' \in Nat /\ faults' \in [AllFaults -> Nat]
  BY FaultCounted DEF TypeInv, SessionInv, WorldInv, Attempt, AppendFails
<1>6. \/ session' = after /\ pc' = next
      \/ session' = before /\ pc' = "idle"
  BY DEF Attempt
<1>7. session' # None /\ Held(session')
  BY <1>1, <1>6 DEF Held
<1>8. pc' \in Locations
  BY <1>6 DEF Locations
<1> QED
  BY <1>3, <1>4, <1>5, <1>6, <1>7, <1>8 DEF SessionInv

LEMMA TypeInvInit == Init => TypeInv
<1> SUFFICES ASSUME Init PROVE TypeInv
  OBVIOUS
<1>1. SessionInv
  BY DEF Init, SessionInv, Locations
<1>2. HandlerInv
  BY DEF Init, HandlerInv
<1>3. published \in BOOLEAN /\ expired \in BOOLEAN
  BY Zenon DEF Init
<1>4. WorldInv
  BY <1>3 DEF Init, WorldInv
<1> QED
  BY <1>1, <1>2, <1>4 DEF TypeInv

\* A call or a handler that appends one event, changes no more than memory,
\* and goes on with nothing in flight.
LEMMA PlainAttemptKeeps ==
    ASSUME TypeInv, pc # "idle" \/ Active,
           pc \notin {"storing", "accepting", "completing"},
           NEW e, EventOK(e),
           NEW before, Held(before),
           NEW after, Held(after),
           NEW next \in Locations \ {"storing", "accepting", "completing"},
           next # "idle" => after.status = "Active",
           next = "advancing" => ~IsFinal(after.position.macro),
           Attempt(e, before, after, next),
           UNCHANGED <<world, inflight, minted, deliverable>>
    PROVE  TypeInv'
<1>1. SessionInv' /\ pc' \in {next, "idle"}
  BY AttemptKeeps
<1>2. HandlerInv'
  BY <1>1 DEF TypeInv, HandlerInv
<1> QED
  BY <1>1, <1>2 DEF TypeInv, WorldInv, world

LEMMA ArrivedLocation ==
    ASSUME NEW p
    PROVE  /\ Arrived(p) \in Locations \ {"storing", "accepting", "completing"}
           /\ Arrived(p) # "advancing"
BY DEF Arrived, Settled, Locations

\* The sub-state a plain step goes on to.
LEMMA AdvancePlainKeeps ==
    ASSUME TypeInv, pc # "idle" \/ Active,
           pc \notin {"storing", "accepting", "completing"}, AdvancePlain
    PROVE  TypeInv'
<1> DEFINE p == session.position
           next == At(p.macro, NextEnabled(p.macro, p.sub))
           e == SubStateAdvanced(p.sub, next.sub)
<1>1. /\ Held(session) /\ session.status = "Active"
      /\ p.macro \in Macros /\ p.sub \in Nat
  BY Engaged
<1>2. next \in Positions /\ next.sub \in Nat
  BY <1>1, NextEnabledTyped
<1>3. EventOK(e)
  BY <1>2 DEF EventOK, SubStateAdvanced
<1>4. /\ Held(Repositioned(session, next))
      /\ Repositioned(session, next).status = "Active"
  BY <1>1, <1>2, RepositionedHeld
<1>5. Attempt(e, session, Repositioned(session, next), Arrived(next))
      /\ UNCHANGED <<world, inflight, minted, deliverable>>
  BY DEF AdvancePlain
<1> HIDE DEF next, e
<1> QED
  BY <1>1, <1>3, <1>4, <1>5, ArrivedLocation, PlainAttemptKeeps

LEMMA TripKeeps ==
    ASSUME TypeInv, pc # "idle" \/ Active,
           pc \notin {"storing", "accepting", "completing"},
           NEW breaker, Trip(breaker),
           UNCHANGED <<world, inflight, minted, deliverable>>
    PROVE  TypeInv'
<1>1. Held(session)
  BY Engaged
<1>2. Held(Failed(session))
  BY <1>1 DEF Held, Failed, SessionState, Status
<1>3. EventOK(CircuitBreakerTriggered(breaker))
  BY DEF EventOK, CircuitBreakerTriggered
<1>4. Attempt(CircuitBreakerTriggered(breaker), session, Failed(session), "idle")
  BY DEF Trip
<1>5. "idle" \in Locations \ {"storing", "accepting", "completing"}
  BY DEF Locations
<1> QED
  BY <1>1, <1>2, <1>3, <1>4, <1>5, PlainAttemptKeeps

LEMMA RejectionCountedHeld ==
    ASSUME NEW s, Held(s), NEW keys \in SUBSET Keys
    PROVE  /\ Held(RejectionCounted(s, keys))
           /\ RejectionCounted(s, keys).status = s.status
           /\ RejectionCounted(s, keys).macro_iteration \in Nat
<1> DEFINE n == IF s.identical_rejections > 0 /\ keys = s.last_keys
                  THEN s.identical_rejections + 1 ELSE 1
<1>1. n \in Nat
  BY DEF Held, SessionState
<1>2. RejectionCounted(s, keys) = [s EXCEPT !.macro_iteration = @ + 1,
                                            !.last_keys = keys,
                                            !.identical_rejections = n]
  BY DEF RejectionCounted, Held, SessionState
<1> DEFINE m == s.macro_iteration + 1
<1>3. m \in Nat
  BY DEF Held, SessionState
<1> DEFINE counted == [s EXCEPT !.macro_iteration = m]
           keyed == [counted EXCEPT !.last_keys = keys]
<1>4. RejectionCounted(s, keys) = [keyed EXCEPT !.identical_rejections = n]
  BY <1>2 DEF Held, SessionState
<1> HIDE DEF n, m
<1>5. counted \in SessionState /\ counted.status = s.status
                              /\ counted.position = s.position
  BY <1>3 DEF Held, SessionState
<1> HIDE DEF counted
<1>6. keyed \in SessionState /\ keyed.status = s.status
                            /\ keyed.position = s.position
  BY <1>5 DEF SessionState
<1> HIDE DEF keyed
<1>7. /\ RejectionCounted(s, keys) \in SessionState
      /\ RejectionCounted(s, keys).status = s.status
      /\ RejectionCounted(s, keys).position = s.position
      /\ RejectionCounted(s, keys).macro_iteration \in Nat
  BY <1>1, <1>4, <1>6 DEF SessionState
<1> QED
  BY <1>7 DEF Held

\* Every action that is not a plain append.
LEMMA EnterGateKeeps == TypeInv /\ EnterGate => TypeInv'
<1> SUFFICES ASSUME TypeInv, EnterGate PROVE TypeInv'
  OBVIOUS
<1> DEFINE c == IssuedFor(session.position)
           e == ApprovalChallengeIssued(c)
           parked == [session EXCEPT !.pending_approval = c,
                                     !.approval_rejections = 0]
<1>1. /\ pc = "entering" /\ Held(session) /\ session.status = "Active"
      /\ session.position.macro \in Macros /\ session.position.sub \in Nat
  BY Engaged DEF EnterGate
<1>2. minted' = minted + 1 /\ minted' \in Nat
  BY DEF EnterGate, TypeInv, WorldInv
<1>3. c \in Challenge
  BY <1>1, <1>2 DEF IssuedFor, Challenge, EnterGate
<1>4. EventOK(e) /\ e.type = "ApprovalChallengeIssued"
  BY <1>3 DEF EventOK, ApprovalChallengeIssued
<1>5. Held(parked) /\ parked.status = "Active"
  <2> HIDE DEF c
  <2>1. c \in Challenge \cup {None} /\ 0 \in Nat
    BY <1>3
  <2>2. parked \in SessionState
    BY <1>1, <2>1 DEF Held, SessionState
  <2>3. parked.status = session.status /\ parked.position = session.position
    BY <1>1 DEF Held, SessionState
  <2> QED
    BY <1>1, <2>2, <2>3 DEF Held
<1>6. \/ /\ published
         /\ Attempt(e, session, parked, Settled)
      \/ /\ ~published
         /\ Log(e) /\ session' = parked /\ pc' = Settled
         /\ UNCHANGED <<faults, arrival>>
      \/ StartAborted
  BY DEF EnterGate
<1>7. UNCHANGED <<world, inflight, deliverable>>
  BY DEF EnterGate
<1>8. Settled \in {"idle", "publishing"} /\ {"idle", "publishing"} \subseteq Locations
  BY DEF Settled, Locations
<1>9. SessionInv' /\ pc' \in {"idle", "publishing"}
  <2> HIDE DEF e, parked
  <2>1. CASE Attempt(e, session, parked, Settled)
    <3>1. SessionInv' /\ pc' \in {Settled, "idle"}
      BY <1>1, <1>4, <1>5, <1>8, <2>1, AttemptKeeps
    <3> QED
      BY <1>8, <3>1
  <2>2. CASE /\ Log(e) /\ session' = parked /\ pc' = Settled
             /\ UNCHANGED <<faults, arrival>>
    <3>1. durable' = None \/ Held(durable')
      BY <2>2, <1>4, ReplayHeld DEF TypeInv, SessionInv, Log
    <3>2. committed' = committed
      BY <2>2, <1>4 DEF Log
    <3>3. session' # None
      BY <2>2, <1>5, NoneAssumption DEF Held
    <3> QED
      BY <1>5, <1>8, <2>2, <3>1, <3>2, <3>3 DEF TypeInv, SessionInv
  <2>3. CASE StartAborted
    BY <2>3, <1>8, FaultCounted DEF StartAborted, TypeInv, SessionInv
  <2> QED
    BY <1>6, <2>1, <2>2, <2>3
<1>10. HandlerInv'
  BY <1>1, <1>7, <1>9 DEF TypeInv, HandlerInv
<1> QED
  BY <1>2, <1>7, <1>9, <1>10 DEF TypeInv, WorldInv, world

LEMMA StartSessionKeeps == TypeInv /\ StartSession => TypeInv'
<1> SUFFICES ASSUME TypeInv, StartSession PROVE TypeInv'
  OBVIOUS
<1>1. SessionInv' /\ pc' \notin {"storing", "accepting", "completing"}
  <2>1. CASE /\ Log(SessionStarted) /\ session' = Fresh
             /\ pc' = Arrived(Fresh.position) /\ UNCHANGED <<faults, arrival>>
    <3>1. EventOK(SessionStarted) /\ SessionStarted.type # "SessionCompleted"
      BY DEF EventOK, SessionStarted
    <3>2. durable' = None \/ Held(durable')
      BY <2>1, <3>1, ReplayHeld DEF TypeInv, SessionInv, Log
    <3>3. committed' = committed
      BY <2>1, <3>1 DEF Log
    <3>4. session' # None /\ session'.status = "Active" /\ Held(session')
      BY <2>1, FreshHeld, NoneAssumption DEF Held, Fresh
    <3>5. pc' \in Locations \ {"storing", "accepting", "completing", "advancing"}
      BY <2>1, ArrivedLocation
    <3> QED
      BY <2>1, <3>2, <3>3, <3>4, <3>5 DEF TypeInv, SessionInv
  <2>2. CASE StartAborted
    BY <2>2, FaultCounted DEF StartAborted, TypeInv, SessionInv, Locations
  <2> QED
    BY <2>1, <2>2 DEF StartSession
<1>2. HandlerInv'
  BY <1>1 DEF StartSession, TypeInv, HandlerInv
<1>3. expired' \in BOOLEAN
  BY Zenon DEF StartSession
<1> QED
  BY <1>1, <1>2, <1>3 DEF StartSession, TypeInv, WorldInv

LEMMA PublishKeeps == TypeInv /\ Publish => TypeInv'
<1> SUFFICES ASSUME TypeInv, Publish PROVE TypeInv'
  OBVIOUS
<1>1. SessionInv' /\ HandlerInv'
  BY DEF Publish, TypeInv, SessionInv, HandlerInv, Locations
<1>2. published' \in BOOLEAN
  BY Zenon DEF Publish
<1> QED
  BY <1>1, <1>2 DEF Publish, TypeInv, WorldInv

LEMMA FinalKeeps ==
    TypeInv /\ (WriteOutput \/ AcceptDelivered \/ AcceptUncontracted \/ Complete)
        => TypeInv'
<1> SUFFICES ASSUME TypeInv,
                    WriteOutput \/ AcceptDelivered \/ AcceptUncontracted \/ Complete
             PROVE  TypeInv'
  OBVIOUS
<1>1. CASE WriteOutput
  <2>1. PICK o \in Outputs : deliverable' = o /\ inflight' = o
    BY <1>1 DEF WriteOutput, Written
  <2>2. session # None /\ session.status = "Active"
    BY <1>1 DEF WriteOutput, Completed, Submitted, Active
  <2>3. SessionInv'
    BY <1>1, <2>2 DEF WriteOutput, TypeInv, SessionInv, Locations
  <2> QED
    BY <1>1, <2>1, <2>3 DEF WriteOutput, TypeInv, HandlerInv, WorldInv, world
<1>2. CASE AcceptDelivered \/ AcceptUncontracted
  <2>1. pc # "idle" \/ Active
    BY <1>2 DEF AcceptDelivered, AcceptUncontracted, Completed, Submitted
  <2>2. Held(session) /\ session.status = "Active"
    BY <2>1, Engaged
  <2>3. inflight \in Outputs \cup {None}
    BY <1>2 DEF AcceptDelivered, AcceptUncontracted, Completed, Submitted, Active, TypeInv, HandlerInv
  <2>4. AcceptFinal
    BY <1>2 DEF AcceptDelivered, AcceptUncontracted
  <2>5. EventOK(MilestoneAccepted) /\ "completing" \in Locations
    BY DEF EventOK, MilestoneAccepted, Locations
  <2>6. Attempt(MilestoneAccepted, session, session, "completing")
    BY <2>4 DEF AcceptFinal
  <2>7. SessionInv' /\ pc' \in {"completing", "idle"}
    BY <2>2, <2>5, <2>6, AttemptKeeps
  <2>8. HandlerInv'
    BY <2>3, <2>4, <2>7 DEF AcceptFinal, HandlerInv
  <2> QED
    BY <2>4, <2>7, <2>8 DEF AcceptFinal, TypeInv, WorldInv, world
<1>3. CASE Complete
  <2> DEFINE e == SessionCompleted(inflight)
             done == [session EXCEPT !.status = "Completed", !.position = None]
  <2>1. /\ Held(session) /\ session.status = "Active"
        /\ inflight \in Outputs \cup {None}
    BY <1>3, Engaged DEF Complete, TypeInv, HandlerInv
  <2>2. EventOK(e) /\ "idle" \in Locations
    BY <2>1 DEF EventOK, SessionCompleted, Locations
  <2>3. Held(done)
    BY <2>1 DEF Held, SessionState, Status
  <2>4. Attempt(e, session, done, "idle")
    BY <1>3 DEF Complete
  <2> HIDE DEF e, done
  <2>5. SessionInv' /\ pc' = "idle"
    BY <2>1, <2>2, <2>3, <2>4, AttemptKeeps
  <2> QED
    BY <1>3, <2>5 DEF Complete, TypeInv, HandlerInv, WorldInv, world
<1> QED
  BY <1>1, <1>2, <1>3

LEMMA ArtifactKeeps == TypeInv /\ (StoreBlob \/ RecordArtifact) => TypeInv'
<1> SUFFICES ASSUME TypeInv, StoreBlob \/ RecordArtifact PROVE TypeInv'
  OBVIOUS
<1>1. CASE StoreBlob
  <2>1. PICK a \in Artifacts : blobs' = blobs \cup {a} /\ inflight' = a
    BY <1>1 DEF StoreBlob
  <2>2. session # None /\ session.status = "Active"
    BY <1>1 DEF StoreBlob, Active
  <2>3. SessionInv'
    BY <1>1, <2>2 DEF StoreBlob, TypeInv, SessionInv, Locations
  <2> QED
    BY <1>1, <2>1, <2>3 DEF StoreBlob, TypeInv, HandlerInv, WorldInv
<1>2. CASE RecordArtifact
  <2> DEFINE e == ArtifactStored(inflight)
             tracked == [session EXCEPT !.artifacts = @ \cup {inflight}]
  <2>1. /\ Held(session) /\ session.status = "Active"
        /\ inflight \in Artifacts
    BY <1>2, Engaged DEF RecordArtifact, TypeInv, HandlerInv
  <2>2. EventOK(e) /\ "idle" \in Locations
    BY <2>1 DEF EventOK, ArtifactStored, Locations
  <2>3. Held(tracked)
    BY <2>1 DEF Held, SessionState
  <2>4. Attempt(e, session, tracked, "idle")
    BY <1>2 DEF RecordArtifact
  <2> HIDE DEF e, tracked
  <2>5. SessionInv' /\ pc' = "idle"
    BY <2>1, <2>2, <2>3, <2>4, AttemptKeeps
  <2> QED
    BY <1>2, <2>5 DEF RecordArtifact, TypeInv, HandlerInv, WorldInv, world
<1> QED
  BY <1>1, <1>2

\* Crashes, recoveries and the world outside.
LEMMA SurroundingsKeep ==
    TypeInv /\ (Crash \/ Recover \/ Sign \/ Expire \/ Tamper) => TypeInv'
<1> SUFFICES ASSUME TypeInv, Crash \/ Recover \/ Sign \/ Expire \/ Tamper
             PROVE  TypeInv'
  OBVIOUS
<1>1. CASE Crash
  <2>1. faults' \in [AllFaults -> Nat]
    BY <1>1, FaultCounted DEF Crash, TypeInv, SessionInv
  <2>2. /\ session' = None /\ pc' = "idle" /\ inflight' = None
        /\ UNCHANGED <<published, signed, expired, blobs, tampered, durable,
                       ledger, minted, arrival, deliverable, committed>>
    BY <1>1 DEF Crash, world
  <2> QED
    BY <2>1, <2>2 DEF TypeInv, SessionInv, HandlerInv, WorldInv, Locations
<1>2. CASE Recover
  BY <1>2 DEF Recover, TypeInv, SessionInv, HandlerInv, WorldInv, world
<1>3. CASE Sign
  <2>1. signed' \subseteq Challenge
    BY <1>3 DEF Sign, TypeInv, SessionInv, WorldInv, Held, SessionState
  <2> QED
    BY <1>3, <2>1 DEF Sign, TypeInv, SessionInv, HandlerInv, WorldInv
<1>4. CASE Expire
  <2>1. expired' \in BOOLEAN
    BY <1>4, Zenon DEF Expire
  <2> QED
    BY <1>4, <2>1 DEF Expire, TypeInv, SessionInv, HandlerInv, WorldInv
<1>5. CASE Tamper
  BY <1>5 DEF Tamper, TypeInv, SessionInv, HandlerInv, WorldInv
<1> QED
  BY <1>1, <1>2, <1>3, <1>4, <1>5

LEMMA SubmissionKeeps ==
    TypeInv /\ (GlobalTimeout \/ AdvanceUngated \/ AcceptApproval
                  \/ RejectApproval \/ RejectChecklist \/ AcceptMilestone
                  \/ ViolateOutput)
        => TypeInv'
<1> SUFFICES ASSUME TypeInv,
                    GlobalTimeout \/ AdvanceUngated \/ AcceptApproval
                      \/ RejectApproval \/ RejectChecklist \/ AcceptMilestone
                      \/ ViolateOutput
             PROVE  TypeInv'
  OBVIOUS
<1>1. Active /\ pc = "idle"
  BY DEF GlobalTimeout, AdvanceUngated, AcceptApproval, RejectApproval,
         RejectChecklist, AcceptMilestone, ViolateOutput, Completed,
         Submitted, Active
<1>2. /\ Held(session) /\ session.status = "Active"
      /\ session.position \in Positions /\ session.position.macro \in Macros
  BY <1>1, Engaged
<1>3. \A l \in {"idle", "approved", "tripping", "rejected", "advancing"} :
        l \in Locations \ {"storing", "accepting", "completing"}
  BY DEF Locations
<1>4. CASE GlobalTimeout
  BY <1>1, <1>4, TripKeeps DEF GlobalTimeout
<1>5. CASE AdvanceUngated
  BY <1>1, <1>5, AdvancePlainKeeps DEF AdvanceUngated
<1>6. CASE AcceptApproval
  <2>1. PICK sig \in signed :
          Attempt(ApprovalAccepted(sig), session, session, "approved")
    BY <1>6 DEF AcceptApproval
  <2>2. EventOK(ApprovalAccepted(sig))
    BY DEF EventOK, ApprovalAccepted
  <2> QED
    BY <1>1, <1>2, <1>3, <1>6, <2>1, <2>2, PlainAttemptKeeps DEF AcceptApproval
<1>7. CASE RejectApproval
  <2>1. Held(Refused(session)) /\ Refused(session).status = "Active"
    BY <1>2 DEF Refused, Held, SessionState
  <2>2. EventOK(ApprovalRejected)
    BY DEF EventOK, ApprovalRejected
  <2>3. \/ Attempt(ApprovalRejected, session, Refused(session), "tripping")
        \/ Attempt(ApprovalRejected, session, Refused(session), "idle")
    BY <1>7, Zenon DEF RejectApproval
  <2>4. UNCHANGED <<world, inflight, minted, deliverable>>
    BY <1>7 DEF RejectApproval
  <2> QED
    BY <1>1, <1>2, <1>3, <2>1, <2>2, <2>3, <2>4, PlainAttemptKeeps
<1>8. CASE RejectChecklist
  <2>1. PICK evidence \in Evidence :
          LET counted == RejectionCounted(session, CarriedKeys(evidence))
          IN  Attempt(MilestoneRejected(CarriedKeys(evidence), counted.macro_iteration),
                      counted, counted, "rejected")
    BY <1>8 DEF RejectChecklist
  <2> DEFINE keys == CarriedKeys(evidence)
             counted == RejectionCounted(session, keys)
             e == MilestoneRejected(keys, counted.macro_iteration)
  <2>2. keys \in SUBSET Keys
    BY DEF CarriedKeys
  <2>3. /\ Held(counted) /\ counted.status = "Active"
        /\ counted.macro_iteration \in Nat
    BY <1>2, <2>2, RejectionCountedHeld
  <2>4. EventOK(e)
    BY <2>2, <2>3 DEF EventOK, MilestoneRejected
  <2>5. Attempt(e, counted, counted, "rejected")
    BY <2>1
  <2>6. UNCHANGED <<world, inflight, minted, deliverable>>
    BY <1>8 DEF RejectChecklist
  <2> HIDE DEF e, counted
  <2> QED
    BY <1>1, <1>3, <2>3, <2>4, <2>5, <2>6, PlainAttemptKeeps
<1>9. CASE AcceptMilestone
  <2>1. ~IsFinal(session.position.macro)
    BY <1>9 DEF AcceptMilestone, Completed
  <2>2. EventOK(MilestoneAccepted)
    BY DEF EventOK, MilestoneAccepted
  <2> QED
    BY <1>1, <1>2, <1>3, <1>9, <2>1, <2>2, PlainAttemptKeeps DEF AcceptMilestone
<1>10. CASE ViolateOutput
  <2>1. EventOK(OutputContractViolated)
    BY DEF EventOK, OutputContractViolated
  <2> QED
    BY <1>1, <1>2, <1>3, <1>10, <2>1, PlainAttemptKeeps DEF ViolateOutput
<1> QED
  BY <1>4, <1>5, <1>6, <1>7, <1>8, <1>9, <1>10

LEMMA ContinuationKeeps ==
    TypeInv /\ (AdvanceApproved \/ TripApprovalLimit \/ TripMaxIterations
                  \/ TripRepetitiveLoop \/ LoopBack \/ StayRejected
                  \/ AdvanceMacro)
        => TypeInv'
<1> SUFFICES ASSUME TypeInv,
                    AdvanceApproved \/ TripApprovalLimit \/ TripMaxIterations
                      \/ TripRepetitiveLoop \/ LoopBack \/ StayRejected
                      \/ AdvanceMacro
             PROVE  TypeInv'
  OBVIOUS
<1>1. pc \in {"approved", "tripping", "rejected", "advancing"}
  BY DEF AdvanceApproved, TripApprovalLimit, TripMaxIterations,
         TripRepetitiveLoop, LoopBack, StayRejected, AdvanceMacro
<1>2. /\ Held(session) /\ session.status = "Active"
      /\ session.position \in Positions /\ session.position.macro \in Macros
      /\ session.position.sub \in Nat
  BY <1>1, Engaged
<1>3. CASE AdvanceApproved
  BY <1>1, <1>3, AdvancePlainKeeps DEF AdvanceApproved
<1>4. CASE TripApprovalLimit \/ TripMaxIterations \/ TripRepetitiveLoop
  BY <1>1, <1>4, TripKeeps DEF TripApprovalLimit, TripMaxIterations, TripRepetitiveLoop
<1>5. CASE LoopBack
  <2> DEFINE m == session.position.macro
             target == At(m, FirstExecute(m))
             e == MacroLoopedBack(session.position.sub, target.sub)
  <2>1. FirstExecute(m) \in Nat
    BY <1>2, <1>5, FirstExecuteIsExecute, MacrosTyped DEF LoopBack, LoopEnabled
  <2>2. target \in Positions /\ target.sub \in Nat
    BY <1>2, <2>1 DEF At, Positions
  <2>3. EventOK(e)
    BY <2>2 DEF EventOK, MacroLoopedBack
  <2>4. Held(Looped(session, target))
    BY <1>2, <2>2, NoneAssumption DEF Looped, Held, SessionState
  <2>5. Attempt(e, session, Looped(session, target), "idle")
        /\ UNCHANGED <<world, inflight, minted, deliverable>>
    BY <1>5 DEF LoopBack
  <2>6. "idle" \in Locations \ {"storing", "accepting", "completing"}
    BY DEF Locations
  <2> HIDE DEF target, e
  <2> QED
    BY <1>1, <1>2, <2>3, <2>4, <2>5, <2>6, PlainAttemptKeeps
<1>6. CASE StayRejected
  BY <1>6 DEF StayRejected, TypeInv, SessionInv, HandlerInv, WorldInv, world, Locations
<1>7. CASE AdvanceMacro
  <2> DEFINE m == session.position.macro
             next == At(m + 1, FirstEnabled(m + 1))
             e == MacroAdvanced(m, m + 1)
             moved == MacroReset(Repositioned(session, next))
  <2>1. m + 1 \in Macros
    BY <1>2, <1>7, NextMacro DEF AdvanceMacro, TypeInv, SessionInv
  <2>2. next \in Positions
    BY <2>1, FirstEnabledIsFirst, MacrosTyped DEF At, Positions
  <2>3. EventOK(e)
    BY <2>1 DEF EventOK, MacroAdvanced
  <2>4. Held(Repositioned(session, next))
        /\ Repositioned(session, next).status = "Active"
    BY <1>2, <2>2, RepositionedHeld
  <2>5. Held(moved) /\ moved.status = "Active"
    <3> DEFINE r == Repositioned(session, next)
    <3>1. Held(r) /\ r.status = "Active"
      BY <2>4
    <3> HIDE DEF r
    <3>2. Held(MacroReset(r)) /\ MacroReset(r).status = "Active"
      BY <3>1 DEF Held, SessionState, MacroReset
    <3> QED
      BY <3>2 DEF r
  <2>6. Attempt(e, session, moved, Arrived(next))
        /\ UNCHANGED <<world, inflight, minted, deliverable>>
    BY <1>7 DEF AdvanceMacro
  <2> HIDE DEF next, e, moved
  <2> QED
    BY <1>1, <1>2, <2>3, <2>5, <2>6, ArrivedLocation, PlainAttemptKeeps
<1> QED
  BY <1>3, <1>4, <1>5, <1>6, <1>7

LEMMA TypeInvNext == TypeInv /\ [Next]_vars => TypeInv'
<1>1. TypeInv /\ Next => TypeInv'
  BY EnterGateKeeps, StartSessionKeeps, PublishKeeps, FinalKeeps,
     ArtifactKeeps, SurroundingsKeep, SubmissionKeeps, ContinuationKeeps
     DEF Next, Submission, Continuation, Environment
<1>2. TypeInv /\ UNCHANGED vars => TypeInv'
  BY DEF vars, TypeInv, SessionInv, HandlerInv, WorldInv
<1> QED
  BY <1>1, <1>2

\* Every variable keeps its type, whatever fails.
THEOREM TypeCorrect == Spec => []TypeOK
<1>1. Spec => []TypeInv
  BY TypeInvInit, TypeInvNext, PTL DEF Spec
<1> QED
  BY <1>1, TypeInvTypes, PTL

(***************************************************************************)
(*                               Recovery.                                 *)
(***************************************************************************)

-----------------------------------------------------------------------------
(* The inductive invariant.                                                *)

\* The live state s against the state d the ledger replays to: whatever append
\* was lost, only these differ, and only one way.
Stands(s, d) ==
    /\ d # None
    /\ s.position = d.position
    /\ s.status = d.status
    /\ s.approval_rejections = d.approval_rejections
    /\ s.artifacts = d.artifacts
    /\ s.macro_iteration >= d.macro_iteration
    /\ d.pending_approval \in {s.pending_approval, None}

\* A session holds a challenge only at a gate.
Parked(s) ==
    s.pending_approval # None /\ s.position # None =>
        Kind(s.position.macro, s.position.sub) = "human_approval"

\* What the ledger holds of s once the challenge of s has been answered.
Answered(s) == [s EXCEPT !.pending_approval = None]

\* What the ledger replays to while the handler stands at `location' with s.
InLedger(s, location) == IF location = "approved" THEN Answered(s) ELSE s

\* Where a handler stands tells what its session stands at.
PlaceInv ==
    /\ pc = "entering" =>
         Kind(session.position.macro, session.position.sub) = "human_approval"
    /\ pc = "rejected" =>
         Kind(session.position.macro, session.position.sub) = "checklist"

StandsInv ==
    "unsynced" \notin Faults /\ session # None => Stands(session, durable)

MatchInv ==
    Lossless =>
        /\ session # None => durable = InLedger(session, pc)
        /\ durable # None => Parked(durable)

ReplayInv == PlaceInv /\ StandsInv /\ MatchInv

LEMMA HeldThere == ASSUME NEW s, Held(s) PROVE s # None
BY NoneAssumption DEF Held

-----------------------------------------------------------------------------
(* Each event, folded into the replayed session d, does to it what the     *)
(* handler does to the live session s.                                     *)

LEMMA RejectionMatches ==
    ASSUME NEW s, Held(s), NEW d, Held(d), NEW keys \in SUBSET Keys
    PROVE  LET counted == RejectionCounted(s, keys)
               e == MilestoneRejected(keys, counted.macro_iteration)
           IN  /\ Stands(s, d) => Stands(counted, d) /\ Stands(counted, Apply(d, e))
               /\ Parked(s) => Parked(counted)
               /\ counted.position = s.position
               /\ Apply(s, e) = counted
<1> DEFINE counted == RejectionCounted(s, keys)
           e == MilestoneRejected(keys, counted.macro_iteration)
           n == IF s.identical_rejections > 0 /\ keys = s.last_keys
                  THEN s.identical_rejections + 1 ELSE 1
           k == IF d.identical_rejections > 0 /\ keys = d.last_keys
                  THEN d.identical_rejections + 1 ELSE 1
           i == s.macro_iteration + 1
<1>1. /\ s # None /\ d # None /\ s.macro_iteration \in Nat
      /\ d.macro_iteration \in Nat
  BY NoneAssumption DEF Held, SessionState
<1>2. counted = [s EXCEPT !.macro_iteration = i, !.last_keys = keys,
                          !.identical_rejections = n]
  BY DEF RejectionCounted, Held, SessionState
<1>3. e = [type |-> "MilestoneRejected", keys |-> keys, iteration |-> i]
  BY <1>2 DEF MilestoneRejected, Held, SessionState
<1>4. Apply(d, e) = [d EXCEPT !.last_keys = keys, !.identical_rejections = k,
                              !.macro_iteration = i]
  BY <1>1, <1>3 DEF Apply, RejectionReplayed, Held, SessionState
<1>5. Apply(s, e) = [s EXCEPT !.last_keys = keys, !.identical_rejections = n,
                              !.macro_iteration = i]
  BY <1>1, <1>3 DEF Apply, RejectionReplayed, Held, SessionState
<1>6. i \in Nat /\ i > s.macro_iteration
  BY <1>1
<1>t. Apply(d, e) # None
  <2>1. e.keys \subseteq Keys /\ e.iteration \in Nat /\ Apply(d, e) = RejectionReplayed(d, e)
    BY <1>1, <1>3, <1>6 DEF Apply
  <2> HIDE DEF e
  <2> QED BY <2>1, RejectionReplayedHeld, HeldThere
<1> HIDE DEF counted, e, n, k, i
<1>7. Apply(s, e) = counted
  BY <1>2, <1>5 DEF Held, SessionState
<1>8. /\ counted.position = s.position /\ counted.status = s.status
      /\ counted.approval_rejections = s.approval_rejections
      /\ counted.artifacts = s.artifacts /\ counted.macro_iteration = i
      /\ counted.pending_approval = s.pending_approval
  BY <1>2 DEF Held, SessionState
<1>9. /\ Apply(d, e).position = d.position /\ Apply(d, e).status = d.status
      /\ Apply(d, e).approval_rejections = d.approval_rejections
      /\ Apply(d, e).artifacts = d.artifacts /\ Apply(d, e).macro_iteration = i
      /\ Apply(d, e).pending_approval = d.pending_approval
      /\ Apply(d, e) # None
  BY <1>4, <1>t DEF Held, SessionState
<1>10. Stands(s, d) => Stands(counted, d) /\ Stands(counted, Apply(d, e))
  BY <1>1, <1>6, <1>8, <1>9 DEF Stands
<1>11. Parked(s) => Parked(counted)
  BY <1>8 DEF Parked
<1> QED BY <1>7, <1>8, <1>10, <1>11 DEF counted, e

LEMMA MoveMatches ==
    ASSUME NEW s, Held(s), NEW d, Held(d), s.position # None,
           NEW k, NEW j, j \in Nat
    PROVE  LET p == At(s.position.macro, j)
               e == SubStateAdvanced(k, j)
           IN  /\ Stands(s, d) => Stands(Repositioned(s, p), Apply(d, e))
               /\ Parked(Repositioned(s, p))
               /\ Apply(s, e) = Repositioned(s, p)
               /\ Apply(Answered(s), e) = Repositioned(s, p)
<1> DEFINE p == At(s.position.macro, j)
           e == SubStateAdvanced(k, j)
<1>1. s # None /\ d # None /\ Answered(s) # None /\ Answered(s) \in SessionState
  BY NoneAssumption DEF Held, SessionState, Answered
<1>2. e.type = "SubStateAdvanced" /\ e.to = j
  BY DEF SubStateAdvanced
<1>3. Apply(s, e) = [s EXCEPT !.position = p, !.pending_approval = None]
  BY <1>1, <1>2 DEF Apply, Held, SessionState
<1>4. Apply(Answered(s), e)
        = [Answered(s) EXCEPT !.position = p, !.pending_approval = None]
  BY <1>1, <1>2 DEF Apply, Answered, Held, SessionState
<1>5. s.position = d.position =>
        Apply(d, e) = [d EXCEPT !.position = p, !.pending_approval = None]
  BY <1>1, <1>2 DEF Apply, Held, SessionState
<1>6. p \in Positions
  BY DEF At, Positions, Held, SessionState
<1> HIDE DEF p, e
<1>t. s.position = d.position => Apply(d, e) # None
  BY <1>5, <1>6, RepositionedHeld, HeldThere DEF Repositioned
<1>7. Stands(s, d) => Stands(Repositioned(s, p), Apply(d, e))
  BY <1>5, <1>t DEF Stands, Repositioned, Held, SessionState
<1>8. Parked(Repositioned(s, p)) /\ Apply(s, e) = Repositioned(s, p)
  BY <1>3 DEF Parked, Repositioned, Held, SessionState
<1>9. Apply(Answered(s), e) = Repositioned(s, p)
  BY <1>4 DEF Answered, Repositioned, Held, SessionState
<1> QED BY <1>7, <1>8, <1>9 DEF p, e

LEMMA LoopMatches ==
    ASSUME NEW s, Held(s), NEW d, Held(d), s.position # None,
           NEW k, NEW j \in Nat
    PROVE  LET p == At(s.position.macro, j)
               e == MacroLoopedBack(k, j)
           IN  /\ Stands(s, d) => Stands(Looped(s, p), Apply(d, e))
               /\ s.pending_approval = None =>
                    Apply(s, e) = Looped(s, p) /\ Parked(Looped(s, p))
<1> DEFINE p == At(s.position.macro, j)
           e == MacroLoopedBack(k, j)
<1>1. s # None /\ d # None
  BY NoneAssumption DEF Held
<1>2. e.type = "MacroLoopedBack" /\ e.to = j
  BY DEF MacroLoopedBack
<1>3. Apply(s, e) = [s EXCEPT !.position = p, !.pending_approval = None]
  BY <1>1, <1>2 DEF Apply, Held, SessionState
<1>4. s.position = d.position =>
        Apply(d, e) = [d EXCEPT !.position = p, !.pending_approval = None]
  BY <1>1, <1>2 DEF Apply, Held, SessionState
<1>p. p \in Positions
  BY DEF At, Positions, Held, SessionState
<1> HIDE DEF p, e
<1>t. s.position = d.position => Apply(d, e) # None
  BY <1>4, <1>p, RepositionedHeld, HeldThere DEF Repositioned
<1>5. Stands(s, d) => Stands(Looped(s, p), Apply(d, e))
  BY <1>4, <1>t DEF Stands, Looped, Held, SessionState
<1>6. s.pending_approval = None =>
        Apply(s, e) = Looped(s, p) /\ Parked(Looped(s, p))
  BY <1>3 DEF Parked, Looped, Held, SessionState
<1> QED BY <1>5, <1>6 DEF p, e

LEMMA MacroMatches ==
    ASSUME NEW s, Held(s), NEW d, Held(d), NEW m, NEW n \in Macros
    PROVE  LET p == At(n, FirstEnabled(n))
               e == MacroAdvanced(m, n)
               moved == MacroReset(Repositioned(s, p))
           IN  /\ Stands(s, d) => Stands(moved, Apply(d, e))
               /\ Parked(moved) /\ moved.position = p
               /\ Apply(s, e) = moved
<1> DEFINE p == At(n, FirstEnabled(n))
           e == MacroAdvanced(m, n)
           moved == MacroReset(Repositioned(s, p))
<1>1. s # None /\ d # None
  BY NoneAssumption DEF Held
<1>2. e.type = "MacroAdvanced" /\ e.to = n
  BY DEF MacroAdvanced
<1>3. Apply(s, e) = MacroEntered(s, n) /\ Apply(d, e) = MacroEntered(d, n)
  BY <1>1, <1>2 DEF Apply
<1>4. \A t : MacroEntered(t, n) = [t EXCEPT !.position = p, !.macro_iteration = 0,
                                   !.identical_rejections = 0, !.last_keys = {},
                                   !.pending_approval = None]
  BY DEF MacroEntered
<1>p. p \in Positions
  BY FirstEnabledIsFirst, MacrosTyped DEF At, Positions
<1>t. MacroEntered(d, n) # None
  BY MacroEnteredHeld, HeldThere
<1> HIDE DEF p, e
<1>5. MacroEntered(s, n) = moved /\ moved.position = p
  <2> DEFINE r == Repositioned(s, p)
  <2>1. r = [s EXCEPT !.position = p, !.pending_approval = None]
    BY DEF Repositioned
  <2>2. moved = [r EXCEPT !.macro_iteration = 0, !.identical_rejections = 0,
                          !.last_keys = {}]
    BY DEF MacroReset
  <2>3. MacroEntered(s, n) = [s EXCEPT !.position = p, !.macro_iteration = 0,
                                   !.identical_rejections = 0, !.last_keys = {},
                                   !.pending_approval = None]
    BY <1>4
  <2> HIDE DEF r, moved
  <2> QED BY <2>1, <2>2, <2>3 DEF Held, SessionState
<1>6. Parked(moved)
  BY DEF Parked, Repositioned, MacroReset, Held, SessionState
<1>7. Stands(s, d) => Stands(MacroEntered(s, n), MacroEntered(d, n))
  <2>1. ASSUME NEW t, Held(t)
        PROVE  LET r == MacroEntered(t, n)
               IN  /\ r.position = p /\ r.macro_iteration = 0
                   /\ r.pending_approval = None /\ r.status = t.status
                   /\ r.approval_rejections = t.approval_rejections
                   /\ r.artifacts = t.artifacts
    <3>1. MacroEntered(t, n) = [t EXCEPT !.position = p, !.macro_iteration = 0,
                                   !.identical_rejections = 0, !.last_keys = {},
                                   !.pending_approval = None]
      BY <1>4
    <3> QED BY <2>1, <3>1 DEF Held, SessionState
  <2> QED BY <1>t, <2>1 DEF Stands
<1> QED BY <1>3, <1>5, <1>6, <1>7 DEF p, e

LEMMA EndMatches ==
    ASSUME NEW s, Held(s), NEW d, Held(d), NEW breaker, NEW o
    PROVE  LET tripped == CircuitBreakerTriggered(breaker)
               done == [s EXCEPT !.status = "Completed", !.position = None]
           IN  /\ Stands(s, d) =>
                    /\ Stands(Failed(s), Apply(d, tripped))
                    /\ Stands(done, Apply(d, SessionCompleted(o)))
               /\ Parked(s) => Parked(Failed(s)) /\ Parked(done)
               /\ Failed(s).position = s.position
               /\ Apply(s, tripped) = Failed(s)
               /\ Apply(s, SessionCompleted(o)) = done
<1> DEFINE tripped == CircuitBreakerTriggered(breaker)
           ended == SessionCompleted(o)
           done == [s EXCEPT !.status = "Completed", !.position = None]
<1>1. s # None /\ d # None
  BY NoneAssumption DEF Held
<1>2. tripped.type = "CircuitBreakerTriggered" /\ ended.type = "SessionCompleted"
  BY DEF CircuitBreakerTriggered, SessionCompleted
<1>3. Apply(s, tripped) = Failed(s) /\ Apply(d, tripped) = Failed(d)
  BY <1>1, <1>2 DEF Apply, Failed
<1>4. Apply(s, ended) = done
      /\ Apply(d, ended) = [d EXCEPT !.status = "Completed", !.position = None]
  BY <1>1, <1>2 DEF Apply
<1> HIDE DEF tripped, ended
<1>t. Failed(d) # None /\ Apply(d, ended) # None
  <2>1. Held(Failed(d)) /\ Held(Apply(d, ended))
    BY <1>4 DEF Held, Failed, SessionState, Status
  <2> QED BY <2>1, HeldThere
<1>5. Stands(s, d) => Stands(Failed(s), Failed(d))
  BY <1>t DEF Stands, Failed, Held, SessionState
<1>6. Stands(s, d) => Stands(done, Apply(d, ended))
  BY <1>4, <1>t DEF Stands, Held, SessionState
<1>7. Parked(s) => Parked(Failed(s)) /\ Parked(done)
  BY DEF Parked, Failed, Held, SessionState
<1>8. Failed(s).position = s.position
  BY DEF Failed, Held, SessionState
<1> QED BY <1>3, <1>4, <1>5, <1>6, <1>7, <1>8 DEF tripped, ended

LEMMA ApprovalMatches ==
    ASSUME NEW s, Held(s), NEW d, Held(d), NEW c \in Challenge
    PROVE  LET issued == ApprovalChallengeIssued(c)
               parked == [s EXCEPT !.pending_approval = c, !.approval_rejections = 0]
               answer == ApprovalAccepted(c)
           IN  /\ Stands(s, d) =>
                    /\ Stands(parked, Apply(d, issued))
                    /\ Stands(s, Apply(d, answer))
                    /\ Stands(Refused(s), Apply(d, ApprovalRejected))
               /\ Apply(s, issued) = parked /\ parked.position = s.position
               /\ Apply(s, answer) = Answered(s) /\ Parked(Answered(s))
               /\ Apply(s, ApprovalRejected) = Refused(s)
               /\ Parked(s) => Parked(Refused(s))
<1> DEFINE issued == ApprovalChallengeIssued(c)
           parked == [s EXCEPT !.pending_approval = c, !.approval_rejections = 0]
           answer == ApprovalAccepted(c)
           refusal == ApprovalRejected
<1>1. s # None /\ d # None
  BY NoneAssumption DEF Held
<1>2. /\ issued.type = "ApprovalChallengeIssued" /\ issued.challenge = c
      /\ answer.type = "ApprovalAccepted" /\ refusal.type = "ApprovalRejected"
  BY DEF ApprovalChallengeIssued, ApprovalAccepted, ApprovalRejected
<1>3. Apply(s, issued) = parked
      /\ Apply(d, issued) = [d EXCEPT !.pending_approval = c,
                                      !.approval_rejections = 0]
  BY <1>1, <1>2 DEF Apply
<1>4. Apply(s, answer) = Answered(s) /\ Apply(d, answer) = Answered(d)
  BY <1>1, <1>2 DEF Apply, Answered
<1>5. Apply(s, refusal) = Refused(s) /\ Apply(d, refusal) = Refused(d)
  BY <1>1, <1>2 DEF Apply, Refused
<1> HIDE DEF issued, answer, refusal
<1>t. Apply(d, issued) # None /\ Answered(d) # None /\ Refused(d) # None
  <2>1. c \in Challenge \cup {None} /\ 0 \in Nat
    OBVIOUS
  <2>2. Apply(d, issued) \in SessionState
    BY <1>3, <2>1 DEF Held, SessionState
  <2>3. Answered(d) \in SessionState
    BY DEF Answered, Held, SessionState
  <2>4. Refused(d) \in SessionState
    BY DEF Refused, Held, SessionState
  <2> QED BY <2>2, <2>3, <2>4, NoneAssumption
<1>6. Stands(s, d) => Stands(parked, Apply(d, issued))
  BY <1>3, <1>t DEF Stands, Held, SessionState
<1>7. Stands(s, d) => Stands(s, Answered(d))
  BY <1>t DEF Stands, Answered, Held, SessionState
<1>8. Stands(s, d) => Stands(Refused(s), Refused(d))
  BY <1>t DEF Stands, Refused, Held, SessionState
<1>9. parked.position = s.position
  BY DEF Held, SessionState
<1>10. Parked(Answered(s)) /\ (Parked(s) => Parked(Refused(s)))
  BY DEF Parked, Answered, Refused, Held, SessionState
<1> QED BY <1>3, <1>4, <1>5, <1>6, <1>7, <1>8, <1>9, <1>10
        DEF issued, answer, refusal

LEMMA NoteMatches ==
    ASSUME NEW s, Held(s), NEW d, Held(d), NEW a \in Artifacts,
           NEW e, e \in {MilestoneAccepted, OutputContractViolated}
    PROVE  LET stored == [s EXCEPT !.artifacts = @ \cup {a}]
           IN  /\ Stands(s, d) =>
                    /\ Stands(stored, Apply(d, ArtifactStored(a)))
                    /\ Stands(s, Apply(d, e))
               /\ Parked(s) => Parked(stored)
               /\ Apply(s, ArtifactStored(a)) = stored
               /\ Apply(s, e) = s
<1> DEFINE stored == [s EXCEPT !.artifacts = @ \cup {a}]
           storing == ArtifactStored(a)
<1>1. s # None /\ d # None
  BY NoneAssumption DEF Held
<1>2. /\ storing.type = "ArtifactStored" /\ storing.artifact = a
      /\ e.type \in {"MilestoneAccepted", "OutputContractViolated"}
  BY DEF ArtifactStored, MilestoneAccepted, OutputContractViolated
<1>3. Apply(s, storing) = stored
      /\ Apply(d, storing) = [d EXCEPT !.artifacts = @ \cup {a}]
  BY <1>1, <1>2 DEF Apply, ArtifactReplayed
<1>4. Apply(s, e) = s /\ Apply(d, e) = d
  BY <1>1, <1>2 DEF Apply
<1> HIDE DEF storing
<1>t. Apply(d, storing) # None
  <2>1. Apply(d, storing) \in SessionState
    BY <1>3 DEF Held, SessionState
  <2> QED BY <2>1, NoneAssumption
<1>5. Stands(s, d) => Stands(stored, Apply(d, storing))
  BY <1>3, <1>t DEF Stands, Held, SessionState
<1>6. Parked(s) => Parked(stored)
  BY DEF Parked, Held, SessionState
<1> QED BY <1>3, <1>4, <1>5, <1>6 DEF storing

-----------------------------------------------------------------------------
(* Every step keeps the invariant.                                         *)

\* The session of a handler in progress, or of a client's call, and what the
\* ledger replays to meanwhile.
LEMMA EngagedReplays ==
    ASSUME TypeInv, ReplayInv, pc # "idle" \/ Active
    PROVE  /\ Held(session) /\ session # None /\ session.position # None
           /\ session.position \in Positions
           /\ session.position.macro \in Macros
           /\ durable # None => Held(durable)
           /\ "unsynced" \notin Faults => Stands(session, durable)
           /\ Lossless => durable = InLedger(session, pc) /\ Held(durable)
           /\ Lossless /\ pc # "approved" => durable = session /\ Parked(session)
<1>1. /\ Held(session) /\ session # None /\ session.position # None
      /\ session.position \in Positions
      /\ session.position.macro \in Macros /\ (durable = None \/ Held(durable))
  BY Engaged DEF TypeInv, SessionInv
<1>2. Lossless => durable = InLedger(session, pc)
  BY <1>1 DEF ReplayInv, MatchInv
<1>3. InLedger(session, pc) # None
  <2>1. Answered(session) \in SessionState
    BY <1>1 DEF Answered, Held, SessionState
  <2> QED BY <1>1, <2>1, NoneAssumption DEF InLedger
<1>4. Lossless /\ pc # "approved" => durable = session /\ Parked(session)
  BY <1>1, <1>2, <1>3 DEF InLedger, ReplayInv, MatchInv
<1> QED BY <1>1, <1>2, <1>3, <1>4 DEF ReplayInv, StandsInv

LEMMA FaultKept ==
    ASSUME faults \in [AllFaults -> Nat], NEW kind, Fault(kind)
    PROVE  /\ kind \in {"lost", "unsynced"} => ~Lossless'
           /\ Lossless' => Lossless
<1>1. kind \in AllFaults
  BY EngineAssumption DEF Fault
<1>2. faults' = [faults EXCEPT ![kind] = faults[kind] + 1]
  BY DEF Fault
<1> QED BY <1>1, <1>2 DEF Lossless, AllFaults

\* An append that succeeds takes both sides on; one that fails takes neither,
\* unless it is unsynced.
LEMMA AttemptReplays ==
    ASSUME TypeInv, ReplayInv, pc # "idle" \/ Active,
           NEW e, NEW before, NEW after, NEW next,
           Attempt(e, before, after, next),
           "unsynced" \notin Faults =>
             Stands(before, durable) /\ Stands(after, Apply(durable, e)),
           Lossless =>
             Apply(durable, e) = InLedger(after, next) /\ Parked(Apply(durable, e)),
           next = "entering" =>
             Kind(after.position.macro, after.position.sub) = "human_approval",
           next = "rejected" =>
             Kind(after.position.macro, after.position.sub) = "checklist"
    PROVE  ReplayInv'
<1>1. faults \in [AllFaults -> Nat]
  BY DEF TypeInv, SessionInv
<1>2. CASE /\ Log(e) /\ session' = after /\ pc' = next /\ UNCHANGED faults
  <2>1. durable' = Apply(durable, e) /\ (Lossless' => Lossless)
    BY <1>2 DEF Log, Lossless
  <2>2. PlaceInv'
    BY <1>2 DEF PlaceInv
  <2>3. StandsInv'
    BY <1>2, <2>1 DEF StandsInv
  <2>4. MatchInv'
    BY <1>2, <2>1 DEF MatchInv
  <2> QED BY <2>2, <2>3, <2>4 DEF ReplayInv
<1>3. CASE AppendFails(e) /\ session' = before /\ pc' = "idle"
  <2>1. ~Lossless'
    BY <1>1, <1>3, FaultKept DEF AppendFails
  <2>2. "unsynced" \notin Faults => durable' = durable
    BY <1>3 DEF AppendFails, Fault
  <2> QED BY <1>3, <2>1, <2>2 DEF ReplayInv, PlaceInv, StandsInv, MatchInv
<1> QED BY <1>2, <1>3 DEF Attempt

\* Nothing happens to the session or its ledger.
LEMMA RestReplays ==
    ASSUME ReplayInv, UNCHANGED <<session, durable, faults>>,
           pc' \notin {"approved", "entering", "rejected"} \/ pc' = pc,
           pc # "approved" \/ pc' = pc
    PROVE  ReplayInv'
BY DEF ReplayInv, PlaceInv, StandsInv, MatchInv, Lossless, InLedger

\* The session leaves the map, alone or with its ledger file.
LEMMA GoneReplays ==
    ASSUME TypeInv, ReplayInv, NEW kind, Fault(kind), session' = None, pc' = "idle",
           durable' \in {durable, None}
    PROVE  ReplayInv'
BY FaultKept DEF TypeInv, SessionInv, ReplayInv, PlaceInv, StandsInv, MatchInv

LEMMA SettledPlace ==
    ASSUME NEW p
    PROVE  /\ Arrived(p) = "entering" => Kind(p.macro, p.sub) = "human_approval"
           /\ Arrived(p) \notin {"rejected", "approved"}
           /\ Settled \notin {"entering", "rejected", "approved"}
BY DEF Arrived, Settled

LEMMA TripReplays ==
    ASSUME TypeInv, ReplayInv, pc # "idle" \/ Active, pc # "approved",
           NEW breaker, Trip(breaker)
    PROVE  ReplayInv'
<1> DEFINE e == CircuitBreakerTriggered(breaker)
<1>1. Attempt(e, session, Failed(session), "idle")
  BY DEF Trip
<1>2. "unsynced" \notin Faults =>
        Stands(session, durable) /\ Stands(Failed(session), Apply(durable, e))
  <2>1. Held(session)
    BY EngagedReplays
  <2>2. "unsynced" \notin Faults => Stands(session, durable) /\ Held(durable)
    BY EngagedReplays DEF Stands
  <2> QED BY <2>1, <2>2, EndMatches
<1>3. Lossless => Apply(durable, e) = InLedger(Failed(session), "idle")
                  /\ Parked(Apply(durable, e))
  BY EngagedReplays, EndMatches DEF InLedger
<1> HIDE DEF e
<1> QED BY <1>1, <1>2, <1>3, AttemptReplays

LEMMA PlainReplays ==
    ASSUME TypeInv, ReplayInv, pc # "idle" \/ Active, AdvancePlain
    PROVE  ReplayInv'
<1> DEFINE p == session.position
           j == NextEnabled(p.macro, p.sub)
           next == At(p.macro, j)
           e == SubStateAdvanced(p.sub, j)
           after == Repositioned(session, next)
<1>1. /\ Held(session) /\ p # None /\ p.macro \in Macros /\ p.sub \in Nat
  BY Engaged
<1>2. j \in Nat
  BY <1>1, NextEnabledTyped
<1>3. Attempt(e, session, after, Arrived(next))
  BY DEF AdvancePlain, At
<1>4. after.position = next
  BY <1>1 DEF Repositioned, Held, SessionState
<1> HIDE DEF j
<1>5. "unsynced" \notin Faults =>
        Stands(session, durable) /\ Stands(after, Apply(durable, e))
  BY <1>1, <1>2, EngagedReplays, MoveMatches DEF Stands
<1>6. Lossless => Apply(durable, e) = InLedger(after, Arrived(next))
                  /\ Parked(Apply(durable, e))
  BY <1>1, <1>2, EngagedReplays, MoveMatches, SettledPlace DEF InLedger
<1> HIDE DEF e, after, next
<1> QED BY <1>3, <1>4, <1>5, <1>6, SettledPlace, AttemptReplays

LEMMA StartReplays == TypeInv /\ ReplayInv /\ StartSession => ReplayInv'
<1> SUFFICES ASSUME TypeInv, ReplayInv, StartSession PROVE ReplayInv'
  OBVIOUS
<1>1. CASE /\ Log(SessionStarted) /\ session' = Fresh
           /\ pc' = Arrived(Fresh.position) /\ UNCHANGED <<faults, arrival>>
  <2>1. durable' = Fresh
    BY <1>1 DEF Log, Apply, SessionStarted
  <2>2. Held(Fresh) /\ Fresh # None /\ Fresh.pending_approval = None
    BY FreshHeld, HeldThere DEF Fresh
  <2>3. Stands(Fresh, Fresh)
    BY <2>2 DEF Stands, Held, SessionState
  <2>4. Parked(Fresh) /\ InLedger(Fresh, pc') = Fresh
    BY <1>1, <2>2, SettledPlace DEF Parked, InLedger
  <2>5. PlaceInv'
    BY <1>1, SettledPlace DEF PlaceInv
  <2> HIDE DEF Fresh
  <2> QED BY <1>1, <2>1, <2>3, <2>4, <2>5 DEF ReplayInv, StandsInv, MatchInv
<1>2. CASE StartAborted
  BY <1>2, GoneReplays DEF StartAborted
<1> QED BY <1>1, <1>2 DEF StartSession

LEMMA RecoverReplays == TypeInv /\ ReplayInv /\ Recover => ReplayInv'
<1> SUFFICES ASSUME TypeInv, ReplayInv, Recover PROVE ReplayInv'
  OBVIOUS
<1>1. /\ pc' = "idle" /\ session' = durable /\ durable' = durable
      /\ faults' = faults /\ Held(durable) /\ durable # None
  BY DEF Recover, TypeInv, SessionInv
<1>2. Stands(durable, durable)
  BY <1>1 DEF Stands, Held, SessionState
<1> QED BY <1>1, <1>2
        DEF ReplayInv, PlaceInv, StandsInv, MatchInv, InLedger, Lossless

LEMMA EnterGateReplays == TypeInv /\ ReplayInv /\ EnterGate => ReplayInv'
<1> SUFFICES ASSUME TypeInv, ReplayInv, EnterGate PROVE ReplayInv'
  OBVIOUS
<1> DEFINE c == IssuedFor(session.position)
           e == ApprovalChallengeIssued(c)
           parked == [session EXCEPT !.pending_approval = c,
                                     !.approval_rejections = 0]
<1>1. /\ pc = "entering" /\ Held(session) /\ session.position.macro \in Macros
      /\ session.position.sub \in Nat
  BY Engaged DEF EnterGate
<1>2. c \in Challenge
  BY <1>1 DEF IssuedFor, Challenge, EnterGate, TypeInv, WorldInv
<1>3. parked.position = session.position
  BY <1>1 DEF Held, SessionState
<1>4. Attempt(e, session, parked, Settled) \/ StartAborted
  BY <1>3 DEF EnterGate, Attempt
<1> HIDE DEF c
<1>5. CASE Attempt(e, session, parked, Settled)
  <2>1. "unsynced" \notin Faults =>
          Stands(session, durable) /\ Stands(parked, Apply(durable, e))
    <3>1. "unsynced" \notin Faults => Stands(session, durable) /\ Held(durable)
      BY <1>1, EngagedReplays DEF Stands
    <3> QED BY <1>1, <1>2, <3>1, ApprovalMatches
  <2>2. Lossless => durable = session
    BY <1>1, EngagedReplays
  <2>3. Apply(session, e) = parked
    BY <1>1, <1>2, ApprovalMatches
  <2>4. Parked(parked)
    BY <1>1, <1>3 DEF Parked, ReplayInv, PlaceInv
  <2>5. InLedger(parked, Settled) = parked
    BY SettledPlace DEF InLedger
  <2> HIDE DEF e, parked
  <2> QED BY <1>1, <1>5, <2>1, <2>2, <2>3, <2>4, <2>5, SettledPlace,
             AttemptReplays
<1>6. CASE StartAborted
  BY <1>6, GoneReplays DEF StartAborted
<1> QED BY <1>4, <1>5, <1>6

LEMMA ApprovalReplays ==
    TypeInv /\ ReplayInv /\ (AcceptApproval \/ RejectApproval) => ReplayInv'
<1> SUFFICES ASSUME TypeInv, ReplayInv, AcceptApproval \/ RejectApproval
             PROVE  ReplayInv'
  OBVIOUS
<1>1. Active /\ pc = "idle"
  BY DEF AcceptApproval, RejectApproval, Submitted, Active
<1>2. /\ Held(session)
      /\ "unsynced" \notin Faults => Stands(session, durable) /\ Held(durable)
      /\ Lossless => durable = session /\ Parked(session)
  BY <1>1, EngagedReplays DEF Stands
<1>3. CASE AcceptApproval
  <2>1. PICK sig \in signed :
          Attempt(ApprovalAccepted(sig), session, session, "approved")
    BY <1>3 DEF AcceptApproval
  <2>2. sig \in Challenge
    BY DEF TypeInv, WorldInv
  <2>3. /\ Apply(session, ApprovalAccepted(sig)) = Answered(session)
        /\ Parked(Answered(session))
        /\ "unsynced" \notin Faults =>
             Stands(session, Apply(durable, ApprovalAccepted(sig)))
    BY <1>2, <2>2, ApprovalMatches
  <2>4. InLedger(session, "approved") = Answered(session)
    BY DEF InLedger
  <2> QED BY <1>1, <1>2, <2>1, <2>3, <2>4, AttemptReplays
<1>4. CASE RejectApproval
  <2>1. PICK next \in {"tripping", "idle"} :
          Attempt(ApprovalRejected, session, Refused(session), next)
    BY <1>4 DEF RejectApproval
  <2>2. IssuedFor(session.position) \in Challenge
    BY <1>1, Engaged DEF IssuedFor, Challenge, TypeInv, WorldInv
  <2>3. /\ Apply(session, ApprovalRejected) = Refused(session)
        /\ Parked(session) => Parked(Refused(session))
        /\ "unsynced" \notin Faults =>
             Stands(Refused(session), Apply(durable, ApprovalRejected))
    BY <1>2, <2>2, ApprovalMatches
  <2>4. InLedger(Refused(session), next) = Refused(session)
    BY DEF InLedger
  <2> QED BY <1>1, <1>2, <2>1, <2>3, <2>4, AttemptReplays
<1> QED BY <1>3, <1>4

LEMMA RejectReplays == TypeInv /\ ReplayInv /\ RejectChecklist => ReplayInv'
<1> SUFFICES ASSUME TypeInv, ReplayInv, RejectChecklist PROVE ReplayInv'
  OBVIOUS
<1>1. /\ Active /\ pc = "idle"
      /\ Kind(session.position.macro, session.position.sub) = "checklist"
  BY DEF RejectChecklist, Submitted, Active
<1>2. /\ Held(session)
      /\ "unsynced" \notin Faults => Stands(session, durable) /\ Held(durable)
      /\ Lossless => durable = session /\ Parked(session)
  BY <1>1, EngagedReplays DEF Stands
<1>3. PICK evidence \in Evidence :
        LET keys == CarriedKeys(evidence)
            counted == RejectionCounted(session, keys)
        IN  Attempt(MilestoneRejected(keys, counted.macro_iteration),
                    counted, counted, "rejected")
  BY DEF RejectChecklist
<1> DEFINE keys == CarriedKeys(evidence)
           counted == RejectionCounted(session, keys)
           e == MilestoneRejected(keys, counted.macro_iteration)
<1>4. keys \in SUBSET Keys
  BY DEF CarriedKeys
<1>5. Attempt(e, counted, counted, "rejected")
  BY <1>3
<1> HIDE DEF keys
<1>6. /\ Apply(session, e) = counted /\ counted.position = session.position
      /\ Parked(session) => Parked(counted)
      /\ "unsynced" \notin Faults =>
           Stands(counted, durable) /\ Stands(counted, Apply(durable, e))
  <2>1. /\ Apply(session, e) = counted /\ counted.position = session.position
        /\ Parked(session) => Parked(counted)
    BY <1>2, <1>4, RejectionMatches
  <2>2. "unsynced" \notin Faults =>
          Stands(counted, durable) /\ Stands(counted, Apply(durable, e))
    BY <1>2, <1>4, RejectionMatches
  <2> QED BY <2>1, <2>2
<1>7. InLedger(counted, "rejected") = counted
  BY DEF InLedger
<1> HIDE DEF counted, e
<1> QED BY <1>1, <1>2, <1>5, <1>6, <1>7, AttemptReplays

\* An event that the fold passes over.
LEMMA NotedReplays ==
    ASSUME TypeInv, ReplayInv, pc # "idle" \/ Active, pc # "approved",
           NEW e \in {MilestoneAccepted, OutputContractViolated},
           NEW next \in {"idle", "advancing", "completing"},
           Attempt(e, session, session, next)
    PROVE  ReplayInv'
<1>1. /\ Held(session)
      /\ "unsynced" \notin Faults => Stands(session, durable) /\ Held(durable)
      /\ Lossless => durable = session /\ Parked(session)
  BY EngagedReplays DEF Stands
<1>2. \A d : Held(d) => Apply(d, e) = d
  BY HeldThere DEF Apply, MilestoneAccepted, OutputContractViolated
<1>3. InLedger(session, next) = session
  BY DEF InLedger
<1> QED BY <1>1, <1>2, <1>3, AttemptReplays

LEMMA FinalReplays ==
    TypeInv /\ ReplayInv /\ (AcceptDelivered \/ AcceptUncontracted \/ Complete)
        => ReplayInv'
<1> SUFFICES ASSUME TypeInv, ReplayInv,
                    AcceptDelivered \/ AcceptUncontracted \/ Complete
             PROVE  ReplayInv'
  OBVIOUS
<1>1. CASE AcceptDelivered \/ AcceptUncontracted
  <2>1. (pc # "idle" \/ Active) /\ pc # "approved"
    BY <1>1 DEF AcceptDelivered, AcceptUncontracted, Completed, Submitted, Active
  <2>2. Attempt(MilestoneAccepted, session, session, "completing")
    BY <1>1 DEF AcceptDelivered, AcceptUncontracted, AcceptFinal
  <2> QED BY <2>1, <2>2, NotedReplays
<1>2. CASE Complete
  <2> DEFINE e == SessionCompleted(inflight)
             done == [session EXCEPT !.status = "Completed", !.position = None]
  <2>1. pc = "completing" /\ Attempt(e, session, done, "idle")
    BY <1>2 DEF Complete
  <2>2. /\ Held(session)
        /\ "unsynced" \notin Faults => Stands(session, durable) /\ Held(durable)
        /\ Lossless => durable = session /\ Parked(session)
    BY <2>1, EngagedReplays DEF Stands
  <2>3. /\ Apply(session, e) = done /\ (Parked(session) => Parked(done))
        /\ "unsynced" \notin Faults => Stands(done, Apply(durable, e))
    BY <2>2, EndMatches
  <2>4. InLedger(done, "idle") = done
    BY DEF InLedger
  <2> HIDE DEF e, done
  <2> QED BY <2>1, <2>2, <2>3, <2>4, AttemptReplays
<1> QED BY <1>1, <1>2

LEMMA ArtifactReplays == TypeInv /\ ReplayInv /\ RecordArtifact => ReplayInv'
<1> SUFFICES ASSUME TypeInv, ReplayInv, RecordArtifact PROVE ReplayInv'
  OBVIOUS
<1> DEFINE e == ArtifactStored(inflight)
           stored == [session EXCEPT !.artifacts = @ \cup {inflight}]
<1>1. /\ pc = "storing" /\ Attempt(e, session, stored, "idle")
      /\ inflight \in Artifacts
  BY DEF RecordArtifact, TypeInv, HandlerInv
<1>2. /\ Held(session)
      /\ "unsynced" \notin Faults => Stands(session, durable) /\ Held(durable)
      /\ Lossless => durable = session /\ Parked(session)
  BY <1>1, EngagedReplays DEF Stands
<1>3. /\ Apply(session, e) = stored /\ (Parked(session) => Parked(stored))
      /\ "unsynced" \notin Faults => Stands(stored, Apply(durable, e))
  BY <1>1, <1>2, NoteMatches
<1>4. InLedger(stored, "idle") = stored
  BY DEF InLedger
<1> HIDE DEF e, stored
<1> QED BY <1>1, <1>2, <1>3, <1>4, AttemptReplays

LEMMA LoopReplays == TypeInv /\ ReplayInv /\ LoopBack => ReplayInv'
<1> SUFFICES ASSUME TypeInv, ReplayInv, LoopBack PROVE ReplayInv'
  OBVIOUS
<1> DEFINE p == session.position
           j == FirstExecute(p.macro)
           target == At(p.macro, j)
           e == MacroLoopedBack(p.sub, j)
           after == Looped(session, target)
<1>1. pc = "rejected" /\ Attempt(e, session, after, "idle")
  BY DEF LoopBack, At
<1>2. /\ Held(session) /\ p # None /\ p.macro \in Macros
      /\ "unsynced" \notin Faults => Stands(session, durable) /\ Held(durable)
      /\ Lossless => durable = session /\ Parked(session)
  BY <1>1, EngagedReplays DEF Stands
<1>3. j \in Nat
  BY <1>2, FirstExecuteIsExecute, MacrosTyped DEF LoopBack, LoopEnabled
<1>4. Lossless => session.pending_approval = None
  BY <1>1, <1>2 DEF Parked, ReplayInv, PlaceInv
<1> HIDE DEF j
<1>5. "unsynced" \notin Faults =>
        Stands(session, durable) /\ Stands(after, Apply(durable, e))
  BY <1>2, <1>3, LoopMatches
<1>6. Lossless => Apply(durable, e) = InLedger(after, "idle")
                  /\ Parked(Apply(durable, e))
  BY <1>2, <1>3, <1>4, LoopMatches DEF InLedger
<1> HIDE DEF e, after
<1> QED BY <1>1, <1>5, <1>6, AttemptReplays

LEMMA MacroReplays == TypeInv /\ ReplayInv /\ AdvanceMacro => ReplayInv'
<1> SUFFICES ASSUME TypeInv, ReplayInv, AdvanceMacro PROVE ReplayInv'
  OBVIOUS
<1> DEFINE m == session.position.macro
           next == At(m + 1, FirstEnabled(m + 1))
           e == MacroAdvanced(m, m + 1)
           moved == MacroReset(Repositioned(session, next))
<1>1. pc = "advancing" /\ Attempt(e, session, moved, Arrived(next))
  BY DEF AdvanceMacro
<1>2. /\ Held(session) /\ m \in Macros
      /\ "unsynced" \notin Faults => Stands(session, durable) /\ Held(durable)
      /\ Lossless => durable = session
  BY <1>1, EngagedReplays DEF Stands
<1>3. m + 1 \in Macros
  BY <1>1, <1>2, NextMacro DEF TypeInv, SessionInv
<1>4. Apply(session, e) = moved /\ Parked(moved) /\ moved.position = next
  BY <1>2, <1>3, MacroMatches
<1>5. "unsynced" \notin Faults => Stands(moved, Apply(durable, e))
  BY <1>2, <1>3, MacroMatches
<1>6. InLedger(moved, Arrived(next)) = moved
  BY SettledPlace DEF InLedger
<1> HIDE DEF e, moved, next
<1> QED BY <1>1, <1>2, <1>4, <1>5, <1>6, SettledPlace, AttemptReplays

LEMMA SubmissionReplays == TypeInv /\ ReplayInv /\ Submission => ReplayInv'
<1> SUFFICES ASSUME TypeInv, ReplayInv, Submission PROVE ReplayInv'
  OBVIOUS
<1>1. CASE GlobalTimeout
  BY <1>1, TripReplays DEF GlobalTimeout, Active
<1>2. CASE AdvanceUngated
  BY <1>2, PlainReplays DEF AdvanceUngated, Submitted
<1>3. CASE AcceptMilestone
  BY <1>3, NotedReplays DEF AcceptMilestone, Completed, Submitted, Active
<1>4. CASE ViolateOutput
  BY <1>4, NotedReplays DEF ViolateOutput, Completed, Submitted, Active
<1>5. CASE WriteOutput
  BY <1>5, RestReplays DEF WriteOutput, Completed, Submitted, Active
<1> QED BY <1>1, <1>2, <1>3, <1>4, <1>5, ApprovalReplays, RejectReplays,
           FinalReplays DEF Submission

LEMMA ContinuationReplays == TypeInv /\ ReplayInv /\ Continuation => ReplayInv'
<1> SUFFICES ASSUME TypeInv, ReplayInv, Continuation PROVE ReplayInv'
  OBVIOUS
<1>1. CASE Publish
  BY <1>1, RestReplays DEF Publish
<1>2. CASE AdvanceApproved
  BY <1>2, PlainReplays DEF AdvanceApproved
<1>3. CASE TripApprovalLimit \/ TripMaxIterations \/ TripRepetitiveLoop
  BY <1>3, TripReplays
     DEF TripApprovalLimit, TripMaxIterations, TripRepetitiveLoop
<1>4. CASE StayRejected
  BY <1>4, RestReplays DEF StayRejected
<1> QED BY <1>1, <1>2, <1>3, <1>4, EnterGateReplays, LoopReplays, MacroReplays,
           FinalReplays, ArtifactReplays DEF Continuation

LEMMA SurroundingsReplay ==
    TypeInv /\ ReplayInv /\ (StoreBlob \/ Environment) => ReplayInv'
<1> SUFFICES ASSUME TypeInv, ReplayInv, StoreBlob \/ Environment
             PROVE  ReplayInv'
  OBVIOUS
<1>1. CASE StoreBlob
  BY <1>1, RestReplays DEF StoreBlob, Active
<1>2. CASE Sign \/ Expire \/ Tamper
  BY <1>2, RestReplays DEF Sign, Expire, Tamper
<1>3. CASE Crash
  BY <1>3, GoneReplays DEF Crash
<1> QED BY <1>1, <1>2, <1>3 DEF Environment

LEMMA ReplayInvNext == TypeInv /\ ReplayInv /\ [Next]_vars => ReplayInv'
<1>1. TypeInv /\ ReplayInv /\ Next => ReplayInv'
  BY StartReplays, RecoverReplays, SubmissionReplays, SurroundingsReplay,
     ContinuationReplays DEF Next
<1>2. TypeInv /\ ReplayInv /\ UNCHANGED vars => ReplayInv'
  BY RestReplays DEF vars
<1> QED BY <1>1, <1>2

LEMMA ReplayInvInit == Init => ReplayInv
BY DEF Init, ReplayInv, PlaceInv, StandsInv, MatchInv

LEMMA ReplayInvAlways == Spec => [](TypeInv /\ ReplayInv)
<1> QED BY TypeInvInit, TypeInvNext, ReplayInvInit, ReplayInvNext, PTL DEF Spec

\* Until an append fails, the ledger replays to the very state the live engine
\* holds, however often the process died and recovered the session.
THEOREM RecoveryExact == Spec => []LiveIsReplayed
<1>1. ReplayInv => LiveIsReplayed
  BY DEF ReplayInv, MatchInv, InLedger, LiveIsReplayed
<1> QED BY <1>1, ReplayInvAlways, PTL

\* Whatever append was lost, the live session and the replayed one stand at
\* the same place, in the same status, with the same artifacts.
THEOREM RecoveryStands ==
    "unsynced" \notin Faults /\ Spec => []LiveStandsWhereReplayed
<1>1. "unsynced" \notin Faults /\ ReplayInv => LiveStandsWhereReplayed
  BY DEF ReplayInv, StandsInv, Stands, LiveStandsWhereReplayed
<1>2. CASE "unsynced" \in Faults
  BY <1>2
<1>3. CASE "unsynced" \notin Faults
  <2>1. ReplayInv => LiveStandsWhereReplayed
    BY <1>1, <1>3
  <2> QED BY <2>1, ReplayInvAlways, PTL
<1> QED BY <1>2, <1>3

-----------------------------------------------------------------------------
(* The end of a session.                                                   *)

\* No handler and no call is at work on a session that the ledger ends.
LEMMA NobodyAtWork ==
    ASSUME TypeInv, ReplayInv, "unsynced" \notin Faults, Terminal(durable)
    PROVE  pc = "idle" /\ ~Active
BY EngagedReplays DEF TypeInv, SessionInv, Terminal, Stands, Active

LEMMA EndedRests ==
    ASSUME TypeInv, ReplayInv, "unsynced" \notin Faults, Terminal(durable),
           [Next]_vars
    PROVE  UNCHANGED <<durable, ledger, committed, deliverable>>
<1>1. pc = "idle" /\ ~Active /\ durable # None
  BY NobodyAtWork DEF Terminal
<1>2. ~Submission /\ ~StoreBlob /\ ~StartSession
  BY <1>1 DEF Submission, GlobalTimeout, AdvanceUngated, AcceptApproval,
     RejectApproval, RejectChecklist, AcceptMilestone, ViolateOutput,
     WriteOutput, AcceptUncontracted, Completed, Submitted, StoreBlob,
     StartSession
<1>3. ~Continuation
  BY <1>1 DEF Continuation, EnterGate, Publish, AdvanceApproved,
     TripApprovalLimit, TripMaxIterations, TripRepetitiveLoop, LoopBack,
     StayRejected, AdvanceMacro, AcceptDelivered, Complete, RecordArtifact
<1>4. CASE Recover \/ Environment
  BY <1>4 DEF Recover, Environment, Sign, Expire, Tamper, Crash
<1>5. CASE UNCHANGED vars
  BY <1>5 DEF vars
<1> QED BY <1>2, <1>3, <1>4, <1>5 DEF Next

\* Nothing is recorded of a session after its terminal event.
THEOREM EndIsFinal == "unsynced" \notin Faults /\ Spec => TerminalIsFinal
<1>1. CASE "unsynced" \in Faults
  BY <1>1
<1>2. CASE "unsynced" \notin Faults
  <2>1. TypeInv /\ ReplayInv /\ [Next]_vars
          => [Terminal(durable) => UNCHANGED <<durable, ledger>>]_vars
    BY <1>2, EndedRests
  <2> QED BY <2>1, ReplayInvAlways, PTL DEF Spec, TerminalIsFinal
<1> QED BY <1>1, <1>2

-----------------------------------------------------------------------------
(* The deliverable.                                                        *)

\* What a handler is about to commit is what it has put on disk.
DeliveryInv ==
    /\ "unsynced" \notin Faults => DeliverableCommitted
    /\ pc \in {"accepting", "completing"} => inflight = deliverable
    /\ ~HasContract => deliverable = None

Passing == {"SessionStarted", "MilestoneRejected", "MilestoneAccepted",
            "SubStateAdvanced", "MacroAdvanced", "MacroLoopedBack",
            "CircuitBreakerTriggered", "OutputContractViolated",
            "ArtifactStored", "ApprovalChallengeIssued", "ApprovalAccepted",
            "ApprovalRejected"}

\* Only SessionCompleted completes a session.
LEMMA PassingLeavesOpen ==
    ASSUME NEW d, d = None \/ (Held(d) /\ d.status # "Completed"),
           NEW e, e.type \in Passing
    PROVE  Apply(d, e) = None \/ Apply(d, e).status # "Completed"
<1>1. CASE e.type = "SessionStarted" \/ d = None
  BY <1>1 DEF Apply, Fresh
<1>2. CASE e.type # "SessionStarted" /\ d # None
  <2>1. Held(d) /\ d.status # "Completed"
    BY <1>2
  <2>2. CASE e.type = "MilestoneRejected"
    BY <1>2, <2>1, <2>2 DEF Apply, RejectionReplayed, Held, SessionState
  <2>3. CASE e.type \in {"SubStateAdvanced", "MacroLoopedBack"}
    BY <1>2, <2>1, <2>3 DEF Apply, Held, SessionState
  <2>4. CASE e.type = "MacroAdvanced"
    BY <1>2, <2>1, <2>4 DEF Apply, MacroEntered, Held, SessionState
  <2>5. CASE e.type = "CircuitBreakerTriggered"
    BY <1>2, <2>1, <2>5 DEF Apply, Held, SessionState
  <2>6. CASE e.type \in {"ApprovalChallengeIssued", "ApprovalAccepted",
                         "ApprovalRejected"}
    BY <1>2, <2>1, <2>6 DEF Apply, Held, SessionState
  <2>7. CASE e.type \in {"ArtifactStored", "MilestoneAccepted",
                         "OutputContractViolated"}
    BY <1>2, <2>1, <2>7 DEF Apply, ArtifactReplayed, Held, SessionState
  <2> QED BY <1>2, <2>2, <2>3, <2>4, <2>5, <2>6, <2>7 DEF Passing
<1> QED BY <1>1, <1>2

\* Every step but Complete leaves what the ledger replays to, removes it, or
\* folds one of the other events into it.
PassingStep ==
    durable' \in {durable, None}
      \/ \E e : e.type \in Passing /\ durable' = Apply(durable, e)

LEMMA AttemptPasses ==
    ASSUME NEW e, NEW before, NEW after, NEW next,
           Attempt(e, before, after, next), e.type \in Passing
    PROVE  PassingStep /\ committed' = committed
BY DEF Attempt, Log, AppendFails, PassingStep, Passing

LEMMA StepPasses == Next /\ ~Complete => PassingStep
<1> SUFFICES ASSUME Next, ~Complete PROVE PassingStep
  OBVIOUS
<1>1. CASE StartSession
  BY <1>1 DEF StartSession, StartAborted, Log, SessionStarted, PassingStep,
     Passing
<1>2. CASE EnterGate
  BY <1>2, AttemptPasses DEF EnterGate, StartAborted, Log,
     ApprovalChallengeIssued, PassingStep, Passing
<1>3. CASE \/ GlobalTimeout \/ TripApprovalLimit \/ TripMaxIterations
           \/ TripRepetitiveLoop
  BY <1>3, AttemptPasses DEF GlobalTimeout, TripApprovalLimit,
     TripMaxIterations, TripRepetitiveLoop, Trip, CircuitBreakerTriggered,
     Passing
<1>4. CASE AdvanceUngated \/ AdvanceApproved
  BY <1>4, AttemptPasses DEF AdvanceUngated, AdvanceApproved, AdvancePlain,
     SubStateAdvanced, Passing
<1>5. CASE AcceptApproval
  BY <1>5, AttemptPasses DEF AcceptApproval, ApprovalAccepted, Passing
<1>6. CASE RejectApproval
  BY <1>6, AttemptPasses DEF RejectApproval, ApprovalRejected, Passing
<1>7. CASE RejectChecklist
  BY <1>7, AttemptPasses DEF RejectChecklist, MilestoneRejected, Passing
<1>8. CASE LoopBack
  BY <1>8, AttemptPasses DEF LoopBack, MacroLoopedBack, Passing
<1>9. CASE AcceptMilestone \/ AcceptDelivered \/ AcceptUncontracted
  BY <1>9, AttemptPasses DEF AcceptMilestone, AcceptDelivered,
     AcceptUncontracted, AcceptFinal, MilestoneAccepted, Passing
<1>10. CASE ViolateOutput
  BY <1>10, AttemptPasses DEF ViolateOutput, OutputContractViolated, Passing
<1>11. CASE AdvanceMacro
  BY <1>11, AttemptPasses DEF AdvanceMacro, MacroAdvanced, Passing
<1>12. CASE RecordArtifact
  BY <1>12, AttemptPasses DEF RecordArtifact, ArtifactStored, Passing
<1>13. CASE Recover \/ WriteOutput \/ StoreBlob \/ Publish \/ StayRejected
            \/ Environment
  BY <1>13 DEF Recover, WriteOutput, StoreBlob, Publish, StayRejected,
     Environment, Sign, Expire, Tamper, Crash, PassingStep
<1> QED BY <1>1, <1>2, <1>3, <1>4, <1>5, <1>6, <1>7, <1>8, <1>9, <1>10, <1>11,
           <1>12, <1>13 DEF Next, Submission, Continuation

LEMMA HandsOver ==
    ASSUME TypeInv, DeliveryInv, [Next]_vars
    PROVE  /\ pc' \in {"accepting", "completing"} => inflight' = deliverable'
           /\ ~HasContract => deliverable' = None
<1>1. CASE WriteOutput
  BY <1>1 DEF WriteOutput, Written
<1>2. CASE AcceptDelivered \/ AcceptUncontracted
  BY <1>2 DEF AcceptDelivered, AcceptUncontracted, AcceptFinal, Attempt,
     Completed, Submitted, Active, TypeInv, HandlerInv, DeliveryInv
<1>3. CASE UNCHANGED vars
  BY <1>3 DEF vars, DeliveryInv
<1>4. CASE Next /\ ~WriteOutput /\ ~AcceptDelivered /\ ~AcceptUncontracted
  <2>1. deliverable' = deliverable
    BY <1>4 DEF Next, Submission, Continuation, Environment, StartSession,
       Recover, GlobalTimeout, AdvanceUngated, AcceptApproval, RejectApproval,
       RejectChecklist, AcceptMilestone, ViolateOutput, StoreBlob, EnterGate,
       Publish, AdvanceApproved, AdvancePlain, TripApprovalLimit,
       TripMaxIterations, TripRepetitiveLoop, LoopBack, StayRejected,
       AdvanceMacro, Complete, RecordArtifact, Sign, Expire, Tamper, Crash
  <2>2. pc' \notin {"accepting", "completing"} \/ (pc' = pc /\ inflight' = inflight)
    BY <1>4, SettledPlace DEF Next, Submission, Continuation, Environment,
       StartSession, StartAborted, Recover, GlobalTimeout, AdvanceUngated,
       AcceptApproval, RejectApproval, RejectChecklist, AcceptMilestone,
       ViolateOutput, StoreBlob, EnterGate, Publish, AdvanceApproved,
       AdvancePlain, TripApprovalLimit, TripMaxIterations, TripRepetitiveLoop,
       Trip, LoopBack, StayRejected, AdvanceMacro, Complete, RecordArtifact,
       Sign, Expire, Tamper, Crash, Attempt, Arrived, Settled
  <2> QED BY <2>1, <2>2 DEF DeliveryInv
<1> QED BY <1>1, <1>2, <1>3, <1>4

LEMMA DeliveryInvNext ==
    TypeInv /\ ReplayInv /\ DeliveryInv /\ [Next]_vars => DeliveryInv'
<1> SUFFICES ASSUME TypeInv, ReplayInv, DeliveryInv, [Next]_vars
             PROVE  DeliveryInv'
  OBVIOUS
<1>1. ASSUME "unsynced" \notin Faults PROVE DeliverableCommitted'
  <2>1. CASE Terminal(durable)
    BY <1>1, <2>1, EndedRests DEF DeliveryInv, DeliverableCommitted, Terminal
  <2>2. CASE ~Terminal(durable)
    <3>1. durable = None \/ (Held(durable) /\ durable.status # "Completed")
      BY <2>2 DEF Terminal, TypeInv, SessionInv
    <3>2. CASE Complete
      <4>1. pc = "completing" /\ inflight = deliverable /\ deliverable' = deliverable
        BY <3>2 DEF Complete, DeliveryInv
      <4>2. \/ committed' = inflight
            \/ durable' = durable
        BY <3>2 DEF Complete, Attempt, AppendFails, Log, SessionCompleted
      <4> QED BY <3>1, <4>1, <4>2 DEF DeliverableCommitted, Terminal
    <3>3. CASE PassingStep
      BY <3>1, <3>3, PassingLeavesOpen
         DEF PassingStep, DeliverableCommitted, Terminal
    <3>4. CASE UNCHANGED vars
      BY <3>1, <3>4 DEF vars, DeliverableCommitted, Terminal
    <3> QED BY <3>2, <3>3, <3>4, StepPasses
  <2> QED BY <2>1, <2>2
<1> QED BY <1>1, HandsOver DEF DeliveryInv

\* The digest in SessionCompleted is that of the deliverable on disk, however
\* often a submission wrote one and failed to record it.
THEOREM Delivered == "unsynced" \notin Faults /\ Spec => []DeliverableCommitted
<1>1. Init => DeliveryInv
  BY DEF Init, DeliveryInv, DeliverableCommitted, Terminal
<1>2. Spec => []DeliveryInv
  BY <1>1, DeliveryInvNext, ReplayInvAlways, PTL DEF Spec
<1>3. CASE "unsynced" \in Faults
  BY <1>3
<1>4. CASE "unsynced" \notin Faults
  <2>1. DeliveryInv => DeliverableCommitted
    BY <1>4 DEF DeliveryInv
  <2> QED BY <1>2, <2>1, PTL
<1> QED BY <1>3, <1>4

=============================================================================
