----------------------------- MODULE AuditProofs -----------------------------
(***************************************************************************)
(* Transcripts: what can be read off the ledger alone, for every valid     *)
(* pipeline, every setting, and any number of crashes and lost appends.    *)
(***************************************************************************)
EXTENDS Audit, MerkleProofs, OrderProofs, SequenceTheorems

-----------------------------------------------------------------------------
(* What a transcript replays to.  The function of Transcript is the one    *)
(* solution of its equation, and an append extends it.                     *)

Replays(f, l, m) ==
    f = [n \in 0..m |-> IF n = 0 THEN None ELSE Apply(f[n - 1], l[n])]

Replay(l) == CHOOSE f : Replays(f, l, Len(l))

LEMMA ReplaysFrom ==
    ASSUME NEW l, NEW m \in Nat
    PROVE  /\ \E f : Replays(f, l, m)
           /\ \A f, g : Replays(f, l, m) /\ Replays(g, l, m) => f = g
<1> DEFINE Ok(k) == /\ \E f : Replays(f, l, k)
                    /\ \A f, g : Replays(f, l, k) /\ Replays(g, l, k) => f = g
           Bad == {k \in Nat : ~Ok(k)}
<1>1. SUFFICES ASSUME Bad # {} PROVE FALSE
  BY DEF Replays
<1>2. PICK k \in Bad : \A j \in Bad : k <= j
  BY <1>1, LeastIsLeast
<1>3. CASE k = 0
  <2>1. Replays([n \in 0..0 |-> None], l, 0)
    BY DEF Replays
  <2>2. \A f : Replays(f, l, 0) => f = [n \in 0..0 |-> None]
    BY DEF Replays
  <2> QED BY <1>2, <1>3, <2>1, <2>2
<1>4. CASE k # 0
  <2>1. k - 1 \in Nat /\ ~ (k <= k - 1) /\ k \in Nat
    BY <1>4
  <2>2. Ok(k - 1)
    BY <1>2, <2>1
  <2>3. PICK f : Replays(f, l, k - 1)
    BY <2>2
  <2> DEFINE g == [n \in 0..k |-> IF n = k THEN Apply(f[k - 1], l[k]) ELSE f[n]]
  <2>4. \A n \in 0..(k - 1) : g[n] = f[n]
    BY <2>1
  <2>5. g = [n \in 0..k |-> IF n = 0 THEN None ELSE Apply(g[n - 1], l[n])]
    <3> SUFFICES ASSUME NEW n \in 0..k
                 PROVE  g[n] = IF n = 0 THEN None ELSE Apply(g[n - 1], l[n])
      OBVIOUS
    <3>1. CASE n = k
      BY <2>1, <2>4, <3>1, <1>4
    <3>2. CASE n # k
      <4>1. n \in 0..(k - 1) /\ (n # 0 => n - 1 \in 0..(k - 1))
        BY <2>1, <3>2
      <4>2. f[n] = IF n = 0 THEN None ELSE Apply(f[n - 1], l[n])
        BY <2>3, <4>1 DEF Replays
      <4> HIDE DEF g
      <4> QED BY <2>4, <4>1, <4>2
    <3> QED BY <3>1, <3>2
  <2>6. Replays(g, l, k)
    BY <2>5 DEF Replays
  <2>7. ASSUME NEW h, Replays(h, l, k) PROVE h = g
    <3> DEFINE r == [n \in 0..(k - 1) |-> h[n]]
    <3>1. \A n \in 0..k : h[n] = IF n = 0 THEN None ELSE Apply(h[n - 1], l[n])
      BY <2>7 DEF Replays
    <3>2. r = [n \in 0..(k - 1) |-> IF n = 0 THEN None ELSE Apply(r[n - 1], l[n])]
      <4> SUFFICES ASSUME NEW n \in 0..(k - 1)
                   PROVE  h[n] = IF n = 0 THEN None ELSE Apply(r[n - 1], l[n])
        OBVIOUS
      <4>1. n \in 0..k /\ (n # 0 => n - 1 \in 0..(k - 1))
        BY <2>1
      <4> QED BY <3>1, <4>1
    <3>r. Replays(r, l, k - 1)
      BY <3>2 DEF Replays
    <3>3. r = f
      <4> HIDE DEF r
      <4> QED BY <2>2, <2>3, <3>r
    <3>4. h[k] = Apply(h[k - 1], l[k]) /\ h[k - 1] = r[k - 1]
      BY <2>1, <3>1, <1>4
    <3>5. \A n \in 0..k : h[n] = g[n]
      <4> SUFFICES ASSUME NEW n \in 0..k PROVE h[n] = g[n]
        OBVIOUS
      <4>1. CASE n = k
        BY <3>3, <3>4, <4>1, <2>1
      <4>2. CASE n # k
        <5>1. n \in 0..(k - 1)
          BY <4>2, <2>1
        <5> QED BY <3>3, <4>2, <5>1
      <4> QED BY <4>1, <4>2
    <3>6. h = [n \in 0..k |-> h[n]] /\ g = [n \in 0..k |-> g[n]]
      BY <2>7 DEF Replays
    <3> HIDE DEF g
    <3> QED BY <3>5, <3>6
  <2>8. Ok(k)
    BY <2>6, <2>7
  <2> QED BY <1>2, <2>8
<1> QED BY <1>3, <1>4

LEMMA ReplayDefined ==
    ASSUME NEW l, IsLog(l)
    PROVE  /\ Replay(l)[0] = None
           /\ \A n \in 1..Len(l) : Replay(l)[n] = Apply(Replay(l)[n - 1], l[n])
<1>1. Len(l) \in Nat
  BY LogShape
<1>2. Replays(Replay(l), l, Len(l))
  BY <1>1, ReplaysFrom DEF Replay
<1> DEFINE f == Replay(l)
<1> HIDE DEF f
<1>3. f = [n \in 0..Len(l) |-> IF n = 0 THEN None ELSE Apply(f[n - 1], l[n])]
  BY <1>2 DEF f, Replays
<1>4. \A n \in 0..Len(l) : f[n] = IF n = 0 THEN None ELSE Apply(f[n - 1], l[n])
  BY <1>3
<1> QED BY <1>1, <1>4 DEF f

LEMMA ReplayAppended ==
    ASSUME NEW l, IsLog(l), NEW e
    PROVE  /\ \A n \in 0..Len(l) : Replay(Append(l, e))[n] = Replay(l)[n]
           /\ Replay(Append(l, e))[Len(l) + 1] = Apply(Replay(l)[Len(l)], e)
<1> DEFINE k == Append(l, e)
           f == Replay(k)
           r == [n \in 0..Len(l) |-> f[n]]
<1>1. /\ Len(l) \in Nat /\ IsLog(k) /\ Len(k) = Len(l) + 1
      /\ \A i \in 1..Len(l) : k[i] = l[i]
      /\ k[Len(l) + 1] = e
  BY LogShape, LogAppended
<1>2. f[0] = None /\ \A n \in 1..(Len(l) + 1) : f[n] = Apply(f[n - 1], k[n])
  BY <1>1, ReplayDefined
<1> HIDE DEF f, k
<1>3. r = [n \in 0..Len(l) |-> IF n = 0 THEN None ELSE Apply(r[n - 1], l[n])]
  <2> SUFFICES ASSUME NEW n \in 0..Len(l)
               PROVE  f[n] = IF n = 0 THEN None ELSE Apply(r[n - 1], l[n])
    OBVIOUS
  <2>1. CASE n = 0
    BY <2>1, <1>2
  <2>2. CASE n # 0
    <3>1. n \in 1..Len(l) /\ n \in 1..(Len(l) + 1) /\ n - 1 \in 0..Len(l)
      BY <1>1, <2>2
    <3> QED BY <1>1, <1>2, <2>2, <3>1
  <2> QED BY <2>1, <2>2
<1>4. Replays(Replay(l), l, Len(l))
  BY <1>1, ReplaysFrom DEF Replay
<1>r. Replays(r, l, Len(l))
  BY <1>3 DEF Replays
<1>5. r = Replay(l)
  <2> HIDE DEF r
  <2> QED BY <1>1, <1>4, <1>r, ReplaysFrom
<1>6. \A n \in 0..Len(l) : f[n] = Replay(l)[n]
  BY <1>5
<1>7. f[Len(l) + 1] = Apply(f[Len(l)], e)
  BY <1>1, <1>2
<1> QED BY <1>1, <1>6, <1>7 DEF f, k

LEMMA TranscriptReplayed == Replayed = Replay(ledger)
BY DEF Replayed, Replay, Replays


-----------------------------------------------------------------------------
(* What a handler appends, and why it may.                                 *)

\* The fields of the session d after the event e.
LEMMA ApplyReads ==
    ASSUME NEW d, Held(d), NEW e, EventOK(e), e.type # "SessionStarted"
    PROVE  LET r == Apply(d, e)
           IN  /\ r # None
               /\ r.status = IF e.type = "CircuitBreakerTriggered" THEN "Failed"
                             ELSE IF e.type = "SessionCompleted" THEN "Completed"
                             ELSE d.status
               /\ r.position = IF e.type \in {"SubStateAdvanced", "MacroLoopedBack"}
                                 THEN IF d.position = None THEN None
                                      ELSE At(d.position.macro, e.to)
                               ELSE IF e.type = "MacroAdvanced"
                                 THEN At(e.to, FirstEnabled(e.to))
                               ELSE IF e.type = "SessionCompleted" THEN None
                               ELSE d.position
               /\ r.macro_iteration = IF e.type = "MilestoneRejected" THEN e.iteration
                                      ELSE IF e.type = "MacroAdvanced" THEN 0
                                      ELSE d.macro_iteration
               /\ r.approval_rejections = IF e.type = "ApprovalChallengeIssued" THEN 0
                                          ELSE IF e.type = "ApprovalRejected"
                                            THEN d.approval_rejections + 1
                                          ELSE d.approval_rejections
               /\ r.pending_approval = IF e.type = "ApprovalChallengeIssued"
                                         THEN e.challenge
                                       ELSE IF e.type \in {"SubStateAdvanced", "MacroLoopedBack",
                                                           "MacroAdvanced", "ApprovalAccepted"}
                                         THEN None
                                       ELSE d.pending_approval
               /\ r.artifacts = IF e.type = "ArtifactStored"
                                  THEN d.artifacts \cup {e.artifact}
                                ELSE d.artifacts
<1> DEFINE r == Apply(d, e)
<1>1. d \in SessionState /\ d # None
  BY HeldThere DEF Held
<1>2. CASE e.type = "MilestoneRejected"
  <2> DEFINE n == IF d.identical_rejections > 0 /\ e.keys = d.last_keys
                    THEN d.identical_rejections + 1 ELSE 1
  <2>1. r = [d EXCEPT !.last_keys = e.keys, !.identical_rejections = n,
                      !.macro_iteration = e.iteration]
    BY <1>1, <1>2 DEF Apply, RejectionReplayed, SessionState
  <2>2. Held(r)
    <3>1. r = RejectionReplayed(d, e) /\ e.keys \subseteq Keys /\ e.iteration \in Nat
      BY <1>1, <1>2 DEF Apply, EventOK
    <3> HIDE DEF r
    <3> QED BY <3>1, RejectionReplayedHeld
  <2>3. r # None
    BY <2>2, HeldThere
  <2> HIDE DEF n, r
  <2>4. /\ r.status = d.status /\ r.position = d.position
        /\ r.macro_iteration = e.iteration
        /\ r.approval_rejections = d.approval_rejections
        /\ r.pending_approval = d.pending_approval /\ r.artifacts = d.artifacts
    BY <1>1, <2>1 DEF SessionState
  <2> QED BY <1>2, <2>3, <2>4 DEF r
<1>3. CASE e.type \in {"SubStateAdvanced", "MacroLoopedBack"}
  <2> DEFINE p == IF d.position = None THEN None ELSE At(d.position.macro, e.to)
  <2>1. r = [d EXCEPT !.position = p, !.pending_approval = None]
    BY <1>1, <1>3 DEF Apply, SessionState
  <2>2. p \in Positions \cup {None}
    BY <1>1, <1>3 DEF At, Positions, SessionState, EventOK
  <2> HIDE DEF p, r
  <2>3. r \in SessionState
    BY <1>1, <2>1, <2>2 DEF SessionState
  <2>4. r # None
    BY <2>3, NoneAssumption
  <2>5. /\ r.status = d.status /\ r.position = p
        /\ r.macro_iteration = d.macro_iteration
        /\ r.approval_rejections = d.approval_rejections
        /\ r.pending_approval = None /\ r.artifacts = d.artifacts
    BY <1>1, <2>1 DEF SessionState
  <2> QED BY <1>3, <2>4, <2>5 DEF r, p
<1>4. CASE e.type = "MacroAdvanced"
  <2> DEFINE p == At(e.to, FirstEnabled(e.to))
  <2>1. r = MacroEntered(d, e.to) /\ e.to \in Macros
    BY <1>1, <1>4 DEF Apply, EventOK
  <2>2. r = [d EXCEPT !.position = p, !.macro_iteration = 0, !.identical_rejections = 0,
                      !.last_keys = {}, !.pending_approval = None]
    BY <2>1 DEF MacroEntered
  <2>3. r # None
    BY <2>1, MacroEnteredHeld, HeldThere
  <2> HIDE DEF p, r
  <2>4. /\ r.status = d.status /\ r.position = p /\ r.macro_iteration = 0
        /\ r.approval_rejections = d.approval_rejections
        /\ r.pending_approval = None /\ r.artifacts = d.artifacts
    BY <1>1, <2>2 DEF SessionState
  <2> QED BY <1>4, <2>3, <2>4 DEF r, p
<1>5. CASE e.type \in {"CircuitBreakerTriggered", "SessionCompleted", "ApprovalAccepted",
                       "ApprovalRejected", "MilestoneAccepted", "OutputContractViolated"}
  <2>1. CASE e.type = "CircuitBreakerTriggered"
    <3>1. r = [d EXCEPT !.status = "Failed"]
      BY <1>1, <2>1 DEF Apply
    <3>2. r \in SessionState
      BY <1>1, <3>1 DEF SessionState, Status
    <3> QED BY <1>1, <2>1, <3>1, <3>2, NoneAssumption DEF SessionState
  <2>2. CASE e.type = "SessionCompleted"
    <3>1. r = [d EXCEPT !.status = "Completed", !.position = None]
      BY <1>1, <2>2 DEF Apply
    <3>2. r \in SessionState
      BY <1>1, <3>1 DEF SessionState, Status
    <3> QED BY <1>1, <2>2, <3>1, <3>2, NoneAssumption DEF SessionState
  <2>3. CASE e.type = "ApprovalAccepted"
    <3>1. r = [d EXCEPT !.pending_approval = None]
      BY <1>1, <2>3 DEF Apply
    <3>2. r \in SessionState
      BY <1>1, <3>1 DEF SessionState
    <3> QED BY <1>1, <2>3, <3>1, <3>2, NoneAssumption DEF SessionState
  <2>4. CASE e.type = "ApprovalRejected"
    <3>1. r = [d EXCEPT !.approval_rejections = @ + 1]
      BY <1>1, <2>4 DEF Apply
    <3>2. r \in SessionState
      BY <1>1, <3>1 DEF SessionState
    <3> QED BY <1>1, <2>4, <3>1, <3>2, NoneAssumption DEF SessionState
  <2>5. CASE e.type \in {"MilestoneAccepted", "OutputContractViolated"}
    <3>1. r = d
      BY <1>1, <2>5 DEF Apply
    <3> QED BY <1>1, <2>5, <3>1
  <2> QED BY <1>5, <2>1, <2>2, <2>3, <2>4, <2>5
<1>6. CASE e.type = "ApprovalChallengeIssued"
  <2> DEFINE c == e.challenge
  <2>1. c \in Challenge /\ r = [d EXCEPT !.pending_approval = c, !.approval_rejections = 0]
    BY <1>1, <1>6 DEF Apply, EventOK
  <2> HIDE DEF c
  <2>2. c \in Challenge \cup {None} /\ 0 \in Nat
    BY <2>1
  <2>3. r \in SessionState
    BY <1>1, <2>1, <2>2 DEF SessionState
  <2>4. r # None
    BY <2>3, NoneAssumption
  <2> HIDE DEF r
  <2>5. /\ r.status = d.status /\ r.position = d.position
        /\ r.macro_iteration = d.macro_iteration /\ r.approval_rejections = 0
        /\ r.pending_approval = c /\ r.artifacts = d.artifacts
    BY <1>1, <2>1 DEF SessionState
  <2> QED BY <1>6, <2>4, <2>5 DEF r, c
<1>7. CASE e.type = "ArtifactStored"
  <2>1. r = [d EXCEPT !.artifacts = @ \cup {e.artifact}] /\ e.artifact \in Artifacts
    BY <1>1, <1>7 DEF Apply, ArtifactReplayed, EventOK
  <2>2. r \in SessionState
    BY <1>1, <2>1 DEF SessionState
  <2>3. r # None
    BY <2>2, NoneAssumption
  <2> QED BY <1>1, <1>7, <2>1, <2>3 DEF SessionState
<1> QED BY <1>2, <1>3, <1>4, <1>5, <1>6, <1>7 DEF EventOK

\* Event n of l is of this type.
Has(l, n, type) == n \in 1..Len(l) /\ l[n].type = type

\* The session that the ledger replays to is on its way.
UnderWay(d) ==
    /\ d # None /\ Held(d) /\ d.status = "Active"
    /\ d.position # None /\ OnStep(d.position)

\* Why the event e may stand behind the first n of l, which replay to d: at a
\* checklist, at a gate, or after the event that justifies it.
Reason(e, l, n, d) ==
    /\ EventOK(e)
    /\ IF e.type = "SessionStarted" THEN d = None ELSE UnderWay(d)
    /\ e.type \in {"MilestoneRejected", "MilestoneAccepted", "MacroAdvanced",
                   "MacroLoopedBack", "SessionCompleted", "OutputContractViolated"} =>
         KindAt(d.position) = "checklist"
    /\ e.type \in {"ApprovalChallengeIssued", "ApprovalAccepted", "ApprovalRejected"} =>
         KindAt(d.position) = "human_approval"
    /\ e.type = "MilestoneRejected" => e.iteration > d.macro_iteration
    /\ e.type = "SubStateAdvanced" /\ KindAt(d.position) = "human_approval" =>
         Has(l, n, "ApprovalAccepted")
    /\ e.type \in {"MacroAdvanced", "SessionCompleted"} => Has(l, n, "MilestoneAccepted")
    /\ e.type = "MacroAdvanced" => e.to = d.position.macro + 1
    /\ e.type = "SessionCompleted" => IsFinal(d.position.macro)
    /\ e.type = "MacroLoopedBack" => Has(l, n, "MilestoneRejected")
    /\ e.type = "CircuitBreakerTriggered" =>
         \/ e.breaker = "GlobalTimeout"
         \/ e.breaker = "ApprovalRejectionLimit" /\ Has(l, n, "ApprovalRejected")
         \/ e.breaker \in {"MaxIterations", "RepetitiveLoop"} /\ Has(l, n, "MilestoneRejected")
    /\ e.type = "ApprovalChallengeIssued" =>
         At(e.challenge.macro, e.challenge.sub) = d.position

\* What a step does to the transcript.
Grows(e) ==
    /\ Reason(e, ledger, Len(ledger), durable)
    /\ durable' = Apply(durable, e)
    /\ ledger' = Append(ledger, e)

Told ==
    \/ UNCHANGED <<durable, ledger>>
    \/ durable' = None /\ ledger' = <<>>
    \/ \E e : Grows(e)

\* Where a handler stands, the transcript ends with what brought it there.
Brought(location, l) ==
    /\ location = "approved" => Has(l, Len(l), "ApprovalAccepted")
    /\ location = "rejected" => Has(l, Len(l), "MilestoneRejected")
    /\ location \in {"advancing", "completing"} => Has(l, Len(l), "MilestoneAccepted")
    /\ location = "tripping" => Has(l, Len(l), "ApprovalRejected")

LogInv ==
    /\ IsLog(ledger)
    /\ durable = None <=> ledger = <<>>
    /\ Brought(pc, ledger)

LEMMA HasAppended ==
    ASSUME NEW l, IsLog(l), NEW e
    PROVE  Has(Append(l, e), Len(Append(l, e)), e.type)
BY LogShape, LogAppended DEF Has

\* An append tells the transcript what the handler did, or nothing at all.
LEMMA AttemptTells ==
    ASSUME KeepLedger, "unsynced" \notin Faults, LogInv,
           NEW e, NEW before, NEW after, NEW next, Attempt(e, before, after, next),
           Reason(e, ledger, Len(ledger), durable), e.type # "SessionStarted",
           next # "idle" => Brought(next, Append(ledger, e))
    PROVE  Told /\ LogInv'
<1> DEFINE l == Append(ledger, e)
           d == Apply(durable, e)
<1>1. IsLog(l) /\ Has(l, Len(l), e.type)
  BY LogAppended, HasAppended DEF LogInv
<1>2. d # None
  BY ApplyReads DEF Reason, UnderWay
<1>3. l # <<>>
  BY <1>1, EmptyLog DEF Has
<1>4. CASE Log(e) /\ pc' = next
  <2>1. ledger' = l /\ durable' = d
    BY <1>4 DEF Log
  <2>2. Brought(pc', l)
    BY <1>4 DEF Brought
  <2>3. LogInv'
    BY <1>1, <1>2, <1>3, <2>1, <2>2 DEF LogInv
  <2> QED BY <2>1, <2>3 DEF Told, Grows
<1>5. CASE AppendFails(e) /\ pc' = "idle"
  <2>1. UNCHANGED <<durable, ledger>>
    BY <1>5 DEF AppendFails, Fault
  <2> QED BY <1>5, <2>1 DEF Told, LogInv, Brought
<1> QED BY <1>4, <1>5 DEF Attempt

\* The session of a handler in progress, or of a client's call, and its ledger.
LEMMA Footing ==
    ASSUME Sound, pc # "idle" \/ Active
    PROVE  /\ UnderWay(durable) /\ session # None /\ Held(session)
           /\ durable.position = session.position
           /\ session.position.macro \in Macros /\ session.position.sub \in Nat
           /\ durable.macro_iteration <= session.macro_iteration
           /\ durable.macro_iteration \in Nat /\ session.macro_iteration \in Nat
           /\ Fits(session, pc) /\ PlaceInv /\ HandlerInv
<1>1. /\ Held(session) /\ session # None /\ session.status = "Active"
      /\ session.position # None /\ OnStep(session.position)
      /\ session.position.macro \in Macros /\ session.position.sub \in Nat
      /\ Fits(session, pc) /\ Stands(session, durable)
  BY AtWork
<1>2. durable # None /\ Held(durable) /\ PlaceInv /\ HandlerInv
  BY <1>1 DEF Stands, Sound, TypeInv, SessionInv, ReplayInv
<1>3. session.macro_iteration >= durable.macro_iteration
      /\ durable.macro_iteration \in Nat /\ session.macro_iteration \in Nat
  BY <1>1, <1>2 DEF Stands, Held, SessionState
<1> QED BY <1>1, <1>2, <1>3 DEF Stands, UnderWay

LEMMA TripTells ==
    ASSUME KeepLedger, Sound, LogInv, pc # "idle" \/ Active, NEW breaker, Trip(breaker),
           \/ breaker = "GlobalTimeout"
           \/ breaker = "ApprovalRejectionLimit" /\ pc = "tripping"
           \/ breaker \in {"MaxIterations", "RepetitiveLoop"} /\ pc = "rejected"
    PROVE  Told /\ LogInv'
<1> DEFINE e == CircuitBreakerTriggered(breaker)
<1>1. Attempt(e, session, Failed(session), "idle")
  BY DEF Trip
<1>2. e.type = "CircuitBreakerTriggered" /\ e.breaker = breaker
  BY DEF CircuitBreakerTriggered
<1>3. UnderWay(durable)
  BY Footing
<1> HIDE DEF e
<1>4. Reason(e, ledger, Len(ledger), durable)
  BY <1>2, <1>3 DEF Reason, EventOK, LogInv, Brought
<1>5. Brought("idle", Append(ledger, e))
  BY DEF Brought
<1> QED BY <1>1, <1>2, <1>4, <1>5, AttemptTells DEF Sound

LEMMA PlainTells ==
    ASSUME KeepLedger, Sound, LogInv, pc # "idle" \/ Active, AdvancePlain,
           KindAt(session.position) = "human_approval" => pc = "approved"
    PROVE  Told /\ LogInv'
<1> DEFINE p == session.position
           j == NextEnabled(p.macro, p.sub)
           e == SubStateAdvanced(p.sub, j)
           next == Arrived(At(p.macro, j))
           after == Repositioned(session, At(p.macro, j))
<1>1. /\ UnderWay(durable) /\ durable.position = p
      /\ p.macro \in Macros /\ p.sub \in Nat
  BY Footing
<1>2. Attempt(e, session, after, next)
  BY DEF AdvancePlain, At
<1>3. e.type = "SubStateAdvanced" /\ e.to \in Nat
  <2>1. j \in Nat
    BY <1>1, NextEnabledTyped
  <2> HIDE DEF j
  <2> QED BY <2>1 DEF SubStateAdvanced
<1>4. next \in {"entering", "idle", "publishing"}
  BY DEF Arrived, Settled
<1> HIDE DEF e, after, next
<1>5. Reason(e, ledger, Len(ledger), durable)
  BY <1>1, <1>3 DEF Reason, EventOK, LogInv, Brought
<1>6. Brought(next, Append(ledger, e))
  BY <1>4 DEF Brought
<1> QED BY <1>2, <1>3, <1>5, <1>6, AttemptTells DEF Sound

LEMMA ApprovalTells ==
    ASSUME KeepLedger, Sound, LogInv, AcceptApproval \/ RejectApproval
    PROVE  Told /\ LogInv'
<1>1. Active /\ Submitted({"human_approval"}) /\ pc = "idle"
  BY DEF AcceptApproval, RejectApproval, Submitted, Active
<1>2. UnderWay(durable) /\ durable.position = session.position
  BY <1>1, Footing
<1>3. KindAt(durable.position) = "human_approval"
  BY <1>1, <1>2 DEF Submitted, KindAt
<1>l. IsLog(ledger)
  BY DEF LogInv
<1>4. CASE AcceptApproval
  <2>1. PICK sig \in signed :
          Verifies(sig) /\ Attempt(ApprovalAccepted(sig), session, session, "approved")
    BY <1>4 DEF AcceptApproval
  <2> DEFINE e == ApprovalAccepted(sig)
  <2>2. e.type = "ApprovalAccepted"
    BY DEF ApprovalAccepted
  <2>3. Attempt(e, session, session, "approved")
    BY <2>1
  <2> HIDE DEF e
  <2>4. Reason(e, ledger, Len(ledger), durable)
    BY <1>2, <1>3, <2>2 DEF Reason, EventOK
  <2>5. Brought("approved", Append(ledger, e))
    BY <1>l, <2>2, HasAppended DEF Brought
  <2> QED BY <2>2, <2>3, <2>4, <2>5, AttemptTells DEF Sound
<1>5. CASE RejectApproval
  <2> DEFINE e == ApprovalRejected
             counted == Refused(session)
  <2>1. PICK next \in {"tripping", "idle"} : Attempt(e, session, counted, next)
    BY <1>5 DEF RejectApproval
  <2>2. e.type = "ApprovalRejected"
    BY DEF ApprovalRejected
  <2> HIDE DEF e, counted
  <2>3. Reason(e, ledger, Len(ledger), durable)
    BY <1>2, <1>3, <2>2 DEF Reason, EventOK
  <2>4. Brought(next, Append(ledger, e))
    BY <1>l, <2>2, HasAppended DEF Brought
  <2> QED BY <2>1, <2>2, <2>3, <2>4, AttemptTells DEF Sound
<1> QED BY <1>4, <1>5

LEMMA RejectTells ==
    ASSUME KeepLedger, Sound, LogInv, RejectChecklist PROVE Told /\ LogInv'
<1>1. Active /\ Submitted({"checklist"})
  BY DEF RejectChecklist, Submitted
<1>2. /\ UnderWay(durable) /\ session # None /\ Held(session)
      /\ durable.position = session.position
      /\ durable.macro_iteration <= session.macro_iteration
      /\ durable.macro_iteration \in Nat /\ session.macro_iteration \in Nat
  BY <1>1, Footing
<1>3. PICK evidence \in Evidence :
        LET counted == RejectionCounted(session, CarriedKeys(evidence))
        IN  Attempt(MilestoneRejected(CarriedKeys(evidence), counted.macro_iteration),
                    counted, counted, "rejected")
  BY DEF RejectChecklist
<1> DEFINE keys == CarriedKeys(evidence)
           counted == RejectionCounted(session, keys)
           e == MilestoneRejected(keys, counted.macro_iteration)
<1>4. keys \in SUBSET Keys
  BY DEF CarriedKeys
<1>5. Attempt(e, counted, counted, "rejected")
  BY <1>3
<1> HIDE DEF keys
<1>6. counted.macro_iteration = session.macro_iteration + 1
  BY <1>2 DEF RejectionCounted, Held, SessionState
<1> HIDE DEF counted
<1>7. e.type = "MilestoneRejected" /\ e.keys \subseteq Keys
      /\ e.iteration = session.macro_iteration + 1
  BY <1>4, <1>6 DEF MilestoneRejected
<1> HIDE DEF e
<1>8. Reason(e, ledger, Len(ledger), durable)
  <2>1. KindAt(durable.position) = "checklist"
    BY <1>1, <1>2 DEF Submitted, KindAt
  <2>2. e.iteration \in Nat /\ e.iteration > durable.macro_iteration
    BY <1>2, <1>7
  <2> QED BY <1>2, <1>7, <2>1, <2>2 DEF Reason, EventOK
<1>9. Brought("rejected", Append(ledger, e))
  BY <1>7, HasAppended DEF Brought, LogInv
<1> QED BY <1>5, <1>7, <1>8, <1>9, AttemptTells DEF Sound

LEMMA LoopTells ==
    ASSUME KeepLedger, Sound, LogInv, LoopBack PROVE Told /\ LogInv'
<1> DEFINE p == session.position
           k == FirstExecute(p.macro)
           e == MacroLoopedBack(p.sub, k)
           after == Looped(session, At(p.macro, k))
<1>1. pc = "rejected"
  BY DEF LoopBack
<1>2. /\ UnderWay(durable) /\ session # None /\ Held(session)
      /\ durable.position = p /\ p.macro \in Macros /\ PlaceInv
  BY <1>1, Footing
<1>3. Attempt(e, session, after, "idle")
  BY DEF LoopBack, At
<1>4. e.type = "MacroLoopedBack" /\ e.to \in Nat
  <2>1. k \in Nat
    BY <1>2, FirstExecuteIsExecute, MacrosTyped DEF LoopBack, LoopEnabled
  <2> HIDE DEF k
  <2> QED BY <2>1 DEF MacroLoopedBack
<1> HIDE DEF e, after
<1>5. Reason(e, ledger, Len(ledger), durable)
  BY <1>1, <1>2, <1>4 DEF Reason, EventOK, LogInv, Brought, PlaceInv, KindAt
<1>6. Brought("idle", Append(ledger, e))
  BY DEF Brought
<1> QED BY <1>3, <1>4, <1>5, <1>6, AttemptTells DEF Sound

\* Events that a checklist with every criterion present leads to.
LEMMA AcceptTells ==
    ASSUME KeepLedger, Sound, LogInv, pc # "idle" \/ Active,
           KindAt(session.position) = "checklist",
           NEW e, NEW next, Attempt(e, session, session, next),
           \/ e = MilestoneAccepted /\ next \in {"advancing", "completing"}
           \/ e = OutputContractViolated /\ next = "idle"
    PROVE  Told /\ LogInv'
<1>1. /\ UnderWay(durable) /\ session # None /\ durable.position = session.position
  BY Footing
<1>2. e.type \in {"MilestoneAccepted", "OutputContractViolated"}
      /\ (next # "idle" => e.type = "MilestoneAccepted")
  BY DEF MilestoneAccepted, OutputContractViolated
<1>3. Reason(e, ledger, Len(ledger), durable)
  BY <1>1, <1>2 DEF Reason, EventOK
<1>4. next # "idle" => Brought(next, Append(ledger, e))
  BY <1>2, HasAppended DEF Brought, LogInv
<1> QED BY <1>2, <1>3, <1>4, AttemptTells DEF Sound

LEMMA MacroTells ==
    ASSUME KeepLedger, Sound, LogInv, AdvanceMacro PROVE Told /\ LogInv'
<1> DEFINE m == session.position.macro
           next == At(m + 1, FirstEnabled(m + 1))
           e == MacroAdvanced(m, m + 1)
           after == MacroReset(Repositioned(session, next))
<1>1. pc = "advancing"
  BY DEF AdvanceMacro
<1>2. /\ UnderWay(durable) /\ session # None /\ Held(session)
      /\ durable.position = session.position /\ m \in Macros /\ Fits(session, pc)
  BY <1>1, Footing
<1>3. Attempt(e, session, after, Arrived(next))
  BY DEF AdvanceMacro
<1>4. m + 1 \in Macros
  BY <1>1, <1>2, NextMacro DEF Sound, TypeInv, SessionInv
<1>5. e.type = "MacroAdvanced" /\ e.to = m + 1
  BY DEF MacroAdvanced
<1>6. Arrived(next) \in {"entering", "idle", "publishing"}
  BY DEF Arrived, Settled
<1> HIDE DEF e, after, next
<1>7. Reason(e, ledger, Len(ledger), durable)
  BY <1>1, <1>2, <1>4, <1>5 DEF Reason, EventOK, LogInv, Brought, Fits
<1>8. Brought(Arrived(next), Append(ledger, e))
  BY <1>6 DEF Brought
<1> QED BY <1>3, <1>5, <1>7, <1>8, AttemptTells DEF Sound

LEMMA EndTells ==
    ASSUME KeepLedger, Sound, LogInv, Complete \/ RecordArtifact PROVE Told /\ LogInv'
<1>1. pc \in {"completing", "storing"}
  BY DEF Complete, RecordArtifact
<1>2. /\ UnderWay(durable) /\ session # None /\ Held(session)
      /\ durable.position = session.position /\ Fits(session, pc) /\ HandlerInv
  BY <1>1, Footing
<1>3. \A l : Brought("idle", l)
  BY DEF Brought
<1>4. CASE Complete
  <2> DEFINE e == SessionCompleted(inflight)
             after == [session EXCEPT !.status = "Completed", !.position = None]
  <2>1. Attempt(e, session, after, "idle") /\ pc = "completing"
    BY <1>4 DEF Complete
  <2>2. e.type = "SessionCompleted" /\ e.output \in Outputs \cup {None}
    BY <1>2, <2>1 DEF SessionCompleted, HandlerInv
  <2> HIDE DEF e, after
  <2>3. Reason(e, ledger, Len(ledger), durable)
    BY <1>2, <2>1, <2>2 DEF Reason, EventOK, LogInv, Brought, Fits
  <2> QED BY <2>1, <2>2, <2>3, <1>3, AttemptTells DEF Sound
<1>5. CASE RecordArtifact
  <2> DEFINE e == ArtifactStored(inflight)
             after == [session EXCEPT !.artifacts = @ \cup {inflight}]
  <2>1. Attempt(e, session, after, "idle") /\ pc = "storing"
    BY <1>5 DEF RecordArtifact
  <2>2. e.type = "ArtifactStored" /\ e.artifact \in Artifacts
    BY <1>2, <2>1 DEF ArtifactStored, HandlerInv
  <2> HIDE DEF e, after
  <2>3. Reason(e, ledger, Len(ledger), durable)
    BY <1>2, <2>2 DEF Reason, EventOK
  <2> QED BY <2>1, <2>2, <2>3, <1>3, AttemptTells DEF Sound
<1> QED BY <1>4, <1>5

LEMMA AbortTells == StartAborted => Told /\ LogInv'
<1> SUFFICES ASSUME StartAborted PROVE Told /\ LogInv'
  OBVIOUS
<1>1. session' = None /\ durable' = None /\ ledger' = <<>> /\ pc' = "idle"
  BY DEF StartAborted
<1> QED BY <1>1, EmptyLog DEF Told, LogInv, Brought

LEMMA GateTells ==
    ASSUME KeepLedger, Sound, LogInv, EnterGate PROVE Told /\ LogInv'
<1> DEFINE c == IssuedFor(session.position)
           e == ApprovalChallengeIssued(c)
           parked == [session EXCEPT !.pending_approval = c, !.approval_rejections = 0]
<1>1. pc = "entering"
  BY DEF EnterGate
<1>2. /\ UnderWay(durable) /\ session # None /\ Held(session)
      /\ durable.position = session.position /\ PlaceInv
      /\ session.position.macro \in Macros /\ session.position.sub \in Nat
  BY <1>1, Footing
<1>3. c \in Challenge /\ At(c.macro, c.sub) = session.position
  <2>1. minted + 1 \in Nat
    BY DEF Sound, TypeInv, WorldInv
  <2>2. session.position = At(session.position.macro, session.position.sub)
    BY <1>2, StepCounted DEF UnderWay
  <2> QED BY <1>2, <2>1, <2>2 DEF IssuedFor, Challenge, At
<1> HIDE DEF c
<1>4. /\ e.type = "ApprovalChallengeIssued" /\ e.challenge = c
      /\ parked.position = session.position
  BY <1>2 DEF ApprovalChallengeIssued, Held, SessionState
<1>5. \/ Attempt(e, session, parked, Settled)
      \/ StartAborted
  BY <1>4 DEF EnterGate, Attempt, c
<1> HIDE DEF e, parked
<1>6. CASE Attempt(e, session, parked, Settled)
  <2>1. Reason(e, ledger, Len(ledger), durable)
    BY <1>1, <1>2, <1>3, <1>4 DEF Reason, EventOK, PlaceInv, KindAt
  <2>2. Brought(Settled, Append(ledger, e))
    BY DEF Brought, Settled
  <2> QED BY <1>4, <1>6, <2>1, <2>2, AttemptTells DEF Sound
<1> QED BY <1>5, <1>6, AbortTells

LEMMA StartTells ==
    ASSUME KeepLedger, LogInv, StartSession PROVE Told /\ LogInv'
<1> DEFINE e == SessionStarted
<1>1. CASE Log(e) /\ session' = Fresh /\ pc' = Arrived(Fresh.position)
  <2>1. durable = None /\ ledger = <<>>
    BY DEF StartSession, LogInv
  <2>2. e.type = "SessionStarted"
    BY DEF SessionStarted
  <2> HIDE DEF e
  <2>3. durable' = Apply(durable, e) /\ ledger' = Append(ledger, e) /\ durable' = Fresh
    BY <1>1, <2>2 DEF Log, Apply
  <2>4. Reason(e, ledger, Len(ledger), durable)
    BY <2>1, <2>2 DEF Reason, EventOK
  <2>5. Fresh # None /\ pc' \in {"entering", "idle", "publishing"}
    BY <1>1, FreshHeld, HeldThere DEF Arrived, Settled
  <2>6. IsLog(ledger') /\ ledger' # <<>>
    <3>1. IsLog(<<>>) /\ Len(<<>>) = 0
      BY EmptyLog
    <3>2. ledger' = Append(<<>>, e)
      BY <2>1, <2>3
    <3>3. IsLog(Append(<<>>, e)) /\ Len(Append(<<>>, e)) = Len(<<>>) + 1
      BY <3>1, LogAppended
    <3> QED BY <3>1, <3>2, <3>3
  <2> QED BY <1>1, <2>3, <2>4, <2>5, <2>6 DEF Told, Grows, LogInv, Brought
<1> QED BY <1>1, AbortTells DEF StartSession

\* Steps that append nothing.
LEMMA RestTells ==
    ASSUME LogInv, UNCHANGED <<durable, ledger>>,
           pc' \in {pc, "idle", "accepting", "storing"}
    PROVE  Told /\ LogInv'
BY DEF Told, LogInv, Brought

LEMMA StepTells ==
    ASSUME KeepLedger, Sound, LogInv, [Next]_vars PROVE Told /\ LogInv'
<1>1. CASE GlobalTimeout \/ TripApprovalLimit \/ TripMaxIterations \/ TripRepetitiveLoop
  BY <1>1, TripTells DEF GlobalTimeout, TripApprovalLimit, TripMaxIterations,
     TripRepetitiveLoop
<1>2. CASE AdvanceUngated \/ AdvanceApproved
  BY <1>2, PlainTells DEF AdvanceUngated, AdvanceApproved, Submitted, KindAt
<1>3. CASE AcceptApproval \/ RejectApproval
  BY <1>3, ApprovalTells
<1>4. CASE RejectChecklist
  BY <1>4, RejectTells
<1>5. CASE LoopBack
  BY <1>5, LoopTells
<1>6. CASE AcceptMilestone \/ AcceptUncontracted \/ ViolateOutput
  <2>1. Active /\ KindAt(session.position) = "checklist"
    BY <1>6 DEF AcceptMilestone, AcceptUncontracted, ViolateOutput, Completed, Submitted,
       KindAt
  <2> QED BY <1>6, <2>1, AcceptTells DEF AcceptMilestone, AcceptUncontracted, AcceptFinal,
     ViolateOutput
<1>7. CASE AcceptDelivered
  <2>1. pc = "accepting"
    BY <1>7 DEF AcceptDelivered
  <2>2. KindAt(session.position) = "checklist"
    BY <2>1, Footing DEF Fits
  <2> QED BY <1>7, <2>1, <2>2, AcceptTells DEF AcceptDelivered, AcceptFinal
<1>8. CASE AdvanceMacro
  BY <1>8, MacroTells
<1>9. CASE Complete \/ RecordArtifact
  BY <1>9, EndTells
<1>10. CASE EnterGate
  BY <1>10, GateTells
<1>11. CASE StartSession
  BY <1>11, StartTells
<1>12. CASE \/ Publish \/ WriteOutput \/ StoreBlob \/ StayRejected \/ Recover
            \/ Environment \/ UNCHANGED vars
  BY <1>12, RestTells DEF Publish, WriteOutput, StoreBlob, StayRejected, Recover,
     Environment, Sign, Expire, Tamper, Crash, vars
<1> QED BY <1>1, <1>2, <1>3, <1>4, <1>5, <1>6, <1>7, <1>8, <1>9, <1>10, <1>11, <1>12
        DEF Next, Submission, Continuation

-----------------------------------------------------------------------------
(* The inductive invariant of the transcript: it replays to the durable    *)
(* session, and every event in it had its reason.                          *)

Grounded(l) == \A n \in 1..Len(l) : Reason(l[n], l, n - 1, Replay(l)[n - 1])

TranscriptInv ==
    /\ LogInv
    /\ Replay(ledger)[Len(ledger)] = durable
    /\ Grounded(ledger)

\* A reason looks no further than the events it follows.
LEMMA ReasonKept ==
    ASSUME NEW l, IsLog(l), NEW k, IsLog(k), Len(l) <= Len(k),
           \A i \in 1..Len(l) : k[i] = l[i],
           NEW n \in 0..Len(l), NEW e, NEW d, Reason(e, l, n, d)
    PROVE  Reason(e, k, n, d)
<1>1. Len(l) \in Nat /\ Len(k) \in Nat
  BY LogShape
<1>2. \A type : Has(l, n, type) => Has(k, n, type)
  BY <1>1 DEF Has
<1> QED BY <1>2 DEF Reason

LEMMA GroundedAppended ==
    ASSUME NEW l, IsLog(l), Grounded(l), NEW e, Reason(e, l, Len(l), Replay(l)[Len(l)])
    PROVE  Grounded(Append(l, e))
<1> DEFINE k == Append(l, e)
<1>1. /\ Len(l) \in Nat /\ IsLog(k) /\ Len(k) = Len(l) + 1
      /\ \A i \in 1..Len(l) : k[i] = l[i]
      /\ k[Len(l) + 1] = e
  BY LogShape, LogAppended
<1>2. \A n \in 0..Len(l) : Replay(k)[n] = Replay(l)[n]
  BY ReplayAppended
<1> HIDE DEF k
<1>3. SUFFICES ASSUME NEW n \in 1..Len(k)
               PROVE  Reason(k[n], k, n - 1, Replay(k)[n - 1])
  BY DEF Grounded, k
<1>4. n - 1 \in 0..Len(l) /\ Replay(k)[n - 1] = Replay(l)[n - 1]
  BY <1>1, <1>2
<1>5. CASE n = Len(l) + 1
  <2>1. Reason(e, l, n - 1, Replay(k)[n - 1]) /\ k[n] = e
    BY <1>1, <1>4, <1>5
  <2> QED BY <1>1, <1>4, <2>1, ReasonKept
<1>6. CASE n # Len(l) + 1
  <2>1. n \in 1..Len(l)
    BY <1>1, <1>6
  <2>2. Reason(k[n], l, n - 1, Replay(k)[n - 1])
    BY <1>1, <1>4, <2>1 DEF Grounded
  <2> QED BY <1>1, <1>4, <2>2, ReasonKept
<1> QED BY <1>5, <1>6

LEMMA TranscriptInvInit == Init => TranscriptInv
<1> SUFFICES ASSUME Init PROVE TranscriptInv
  OBVIOUS
<1>1. IsLog(<<>>) /\ Len(<<>>) = 0
  BY EmptyLog
<1>2. /\ session = None /\ durable = None /\ ledger = <<>> /\ pc = "idle"
  BY DEF Init
<1>3. LogInv
  BY <1>1, <1>2 DEF LogInv, Brought
<1>4. Replay(<<>>)[0] = None
  BY <1>1, ReplayDefined
<1>5. Replay(ledger)[Len(ledger)] = durable
  BY <1>1, <1>2, <1>4
<1> QED BY <1>1, <1>2, <1>3, <1>5 DEF TranscriptInv, Grounded

LEMMA TranscriptInvNext ==
    ASSUME KeepLedger, Sound, TranscriptInv, [Next]_vars PROVE Told /\ TranscriptInv'
<1>1. Told /\ LogInv'
  BY StepTells DEF TranscriptInv
<1>2. IsLog(ledger)
  BY DEF TranscriptInv, LogInv
<1>3. CASE UNCHANGED <<durable, ledger>>
  BY <1>1, <1>3 DEF TranscriptInv
<1>4. CASE durable' = None /\ ledger' = <<>>
  <2>1. IsLog(<<>>) /\ Len(<<>>) = 0 /\ Replay(<<>>)[0] = None
    BY EmptyLog, ReplayDefined
  <2> QED BY <1>1, <1>4, <2>1 DEF TranscriptInv, Grounded
<1>5. CASE \E e : Grows(e)
  <2>1. PICK e : Grows(e)
    BY <1>5
  <2>2. Reason(e, ledger, Len(ledger), Replay(ledger)[Len(ledger)])
    BY <2>1 DEF Grows, TranscriptInv
  <2>3. Grounded(Append(ledger, e))
    BY <1>2, <2>2, GroundedAppended DEF TranscriptInv
  <2>4. Len(Append(ledger, e)) = Len(ledger) + 1
        /\ Replay(Append(ledger, e))[Len(ledger) + 1] = Apply(Replay(ledger)[Len(ledger)], e)
    BY <1>2, LogAppended, ReplayAppended
  <2> QED BY <1>1, <2>1, <2>3, <2>4 DEF TranscriptInv, Grows
<1> QED BY <1>1, <1>3, <1>4, <1>5 DEF Told

\* Without a transcript there is nothing to read.
LEMMA NoTranscript == ~KeepLedger /\ Spec => [](ledger = <<>>)
<1>1. CASE KeepLedger
  BY <1>1
<1>2. CASE ~KeepLedger
  <2>1. Init => ledger = <<>>
    BY DEF Init
  <2>2. ledger = <<>> /\ [Next]_vars => (ledger = <<>>)'
    <3> SUFFICES ASSUME ledger = <<>>, [Next]_vars PROVE ledger' = <<>>
      OBVIOUS
    <3>1. CASE Environment
      BY <3>1 DEF Environment, Sign, Expire, Tamper, Crash
    <3>2. CASE Submission
      BY <1>2, <3>2 DEF Submission, GlobalTimeout, AdvanceUngated, AdvancePlain,
         AcceptApproval, RejectApproval, RejectChecklist, AcceptMilestone, ViolateOutput,
         WriteOutput, AcceptUncontracted, AcceptFinal, Trip, Attempt, AppendFails, Log
    <3>3. CASE Continuation
      BY <1>2, <3>3 DEF Continuation, EnterGate, Publish, AdvanceApproved, AdvancePlain,
         TripApprovalLimit, TripMaxIterations, TripRepetitiveLoop, LoopBack, StayRejected,
         AdvanceMacro, AcceptDelivered, AcceptFinal, Complete, RecordArtifact, Trip,
         Attempt, AppendFails, Log, StartAborted
    <3>4. CASE StartSession \/ Recover \/ StoreBlob \/ UNCHANGED vars
      BY <1>2, <3>4 DEF StartSession, Recover, StoreBlob, StartAborted, Log, vars
    <3> QED BY <3>1, <3>2, <3>3, <3>4 DEF Next
  <2> QED BY <2>1, <2>2, PTL DEF Spec
<1> QED BY <1>1, <1>2

LEMMA SoundAlways == "unsynced" \notin Faults /\ Spec => []Sound
<1>1. CASE "unsynced" \in Faults
  BY <1>1
<1>2. CASE "unsynced" \notin Faults
  <2>1. TypeInv /\ ReplayInv /\ TypeInv' /\ ReplayInv' /\ PassageInv /\ [Next]_vars
          => PassageInv'
    BY <1>2, StepTurns DEF Sound
  <2>2. TypeInv /\ ReplayInv /\ PassageInv => Sound
    BY <1>2 DEF Sound
  <2> QED BY <2>1, <2>2, PassageInvInit, ReplayInvAlways, PTL DEF Spec
<1> QED BY <1>1, <1>2

LEMMA TranscriptInvAlways ==
    KeepLedger /\ "unsynced" \notin Faults /\ Spec => []TranscriptInv
<1>1. CASE ~KeepLedger
  BY <1>1
<1>2. CASE KeepLedger
  <2>1. Sound /\ TranscriptInv /\ [Next]_vars => TranscriptInv'
    BY <1>2, TranscriptInvNext
  <2> QED BY <1>2, <2>1, TranscriptInvInit, SoundAlways, PTL DEF Spec
<1> QED BY <1>1, <1>2

-----------------------------------------------------------------------------
(* What no fault can harm.  An append that fails after its line was written *)
(* lets the ledger run ahead of the live session, and the reason a handler  *)
(* had for its event need not hold of the session the ledger replays to.    *)
(* Two reasons do all the same: the live count of rejections is never       *)
(* behind the ledger's, and the challenge that a session holds is the one   *)
(* that was issued last.                                                    *)

\* c is the challenge that was issued last in the first n events of l.
Latest(l, n, c) ==
    \E j \in 1..n :
        /\ l[j].type = "ApprovalChallengeIssued" /\ l[j].challenge = c
        /\ \A i \in (j + 1)..n : l[i].type # "ApprovalChallengeIssued"

Sayable(e, l, n, d, sigs) ==
    /\ e.type = "MilestoneRejected" => d # None /\ e.iteration > d.macro_iteration
    /\ e.type = "ApprovalAccepted" => e.challenge \in sigs /\ Latest(l, n, e.challenge)

Says(e) ==
    /\ Sayable(e, ledger, Len(ledger), durable, signed)
    /\ durable' = Apply(durable, e)
    /\ ledger' = Append(ledger, e)

Said ==
    \/ UNCHANGED <<durable, ledger>>
    \/ durable' = None /\ ledger' = <<>>
    \/ \E e : Says(e)

\* A challenge that a session holds is the one that was issued last.  A handler
\* that goes on to a gate holds none yet, so none is left behind when the one
\* it mints reaches the ledger only.
HoldsLatest(s, l) ==
    s # None /\ s.pending_approval # None => Latest(l, Len(l), s.pending_approval)

SayInv ==
    /\ IsLog(ledger)
    /\ session # None => durable # None /\ session.macro_iteration >= durable.macro_iteration
    /\ pc = "entering" => session.pending_approval = None
    /\ HoldsLatest(session, ledger) /\ HoldsLatest(durable, ledger)

\* The memory s is one that an append of e may leave behind.
Suits(s, e) ==
    /\ s # None /\ s.macro_iteration \in Nat
    /\ e.type # "MacroAdvanced" => s.macro_iteration >= session.macro_iteration
    /\ e.type = "MilestoneRejected" => s.macro_iteration >= e.iteration
    /\ s.pending_approval # None =>
         s.pending_approval = IF e.type = "ApprovalChallengeIssued" THEN e.challenge
                              ELSE session.pending_approval

LEMMA LatestKept ==
    ASSUME NEW l, IsLog(l), NEW e, NEW c
    PROVE  LET k == Append(l, e)
           IN  /\ Latest(l, Len(l), c) /\ e.type # "ApprovalChallengeIssued" =>
                    Latest(k, Len(k), c)
               /\ e.type = "ApprovalChallengeIssued" => Latest(k, Len(k), e.challenge)
<1> DEFINE k == Append(l, e)
<1>1. /\ Len(l) \in Nat /\ IsLog(k) /\ Len(k) = Len(l) + 1
      /\ \A i \in 1..Len(l) : k[i] = l[i]
      /\ k[Len(l) + 1] = e
  BY LogShape, LogAppended
<1> HIDE DEF k
<1>2. ASSUME Latest(l, Len(l), c), e.type # "ApprovalChallengeIssued"
      PROVE  Latest(k, Len(k), c)
  <2>1. PICK j \in 1..Len(l) :
          /\ l[j].type = "ApprovalChallengeIssued" /\ l[j].challenge = c
          /\ \A n \in (j + 1)..Len(l) : l[n].type # "ApprovalChallengeIssued"
    BY <1>2 DEF Latest
  <2>2. j \in 1..Len(k) /\ k[j] = l[j]
    BY <1>1
  <2>3. \A n \in (j + 1)..Len(k) : n = Len(l) + 1 \/ n \in (j + 1)..Len(l)
    BY <1>1
  <2>4. \A n \in (j + 1)..Len(l) : n \in 1..Len(l)
    BY <1>1
  <2> QED BY <1>1, <1>2, <2>1, <2>2, <2>3, <2>4 DEF Latest
<1>3. ASSUME e.type = "ApprovalChallengeIssued" PROVE Latest(k, Len(k), e.challenge)
  <2>1. Len(k) \in 1..Len(k) /\ k[Len(k)] = e /\ (Len(k) + 1)..Len(k) = {}
    BY <1>1
  <2> QED BY <1>3, <2>1 DEF Latest
<1> QED BY <1>2, <1>3 DEF k

LEMMA AttemptSays ==
    ASSUME KeepLedger, TypeInv, SayInv, session # None,
           NEW e, EventOK(e), e.type # "SessionStarted",
           e.type = "MilestoneRejected" => e.iteration > session.macro_iteration,
           e.type = "ApprovalAccepted" =>
               e.challenge \in signed /\ e.challenge = session.pending_approval,
           NEW before, Suits(before, e),
           before.macro_iteration >= session.macro_iteration,
           before.pending_approval # None =>
               before.pending_approval = session.pending_approval,
           NEW after, Suits(after, e),
           NEW next, next = "entering" => after.pending_approval = None,
           Attempt(e, before, after, next)
    PROVE  Said /\ SayInv'
<1> DEFINE l == Append(ledger, e)
           d == Apply(durable, e)
<1>1. IsLog(ledger) /\ IsLog(l)
  BY LogAppended DEF SayInv
<1>2. /\ durable # None /\ Held(durable) /\ Held(session)
      /\ session.macro_iteration >= durable.macro_iteration
      /\ session.macro_iteration \in Nat /\ durable.macro_iteration \in Nat
  BY DEF SayInv, TypeInv, SessionInv, Held, SessionState
<1>3. /\ d # None
      /\ d.macro_iteration = IF e.type = "MilestoneRejected" THEN e.iteration
                             ELSE IF e.type = "MacroAdvanced" THEN 0
                             ELSE durable.macro_iteration
      /\ d.pending_approval = IF e.type = "ApprovalChallengeIssued" THEN e.challenge
                              ELSE IF e.type \in {"SubStateAdvanced", "MacroLoopedBack",
                                                  "MacroAdvanced", "ApprovalAccepted"} THEN None
                              ELSE durable.pending_approval
  BY <1>2, ApplyReads
<1>4. \A s : Suits(s, e) => s # None /\ s.macro_iteration >= d.macro_iteration
  <2>1. e.type = "MilestoneRejected" => e.iteration \in Nat
    BY DEF EventOK
  <2> HIDE DEF d
  <2> QED BY <1>2, <1>3, <2>1 DEF Suits
<1>5. HoldsLatest(d, l) /\ \A s : Suits(s, e) => HoldsLatest(s, l)
  <2>1. CASE e.type = "ApprovalChallengeIssued"
    <3>1. Latest(l, Len(l), e.challenge)
      BY <1>1, <2>1, LatestKept
    <3> HIDE DEF l, d
    <3> QED BY <1>3, <2>1, <3>1 DEF HoldsLatest, Suits
  <2>2. CASE e.type # "ApprovalChallengeIssued"
    <3>1. \A c : Latest(ledger, Len(ledger), c) => Latest(l, Len(l), c)
      BY <1>1, <2>2, LatestKept
    <3>2. /\ durable.pending_approval # None =>
               Latest(ledger, Len(ledger), durable.pending_approval)
          /\ session.pending_approval # None =>
               Latest(ledger, Len(ledger), session.pending_approval)
      BY <1>2 DEF SayInv, HoldsLatest
    <3> HIDE DEF l, d
    <3> QED BY <1>3, <2>2, <3>1, <3>2 DEF HoldsLatest, Suits
  <2> QED BY <2>1, <2>2
<1>6. Sayable(e, ledger, Len(ledger), durable, signed)
  <2>1. e.type = "MilestoneRejected" => e.iteration > durable.macro_iteration
    BY <1>2 DEF EventOK
  <2>2. e.type = "ApprovalAccepted" => Latest(ledger, Len(ledger), e.challenge)
    <3>1. None \notin signed
      BY NoneAssumption DEF TypeInv, WorldInv
    <3> QED BY <3>1 DEF SayInv, HoldsLatest
  <2> QED BY <1>2, <2>1, <2>2 DEF Sayable
<1>7. CASE Log(e) /\ session' \in {before, after} /\ (pc' = "entering" => session'.pending_approval = None)
  <2>1. ledger' = l /\ durable' = d
    BY <1>7 DEF Log
  <2>2. Says(e)
    BY <1>6, <2>1 DEF Says
  <2>3. Suits(session', e)
    BY <1>7
  <2> HIDE DEF l, d
  <2> QED BY <1>1, <1>3, <1>4, <1>5, <1>7, <2>1, <2>2, <2>3 DEF Said, SayInv
<1>8. CASE UNCHANGED <<durable, ledger>> /\ session' = before /\ pc' = "idle"
  <2>1. HoldsLatest(before, ledger)
    BY DEF SayInv, HoldsLatest
  <2>2. before # None /\ before.macro_iteration >= durable.macro_iteration
    BY <1>2 DEF Suits
  <2> QED BY <1>2, <1>8, <2>1, <2>2 DEF Said, SayInv
<1> QED BY <1>7, <1>8 DEF Attempt, AppendFails

\* Memory that keeps its challenge and its count, or drops the challenge.
LEMMA KeptSuits ==
    ASSUME TypeInv, session # None, NEW e, e.type # "ApprovalChallengeIssued",
           e.type # "MilestoneRejected",
           NEW s, s # None, s.macro_iteration = session.macro_iteration,
           s.pending_approval \in {session.pending_approval, None}
    PROVE  Suits(s, e)
BY DEF Suits, TypeInv, SessionInv, Held, SessionState

LEMMA PlainSays ==
    ASSUME KeepLedger, TypeInv, SayInv, pc # "idle" \/ Active, AdvancePlain
    PROVE  Said /\ SayInv'
<1> DEFINE p == session.position
           j == NextEnabled(p.macro, p.sub)
           e == SubStateAdvanced(p.sub, j)
           next == Arrived(At(p.macro, j))
           after == Repositioned(session, At(p.macro, j))
<1>1. Held(session) /\ session # None /\ p.macro \in Macros /\ p.sub \in Nat
  BY Engaged
<1>2. Attempt(e, session, after, next)
  BY DEF AdvancePlain, At
<1>3. j \in Nat
  BY <1>1, NextEnabledTyped
<1>4. /\ after.pending_approval = None /\ after.macro_iteration = session.macro_iteration
      /\ after # None
  <2>1. At(p.macro, j) \in Positions
    BY <1>1, <1>3 DEF At, Positions
  <2>2. after # None
    BY <1>1, <2>1, RepositionedHeld, HeldThere
  <2> HIDE DEF j
  <2> QED BY <1>1, <2>2 DEF Repositioned, Held, SessionState
<1> HIDE DEF j
<1>5. e.type = "SubStateAdvanced" /\ EventOK(e)
  BY <1>3 DEF SubStateAdvanced, EventOK
<1> HIDE DEF e, after, next
<1>6. Suits(session, e) /\ Suits(after, e)
  BY <1>1, <1>4, <1>5, KeptSuits
<1> QED BY <1>1, <1>2, <1>4, <1>5, <1>6, AttemptSays DEF Held, SessionState

\* An append that leaves the session where it is, with its challenge.
LEMMA SteadySays ==
    ASSUME KeepLedger, TypeInv, SayInv, session # None,
           NEW e, EventOK(e), e.type \notin {"SessionStarted", "MilestoneRejected",
                                             "ApprovalChallengeIssued"},
           e.type = "ApprovalAccepted" =>
               e.challenge \in signed /\ e.challenge = session.pending_approval,
           NEW after, after # None, after.macro_iteration = session.macro_iteration,
           after.pending_approval = session.pending_approval,
           NEW next, next # "entering", Attempt(e, session, after, next)
    PROVE  Said /\ SayInv'
<1>1. Suits(session, e) /\ Suits(after, e)
  BY KeptSuits
<1>2. session.macro_iteration \in Nat
  BY DEF TypeInv, SessionInv, Held, SessionState
<1> QED BY <1>1, <1>2, AttemptSays

LEMMA TripSays ==
    ASSUME KeepLedger, TypeInv, SayInv, pc # "idle" \/ Active, NEW breaker, Trip(breaker)
    PROVE  Said /\ SayInv'
<1> DEFINE e == CircuitBreakerTriggered(breaker)
           after == Failed(session)
<1>1. session \in SessionState /\ session # None
  BY Engaged DEF Held
<1>2. EventOK(e) /\ e.type = "CircuitBreakerTriggered"
  BY DEF CircuitBreakerTriggered, EventOK
<1>3. after \in SessionState /\ after.macro_iteration = session.macro_iteration
      /\ after.pending_approval = session.pending_approval
  BY <1>1 DEF Failed, SessionState, Status
<1>4. Attempt(e, session, after, "idle")
  BY DEF Trip
<1> HIDE DEF e, after
<1> QED BY <1>1, <1>2, <1>3, <1>4, SteadySays, NoneAssumption

LEMMA ApprovalSays ==
    ASSUME KeepLedger, TypeInv, SayInv, AcceptApproval \/ RejectApproval
    PROVE  Said /\ SayInv'
<1>1. Active
  BY DEF AcceptApproval, RejectApproval, Submitted
<1>2. session \in SessionState /\ session # None
  BY <1>1, Engaged DEF Held
<1>3. CASE AcceptApproval
  <2>1. PICK sig \in signed :
          Verifies(sig) /\ Attempt(ApprovalAccepted(sig), session, session, "approved")
    BY <1>3 DEF AcceptApproval
  <2> DEFINE e == ApprovalAccepted(sig)
  <2>2. EventOK(e) /\ e.type = "ApprovalAccepted" /\ e.challenge = sig
    BY DEF ApprovalAccepted, EventOK
  <2>3. sig = session.pending_approval /\ Attempt(e, session, session, "approved")
    BY <2>1 DEF Verifies
  <2> HIDE DEF e
  <2> QED BY <1>2, <2>2, <2>3, SteadySays
<1>4. CASE RejectApproval
  <2> DEFINE e == ApprovalRejected
             after == Refused(session)
  <2>1. PICK next \in {"tripping", "idle"} : Attempt(e, session, after, next)
    BY <1>4 DEF RejectApproval
  <2>2. EventOK(e) /\ e.type = "ApprovalRejected"
    BY DEF ApprovalRejected, EventOK
  <2>3. after \in SessionState /\ after.macro_iteration = session.macro_iteration
        /\ after.pending_approval = session.pending_approval
    BY <1>2 DEF Refused, SessionState
  <2> HIDE DEF e, after
  <2> QED BY <1>2, <2>1, <2>2, <2>3, SteadySays, NoneAssumption
<1> QED BY <1>3, <1>4

LEMMA RejectSays ==
    ASSUME KeepLedger, TypeInv, SayInv, RejectChecklist PROVE Said /\ SayInv'
<1>1. Active
  BY DEF RejectChecklist, Submitted
<1>2. Held(session) /\ session # None /\ session.macro_iteration \in Nat
  BY <1>1, Engaged DEF Held, SessionState
<1>3. PICK evidence \in Evidence :
        LET counted == RejectionCounted(session, CarriedKeys(evidence))
        IN  Attempt(MilestoneRejected(CarriedKeys(evidence), counted.macro_iteration),
                    counted, counted, "rejected")
  BY DEF RejectChecklist
<1> DEFINE keys == CarriedKeys(evidence)
           counted == RejectionCounted(session, keys)
           e == MilestoneRejected(keys, counted.macro_iteration)
<1>4. keys \in SUBSET Keys
  BY DEF CarriedKeys
<1>5. Attempt(e, counted, counted, "rejected")
  BY <1>3
<1> HIDE DEF keys
<1>6. Held(counted) /\ counted.pending_approval = session.pending_approval
  BY <1>2, <1>4, CountedKeepsPlace
<1>7. counted.macro_iteration = session.macro_iteration + 1
  BY <1>2 DEF RejectionCounted, Held, SessionState
<1>8. counted # None
  BY <1>6, HeldThere
<1> HIDE DEF counted
<1>9. /\ EventOK(e) /\ e.type = "MilestoneRejected"
      /\ e.iteration = session.macro_iteration + 1
  BY <1>2, <1>4, <1>7 DEF MilestoneRejected, EventOK
<1> HIDE DEF e
<1>10. Suits(counted, e)
  BY <1>2, <1>6, <1>7, <1>8, <1>9 DEF Suits
<1>11. counted.macro_iteration >= session.macro_iteration
       /\ e.iteration > session.macro_iteration
  BY <1>2, <1>7, <1>9
<1> QED BY <1>2, <1>5, <1>6, <1>9, <1>10, <1>11, AttemptSays

LEMMA LoopSays ==
    ASSUME KeepLedger, TypeInv, SayInv, LoopBack PROVE Said /\ SayInv'
<1> DEFINE p == session.position
           k == FirstExecute(p.macro)
           e == MacroLoopedBack(p.sub, k)
           after == Looped(session, At(p.macro, k))
<1>1. Held(session) /\ session # None /\ p.macro \in Macros
  BY Engaged DEF LoopBack
<1>2. Attempt(e, session, after, "idle")
  BY DEF LoopBack, At
<1>3. k \in Nat
  BY <1>1, FirstExecuteIsExecute, MacrosTyped DEF LoopBack, LoopEnabled
<1> HIDE DEF k
<1>4. EventOK(e) /\ e.type = "MacroLoopedBack"
  BY <1>3 DEF MacroLoopedBack, EventOK
<1>5. after \in SessionState /\ after.macro_iteration = session.macro_iteration
      /\ after.pending_approval = session.pending_approval
  <2>1. At(p.macro, k) \in Positions
    BY <1>1, <1>3 DEF At, Positions
  <2> QED BY <1>1, <2>1 DEF Looped, Held, SessionState
<1> HIDE DEF e, after
<1> QED BY <1>1, <1>2, <1>4, <1>5, SteadySays, NoneAssumption

LEMMA MacroSays ==
    ASSUME KeepLedger, TypeInv, SayInv, AdvanceMacro PROVE Said /\ SayInv'
<1> DEFINE m == session.position.macro
           next == At(m + 1, FirstEnabled(m + 1))
           e == MacroAdvanced(m, m + 1)
           after == MacroReset(Repositioned(session, next))
<1>1. pc = "advancing"
  BY DEF AdvanceMacro
<1>2. Held(session) /\ session # None /\ m \in Macros /\ session.macro_iteration \in Nat
  BY <1>1, Engaged DEF Held, SessionState
<1>3. Attempt(e, session, after, Arrived(next))
  BY DEF AdvanceMacro
<1>4. m + 1 \in Macros
  BY <1>1, <1>2, NextMacro DEF TypeInv, SessionInv
<1>5. EventOK(e) /\ e.type = "MacroAdvanced"
  BY <1>4 DEF MacroAdvanced, EventOK
<1>6. /\ after.pending_approval = None /\ after.macro_iteration = 0 /\ after # None
  <2>1. next \in Positions
    BY <1>4, FirstEnabledIsFirst, MacrosTyped DEF At, Positions
  <2> HIDE DEF next
  <2>2. after \in SessionState /\ after.pending_approval = None /\ after.macro_iteration = 0
    BY <1>2, <2>1 DEF MacroReset, Repositioned, Held, SessionState
  <2> QED BY <2>2, NoneAssumption
<1> HIDE DEF e, after, next
<1>7. Suits(session, e) /\ Suits(after, e)
  BY <1>2, <1>5, <1>6 DEF Suits
<1> QED BY <1>2, <1>3, <1>5, <1>6, <1>7, AttemptSays

LEMMA EndSays ==
    ASSUME KeepLedger, TypeInv, SayInv, Complete \/ RecordArtifact PROVE Said /\ SayInv'
<1>1. pc \in {"completing", "storing"}
  BY DEF Complete, RecordArtifact
<1>2. session \in SessionState /\ session # None
  BY <1>1, Engaged DEF Held
<1>3. CASE Complete
  <2> DEFINE e == SessionCompleted(inflight)
             after == [session EXCEPT !.status = "Completed", !.position = None]
  <2>1. Attempt(e, session, after, "idle") /\ pc = "completing"
    BY <1>3 DEF Complete
  <2>2. EventOK(e) /\ e.type = "SessionCompleted"
    BY <2>1 DEF SessionCompleted, EventOK, TypeInv, HandlerInv
  <2>3. after \in SessionState /\ after.macro_iteration = session.macro_iteration
        /\ after.pending_approval = session.pending_approval
    BY <1>2 DEF SessionState, Status
  <2> HIDE DEF e, after
  <2> QED BY <1>2, <2>1, <2>2, <2>3, SteadySays, NoneAssumption
<1>4. CASE RecordArtifact
  <2> DEFINE e == ArtifactStored(inflight)
             after == [session EXCEPT !.artifacts = @ \cup {inflight}]
  <2>1. Attempt(e, session, after, "idle") /\ pc = "storing"
    BY <1>4 DEF RecordArtifact
  <2>2. EventOK(e) /\ e.type = "ArtifactStored" /\ inflight \in Artifacts
    BY <2>1 DEF ArtifactStored, EventOK, TypeInv, HandlerInv
  <2>3. after \in SessionState /\ after.macro_iteration = session.macro_iteration
        /\ after.pending_approval = session.pending_approval
    BY <1>2, <2>2 DEF SessionState
  <2> HIDE DEF e, after
  <2> QED BY <1>2, <2>1, <2>2, <2>3, SteadySays, NoneAssumption
<1> QED BY <1>3, <1>4

LEMMA AbortSays == StartAborted => Said /\ SayInv'
<1> SUFFICES ASSUME StartAborted PROVE Said /\ SayInv'
  OBVIOUS
<1>1. session' = None /\ durable' = None /\ ledger' = <<>> /\ pc' = "idle"
  BY DEF StartAborted
<1> QED BY <1>1, EmptyLog DEF Said, SayInv, HoldsLatest

\* The one append at which the session and the ledger may part over a
\* challenge: the session holds none before it.
LEMMA GateSays ==
    ASSUME KeepLedger, TypeInv, SayInv, EnterGate PROVE Said /\ SayInv'
<1> DEFINE c == IssuedFor(session.position)
           e == ApprovalChallengeIssued(c)
           parked == [session EXCEPT !.pending_approval = c, !.approval_rejections = 0]
<1>1. pc = "entering" /\ session.pending_approval = None
  BY DEF EnterGate, SayInv
<1>2. /\ session \in SessionState /\ session # None /\ session.macro_iteration \in Nat
      /\ session.position.macro \in Macros /\ session.position.sub \in Nat
  BY <1>1, Engaged DEF Held, SessionState
<1>3. c \in Challenge
  BY <1>2 DEF IssuedFor, Challenge, TypeInv, WorldInv
<1> HIDE DEF c
<1>4. EventOK(e) /\ e.type = "ApprovalChallengeIssued" /\ e.challenge = c
  BY <1>3 DEF ApprovalChallengeIssued, EventOK
<1>5. /\ parked \in SessionState /\ parked.pending_approval = c
      /\ parked.macro_iteration = session.macro_iteration
      /\ parked.position = session.position
  <2>1. c \in Challenge \cup {None} /\ 0 \in Nat
    BY <1>3
  <2> QED BY <1>2, <2>1 DEF SessionState
<1>6. \/ Attempt(e, session, parked, Settled)
      \/ StartAborted
  BY <1>5 DEF EnterGate, Attempt, c
<1>7. Settled # "entering"
  BY DEF Settled
<1> HIDE DEF e, parked
<1>8. Suits(session, e) /\ Suits(parked, e)
  BY <1>1, <1>2, <1>4, <1>5, NoneAssumption DEF Suits
<1>9. CASE Attempt(e, session, parked, Settled)
  BY <1>1, <1>2, <1>4, <1>7, <1>8, <1>9, AttemptSays
<1> QED BY <1>6, <1>9, AbortSays

LEMMA StartSays ==
    ASSUME KeepLedger, TypeInv, SayInv, StartSession PROVE Said /\ SayInv'
<1> DEFINE e == SessionStarted
<1>1. CASE Log(e) /\ session' = Fresh /\ pc' = Arrived(Fresh.position)
  <2>1. e.type = "SessionStarted"
    BY DEF SessionStarted
  <2> HIDE DEF e
  <2>2. durable' = Apply(durable, e) /\ ledger' = Append(ledger, e) /\ durable' = Fresh
    BY <1>1, <2>1 DEF Log, Apply
  <2>3. Says(e)
    BY <2>1, <2>2 DEF Says, Sayable
  <2>4. /\ Fresh # None /\ Fresh.pending_approval = None
        /\ Fresh.macro_iteration = 0
    BY FreshHeld, HeldThere DEF Fresh
  <2>5. IsLog(ledger')
    BY <2>2, LogAppended DEF SayInv
  <2> QED BY <1>1, <2>2, <2>3, <2>4, <2>5 DEF Said, SayInv, HoldsLatest
<1> QED BY <1>1, AbortSays DEF StartSession

LEMMA RestSays ==
    ASSUME TypeInv, SayInv, UNCHANGED <<durable, ledger>>,
           \/ UNCHANGED session
           \/ session' = None
           \/ session' = durable /\ durable # None,
           pc' \in {pc, "idle", "accepting", "storing"}, session' # session => pc' = "idle"
    PROVE  Said /\ SayInv'
BY DEF Said, SayInv, HoldsLatest, TypeInv, SessionInv, Held, SessionState

LEMMA StepSays ==
    ASSUME KeepLedger, TypeInv, SayInv, [Next]_vars PROVE Said /\ SayInv'
<1>1. CASE GlobalTimeout \/ TripApprovalLimit \/ TripMaxIterations \/ TripRepetitiveLoop
  BY <1>1, TripSays DEF GlobalTimeout, TripApprovalLimit, TripMaxIterations,
     TripRepetitiveLoop
<1>2. CASE AdvanceUngated \/ AdvanceApproved
  BY <1>2, PlainSays DEF AdvanceUngated, AdvanceApproved, Submitted
<1>3. CASE AcceptApproval \/ RejectApproval
  BY <1>3, ApprovalSays
<1>4. CASE RejectChecklist
  BY <1>4, RejectSays
<1>5. CASE LoopBack
  BY <1>5, LoopSays
<1>6. CASE AcceptMilestone \/ AcceptUncontracted \/ AcceptDelivered \/ ViolateOutput
  <2>1. session # None
    BY <1>6 DEF AcceptMilestone, AcceptUncontracted, AcceptDelivered, ViolateOutput,
       Completed, Submitted, Active, TypeInv, SessionInv
  <2>2. \A e \in {MilestoneAccepted, OutputContractViolated} :
          EventOK(e) /\ e.type \in {"MilestoneAccepted", "OutputContractViolated"}
    BY DEF MilestoneAccepted, OutputContractViolated, EventOK
  <2>3. ASSUME NEW e \in {MilestoneAccepted, OutputContractViolated},
               NEW next \in {"advancing", "completing", "idle"},
               Attempt(e, session, session, next)
        PROVE  Said /\ SayInv'
    BY <2>1, <2>2, <2>3, SteadySays
  <2>4. CASE AcceptMilestone
    <3>1. Attempt(MilestoneAccepted, session, session, "advancing")
      BY <2>4 DEF AcceptMilestone
    <3> QED BY <2>3, <3>1
  <2>5. CASE AcceptUncontracted \/ AcceptDelivered
    <3>1. CASE AcceptUncontracted
      <4>1. Attempt(MilestoneAccepted, session, session, "completing")
        BY <3>1 DEF AcceptUncontracted, AcceptFinal
      <4> QED BY <2>3, <4>1
    <3>2. CASE AcceptDelivered
      <4>1. Attempt(MilestoneAccepted, session, session, "completing")
        BY <3>2 DEF AcceptDelivered, AcceptFinal
      <4> QED BY <2>3, <4>1
    <3> QED BY <2>5, <3>1, <3>2
  <2>6. CASE ViolateOutput
    <3>1. Attempt(OutputContractViolated, session, session, "idle")
      BY <2>6 DEF ViolateOutput
    <3> QED BY <2>3, <3>1
  <2> QED BY <1>6, <2>4, <2>5, <2>6
<1>7. CASE AdvanceMacro
  BY <1>7, MacroSays
<1>8. CASE Complete \/ RecordArtifact
  BY <1>8, EndSays
<1>9. CASE EnterGate
  BY <1>9, GateSays
<1>10. CASE StartSession
  BY <1>10, StartSays
<1>11. CASE \/ Publish \/ WriteOutput \/ StoreBlob \/ StayRejected \/ Recover
            \/ Environment \/ UNCHANGED vars
  BY <1>11, RestSays DEF Publish, WriteOutput, StoreBlob, StayRejected, Recover,
     Environment, Sign, Expire, Tamper, Crash, vars
<1> QED BY <1>1, <1>2, <1>3, <1>4, <1>5, <1>6, <1>7, <1>8, <1>9, <1>10, <1>11
        DEF Next, Submission, Continuation

Spoken(l, sigs) ==
    \A n \in 1..Len(l) : Sayable(l[n], l, n - 1, Replay(l)[n - 1], sigs)

SpokenInv ==
    /\ SayInv
    /\ Replay(ledger)[Len(ledger)] = durable
    /\ Spoken(ledger, signed)

LEMMA SayableKept ==
    ASSUME NEW l, IsLog(l), NEW k, IsLog(k), Len(l) <= Len(k),
           \A i \in 1..Len(l) : k[i] = l[i],
           NEW n \in 0..Len(l), NEW e, NEW d, NEW sigs, NEW more, sigs \subseteq more,
           Sayable(e, l, n, d, sigs)
    PROVE  Sayable(e, k, n, d, more)
<1>1. Len(l) \in Nat /\ Len(k) \in Nat
  BY LogShape
<1>2. \A c : Latest(l, n, c) => Latest(k, n, c)
  <2>1. \A i \in 1..n : k[i] = l[i]
    BY <1>1
  <2>2. \A j \in 1..n : \A i \in (j + 1)..n : i \in 1..n
    OBVIOUS
  <2> QED BY <2>1, <2>2 DEF Latest
<1> QED BY <1>2 DEF Sayable

LEMMA SpokenAppended ==
    ASSUME NEW l, IsLog(l), NEW sigs, NEW more, sigs \subseteq more, Spoken(l, sigs),
           NEW e, Sayable(e, l, Len(l), Replay(l)[Len(l)], more)
    PROVE  Spoken(Append(l, e), more)
<1> DEFINE k == Append(l, e)
<1>1. /\ Len(l) \in Nat /\ IsLog(k) /\ Len(k) = Len(l) + 1
      /\ \A i \in 1..Len(l) : k[i] = l[i]
      /\ k[Len(l) + 1] = e
  BY LogShape, LogAppended
<1>2. \A n \in 0..Len(l) : Replay(k)[n] = Replay(l)[n]
  BY ReplayAppended
<1> HIDE DEF k
<1>3. SUFFICES ASSUME NEW n \in 1..Len(k)
               PROVE  Sayable(k[n], k, n - 1, Replay(k)[n - 1], more)
  BY DEF Spoken, k
<1>4. n - 1 \in 0..Len(l) /\ Replay(k)[n - 1] = Replay(l)[n - 1]
  BY <1>1, <1>2
<1>5. CASE n = Len(l) + 1
  <2>1. Sayable(e, l, n - 1, Replay(k)[n - 1], more) /\ k[n] = e
    BY <1>1, <1>4, <1>5
  <2> QED BY <1>1, <1>4, <2>1, SayableKept
<1>6. CASE n # Len(l) + 1
  <2>1. n \in 1..Len(l)
    BY <1>1, <1>6
  <2>2. Sayable(k[n], l, n - 1, Replay(k)[n - 1], sigs)
    BY <1>1, <1>4, <2>1 DEF Spoken
  <2> QED BY <1>1, <1>4, <2>2, SayableKept
<1> QED BY <1>5, <1>6

\* No signature is forgotten.
LEMMA SignedStays == [Next]_vars => signed \subseteq signed'
<1> SUFFICES ASSUME [Next]_vars PROVE signed \subseteq signed'
  OBVIOUS
<1>1. CASE Environment
  BY <1>1 DEF Environment, Sign, Expire, Tamper, Crash, world
<1>2. CASE Submission
  BY <1>2 DEF Submission, GlobalTimeout, AdvanceUngated, AdvancePlain, AcceptApproval,
     RejectApproval, RejectChecklist, AcceptMilestone, ViolateOutput, WriteOutput,
     AcceptUncontracted, AcceptFinal, world
<1>3. CASE Continuation
  BY <1>3 DEF Continuation, EnterGate, Publish, AdvanceApproved, AdvancePlain,
     TripApprovalLimit, TripMaxIterations, TripRepetitiveLoop, LoopBack, StayRejected,
     AdvanceMacro, AcceptDelivered, AcceptFinal, Complete, RecordArtifact, world
<1>4. CASE StartSession \/ Recover \/ StoreBlob \/ UNCHANGED vars
  BY <1>4 DEF StartSession, Recover, StoreBlob, vars, world
<1> QED BY <1>1, <1>2, <1>3, <1>4 DEF Next

LEMMA SpokenInvInit == Init => SpokenInv
<1> SUFFICES ASSUME Init PROVE SpokenInv
  OBVIOUS
<1>1. IsLog(<<>>) /\ Len(<<>>) = 0 /\ Replay(<<>>)[0] = None
  BY EmptyLog, ReplayDefined
<1>2. session = None /\ durable = None /\ ledger = <<>> /\ pc = "idle"
  BY DEF Init
<1> QED BY <1>1, <1>2 DEF SpokenInv, SayInv, HoldsLatest, Spoken

LEMMA SpokenInvNext ==
    ASSUME KeepLedger, TypeInv, SpokenInv, [Next]_vars PROVE SpokenInv'
<1>1. Said /\ SayInv'
  BY StepSays DEF SpokenInv
<1>2. signed \subseteq signed' /\ IsLog(ledger)
  BY SignedStays DEF SpokenInv, SayInv
<1>3. CASE UNCHANGED <<durable, ledger>>
  <2>1. Spoken(ledger, signed')
    <3>1. Len(ledger) \in Nat /\ Len(ledger) <= Len(ledger)
      BY <1>2, LogShape
    <3>2. \A n \in 1..Len(ledger) : n - 1 \in 0..Len(ledger)
      BY <3>1
    <3> QED BY <1>2, <3>1, <3>2, SayableKept DEF Spoken, SpokenInv
  <2> QED BY <1>1, <1>3, <2>1 DEF SpokenInv
<1>4. CASE durable' = None /\ ledger' = <<>>
  <2>1. IsLog(<<>>) /\ Len(<<>>) = 0 /\ Replay(<<>>)[0] = None
    BY EmptyLog, ReplayDefined
  <2> QED BY <1>1, <1>4, <2>1 DEF SpokenInv, Spoken
<1>5. CASE \E e : Says(e)
  <2>1. PICK e : Says(e)
    BY <1>5
  <2>2. Len(ledger) \in Nat /\ Len(ledger) <= Len(ledger) /\ Len(ledger) \in 0..Len(ledger)
    BY <1>2, LogShape
  <2>3. Sayable(e, ledger, Len(ledger), Replay(ledger)[Len(ledger)], signed')
    BY <1>2, <2>1, <2>2, SayableKept DEF Says, SpokenInv
  <2>4. Spoken(Append(ledger, e), signed')
    BY <1>2, <2>3, SpokenAppended DEF SpokenInv
  <2>5. Len(Append(ledger, e)) = Len(ledger) + 1
        /\ Replay(Append(ledger, e))[Len(ledger) + 1] = Apply(Replay(ledger)[Len(ledger)], e)
    BY <1>2, LogAppended, ReplayAppended
  <2> QED BY <1>1, <2>1, <2>4, <2>5 DEF SpokenInv, Says
<1> QED BY <1>1, <1>3, <1>4, <1>5 DEF Said

LEMMA SpokenInvAlways == KeepLedger /\ Spec => []SpokenInv
<1>1. CASE ~KeepLedger
  BY <1>1
<1>2. CASE KeepLedger
  <2>1. TypeInv /\ SpokenInv /\ [Next]_vars => SpokenInv'
    BY <1>2, SpokenInvNext
  <2>2. TypeInv /\ [Next]_vars => TypeInv'
    BY TypeInvNext
  <2> QED BY <1>2, <2>1, <2>2, TypeInvInit, SpokenInvInit, PTL DEF Spec
<1> QED BY <1>1, <1>2

LEMMA SpokenEntries ==
    ASSUME SpokenInv
    PROVE  /\ Len(ledger) \in Nat /\ DOMAIN ledger = 1..Len(ledger)
           /\ \A n \in 1..Len(ledger) :
                Sayable(ledger[n], ledger, n - 1, Replayed[n - 1], signed)
BY LogShape, TranscriptReplayed DEF SpokenInv, SayInv, Spoken

\* An accepted approval names the challenge that was issued last, and a human
\* signed that very challenge, whatever fails.
THEOREM ApprovalsHold == Spec => []ApprovalsReverify
<1>1. SpokenInv => ApprovalsReverify
  <2> SUFFICES ASSUME SpokenInv, NEW i \in DOMAIN ledger, Entry(i, "ApprovalAccepted")
               PROVE  /\ ledger[i].challenge \in signed
                      /\ \E j \in 1..(i - 1) :
                           /\ Entry(j, "ApprovalChallengeIssued")
                           /\ ledger[j].challenge = ledger[i].challenge
                           /\ \A n \in (j + 1)..(i - 1) : ~Entry(n, "ApprovalChallengeIssued")
    BY DEF ApprovalsReverify
  <2>1. /\ Len(ledger) \in Nat /\ DOMAIN ledger = 1..Len(ledger) /\ i \in 1..Len(ledger)
        /\ ledger[i].challenge \in signed
        /\ Latest(ledger, i - 1, ledger[i].challenge)
    BY SpokenEntries DEF Sayable, Entry
  <2>2. \A j \in 1..(i - 1) : j \in DOMAIN ledger
    BY <2>1
  <2> QED BY <2>1, <2>2 DEF Latest, Entry
<1>2. ledger = <<>> => ApprovalsReverify
  BY DEF ApprovalsReverify
<1>3. CASE KeepLedger
  BY <1>1, <1>3, SpokenInvAlways, PTL
<1>4. CASE ~KeepLedger
  BY <1>2, <1>4, NoTranscript, PTL
<1> QED BY <1>3, <1>4

\* The rejections of one macro carry increasing iteration numbers, whatever
\* fails.
THEOREM RejectionsAreNumbered == Spec => []RejectionsNumbered
<1>1. SpokenInv => RejectionsNumbered
  BY SpokenEntries DEF RejectionsNumbered, Sayable, Entry
<1>2. ledger = <<>> => RejectionsNumbered
  BY DEF RejectionsNumbered
<1>3. CASE KeepLedger
  BY <1>1, <1>3, SpokenInvAlways, PTL
<1>4. CASE ~KeepLedger
  BY <1>2, <1>4, NoTranscript, PTL
<1> QED BY <1>3, <1>4

-----------------------------------------------------------------------------
(* What an auditor can rely on.                                            *)

\* Event n of the transcript, and the session it was appended to.
LEMMA Entries ==
    ASSUME TranscriptInv
    PROVE  /\ Len(ledger) \in Nat /\ DOMAIN ledger = 1..Len(ledger)
           /\ \A n \in 1..Len(ledger) :
                /\ Reason(ledger[n], ledger, n - 1, Replay(ledger)[n - 1])
                /\ Replay(ledger)[n] = Apply(Replay(ledger)[n - 1], ledger[n])
           /\ Replay(ledger)[Len(ledger)] = durable
           /\ Replayed = Replay(ledger)
           /\ \A n, type : Has(ledger, n, type) <=> Entry(n, type)
BY LogShape, ReplayDefined, TranscriptReplayed
   DEF TranscriptInv, LogInv, Grounded, Has, Entry

\* Everything but the start is appended to a session on its way.
LEMMA OnTheWay ==
    ASSUME TranscriptInv, NEW n \in 1..Len(ledger)
    PROVE  n > 1 => UnderWay(Replay(ledger)[n - 1]) /\ ledger[n].type # "SessionStarted"
<1>1. /\ Len(ledger) \in Nat
      /\ \A i \in 1..Len(ledger) :
           /\ EventOK(ledger[i])
           /\ IF ledger[i].type = "SessionStarted" THEN Replay(ledger)[i - 1] = None
              ELSE UnderWay(Replay(ledger)[i - 1])
           /\ Replay(ledger)[i] = Apply(Replay(ledger)[i - 1], ledger[i])
  BY Entries DEF Reason
<1>2. SUFFICES ASSUME n > 1, ledger[n].type = "SessionStarted" PROVE FALSE
  BY <1>1
<1>3. n - 1 \in 1..Len(ledger) /\ Replay(ledger)[n - 1] = None
  BY <1>1, <1>2
<1> DEFINE m == n - 1
           d == Replay(ledger)[m - 1]
           e == ledger[m]
<1>4. /\ Replay(ledger)[m] = Apply(d, e) /\ EventOK(e)
      /\ IF e.type = "SessionStarted" THEN d = None ELSE UnderWay(d)
  BY <1>1, <1>3
<1> HIDE DEF d, e
<1>5. Apply(d, e) # None
  <2>1. CASE e.type = "SessionStarted"
    BY <2>1, FreshHeld, HeldThere DEF Apply
  <2>2. CASE e.type # "SessionStarted"
    BY <1>4, <2>2, ApplyReads DEF UnderWay
  <2> QED BY <2>1, <2>2
<1> QED BY <1>3, <1>4, <1>5

\* Every move and every trip follows directly on the event that justifies it.
THEOREM MovesAreJustified == "unsynced" \notin Faults /\ Spec => []MovesJustified
<1>1. TranscriptInv => MovesJustified
  <2> SUFFICES ASSUME TranscriptInv, NEW i \in DOMAIN ledger, Justification(i) # "none"
               PROVE  Entry(i - 1, Justification(i))
    BY DEF MovesJustified
  <2> DEFINE e == ledger[i]
  <2>1. i \in 1..Len(ledger) /\ Replayed[i - 1] = Replay(ledger)[i - 1]
    BY Entries
  <2>2. Reason(e, ledger, i - 1, Replayed[i - 1])
    BY <2>1, Entries
  <2>3. \A type : Has(ledger, i - 1, type) <=> Entry(i - 1, type)
    BY Entries
  <2>4. CASE e.type \in {"MacroAdvanced", "SessionCompleted"}
    <3>1. Justification(i) = "MilestoneAccepted"
      BY <2>4 DEF Justification
    <3> QED BY <2>2, <2>3, <2>4, <3>1 DEF Reason
  <2>5. CASE e.type = "MacroLoopedBack"
    <3>1. Justification(i) = "MilestoneRejected"
      BY <2>5 DEF Justification
    <3> QED BY <2>2, <2>3, <2>5, <3>1 DEF Reason
  <2>6. CASE e.type = "SubStateAdvanced"
    <3>1. Justification(i) = IF AtGate(Replayed[i - 1]) THEN "ApprovalAccepted" ELSE "none"
      BY <2>6 DEF Justification
    <3>2. AtGate(Replayed[i - 1]) => KindAt(Replayed[i - 1].position) = "human_approval"
      BY DEF AtGate, KindAt
    <3> QED BY <2>2, <2>3, <2>6, <3>1, <3>2 DEF Reason
  <2>7. CASE e.type = "CircuitBreakerTriggered"
    <3>1. Justification(i) =
            CASE e.breaker = "ApprovalRejectionLimit" -> "ApprovalRejected"
              [] e.breaker \in {"MaxIterations", "RepetitiveLoop"} -> "MilestoneRejected"
              [] OTHER -> "none"
      BY <2>7 DEF Justification
    <3>2. CASE e.breaker = "ApprovalRejectionLimit"
      BY <2>2, <2>3, <2>7, <3>1, <3>2 DEF Reason
    <3>3. CASE e.breaker \in {"MaxIterations", "RepetitiveLoop"}
      <4>1. Justification(i) = "MilestoneRejected"
        BY <3>1, <3>3
      <4> QED BY <2>2, <2>3, <2>7, <3>3, <4>1 DEF Reason
    <3> QED BY <3>1, <3>2, <3>3
  <2>8. e.type \notin {"MacroAdvanced", "SessionCompleted", "MacroLoopedBack",
                       "SubStateAdvanced", "CircuitBreakerTriggered"} => Justification(i) = "none"
    BY DEF Justification
  <2> QED BY <2>4, <2>5, <2>6, <2>7, <2>8
<1>2. ledger = <<>> => MovesJustified
  BY DEF MovesJustified
<1>3. CASE KeepLedger
  BY <1>1, <1>3, TranscriptInvAlways, PTL
<1>4. CASE ~KeepLedger
  BY <1>2, <1>4, NoTranscript, PTL
<1> QED BY <1>3, <1>4

\* A terminal event ends the session it is applied to, so nothing follows it.
LEMMA TerminalEnds ==
    ASSUME TranscriptInv, NEW i \in 1..Len(ledger),
           ledger[i].type \in {"SessionCompleted", "CircuitBreakerTriggered"}
    PROVE  i = Len(ledger)
<1>1. Len(ledger) \in Nat
  BY Entries
<1> SUFFICES ASSUME i # Len(ledger) PROVE FALSE
  OBVIOUS
<1>2. /\ UnderWay(Replay(ledger)[i - 1]) /\ EventOK(ledger[i])
      /\ Replay(ledger)[i] = Apply(Replay(ledger)[i - 1], ledger[i])
  <2>1. /\ Reason(ledger[i], ledger, i - 1, Replay(ledger)[i - 1])
        /\ Replay(ledger)[i] = Apply(Replay(ledger)[i - 1], ledger[i])
    BY Entries
  <2> QED BY <2>1 DEF Reason
<1>3. Replay(ledger)[i].status # "Active"
  <2> DEFINE d == Replay(ledger)[i - 1]
             e == ledger[i]
  <2>1. Held(d) /\ EventOK(e) /\ e.type \in {"SessionCompleted", "CircuitBreakerTriggered"}
    BY <1>2 DEF UnderWay
  <2> HIDE DEF d, e
  <2>2. e.type # "SessionStarted"
    BY <2>1
  <2>3. Apply(d, e).status = IF e.type = "CircuitBreakerTriggered" THEN "Failed"
                             ELSE IF e.type = "SessionCompleted" THEN "Completed"
                             ELSE d.status
    BY ONLY <2>1, <2>2, ApplyReads
  <2> QED BY <1>2, <2>1, <2>3 DEF d, e
<1>4. i + 1 \in 1..Len(ledger) /\ i + 1 > 1 /\ (i + 1) - 1 = i
  BY <1>1
<1>5. UnderWay(Replay(ledger)[(i + 1) - 1])
  BY <1>4, OnTheWay
<1> QED BY <1>3, <1>4, <1>5 DEF UnderWay

\* A terminal event is the last one.
THEOREM TerminalsAreLast == "unsynced" \notin Faults /\ Spec => []TerminalIsLast
<1>1. TranscriptInv => TerminalIsLast
  <2> SUFFICES ASSUME TranscriptInv, NEW i \in DOMAIN ledger,
                      Entry(i, "SessionCompleted") \/ Entry(i, "CircuitBreakerTriggered")
               PROVE  i = Len(ledger)
    BY DEF TerminalIsLast
  <2>1. i \in 1..Len(ledger)
    BY Entries
  <2>2. ledger[i].type \in {"SessionCompleted", "CircuitBreakerTriggered"}
    BY DEF Entry
  <2> QED BY <2>1, <2>2, TerminalEnds
<1>2. ledger = <<>> => TerminalIsLast
  BY DEF TerminalIsLast
<1>3. CASE KeepLedger
  BY <1>1, <1>3, TranscriptInvAlways, PTL
<1>4. CASE ~KeepLedger
  BY <1>2, <1>4, NoTranscript, PTL
<1> QED BY <1>3, <1>4

-----------------------------------------------------------------------------
(* What the transcript accounts for: its steps and counts, against the     *)
(* session it replays to.                                                  *)

StepId(l, i) == Replay(l)[IF l[i].type \in Arrivals THEN i ELSE i - 1].position

EventsOf(l, step, type) == {i \in 1..Len(l) : StepId(l, i) = step /\ l[i].type = type}

Left(d, m) == d.position = None \/ m < d.position.macro

Tracked(l, d) ==
    \A i \in 1..Len(l) : l[i].type = "ArtifactStored" => l[i].artifact \in d.artifacts

Concluded(l, d) ==
    /\ d.status = "Completed" <=> \E i \in 1..Len(l) : l[i].type = "SessionCompleted"
    /\ d.status = "Failed" <=> \E i \in 1..Len(l) : l[i].type = "CircuitBreakerTriggered"
    /\ d.status = "Completed" <=> d.position = None

\* No event was appended in a macro the session has not come to.
Reached(l, d) ==
    d.position # None =>
        \A i \in 1..Len(l) : /\ StepId(l, i) \in Positions
                             /\ StepId(l, i).macro <= d.position.macro

LeftPassed(l, d) ==
    \A m \in Macros : Left(d, m) =>
        \E i \in 1..Len(l) : StepId(l, i) = Gate(m) /\ IsPassEvent(l[i])

FewRejections(l, d) ==
    d.position # None =>
        Cardinality(EventsOf(l, Gate(d.position.macro), "MilestoneRejected"))
          <= d.macro_iteration

ManyRefusals(l, d) ==
    HoldsChallenge(d) =>
        d.approval_rejections <= Cardinality(EventsOf(l, d.position, "ApprovalRejected"))

Account(l, d) ==
    /\ Tracked(l, d) /\ Concluded(l, d) /\ Reached(l, d)
    /\ LeftPassed(l, d) /\ FewRejections(l, d) /\ ManyRefusals(l, d)

AccountInv == durable # None => Account(ledger, durable)

LEMMA EventsFinite ==
    ASSUME NEW l, IsLog(l), NEW step, NEW type
    PROVE  /\ IsFiniteSet(EventsOf(l, step, type))
           /\ Cardinality(EventsOf(l, step, type)) \in Nat
<1>1. Len(l) \in Nat
  BY LogShape
<1>2. IsFiniteSet(1..Len(l))
  <2>1. 1 \in Int /\ Len(l) \in Int
    BY <1>1
  <2> QED BY <2>1, FS_Interval
<1>3. EventsOf(l, step, type) \in SUBSET (1..Len(l))
  BY DEF EventsOf
<1> QED BY <1>2, <1>3, FS_Subset, FS_CardinalityType

\* One event more.
LEMMA EventsGrow ==
    ASSUME NEW l, IsLog(l), NEW e
    PROVE  LET k == Append(l, e)
               now == IF e.type \in Arrivals THEN Apply(Replay(l)[Len(l)], e).position
                      ELSE Replay(l)[Len(l)].position
           IN  /\ Len(l) \in Nat /\ IsLog(k) /\ Len(k) = Len(l) + 1
               /\ \A i \in 1..Len(l) : k[i] = l[i] /\ StepId(k, i) = StepId(l, i)
               /\ k[Len(k)] = e
               /\ StepId(k, Len(k)) = now
               /\ \A step, type :
                    EventsOf(k, step, type) =
                      IF now = step /\ e.type = type
                        THEN EventsOf(l, step, type) \cup {Len(k)}
                        ELSE EventsOf(l, step, type)
               /\ \A step, type : Len(k) \notin EventsOf(l, step, type)
<1> DEFINE k == Append(l, e)
           now == IF e.type \in Arrivals THEN Apply(Replay(l)[Len(l)], e).position
                  ELSE Replay(l)[Len(l)].position
<1>1. /\ Len(l) \in Nat /\ IsLog(k) /\ Len(k) = Len(l) + 1
      /\ \A i \in 1..Len(l) : k[i] = l[i]
      /\ k[Len(l) + 1] = e
      /\ \A n \in 0..Len(l) : Replay(k)[n] = Replay(l)[n]
      /\ Replay(k)[Len(l) + 1] = Apply(Replay(l)[Len(l)], e)
  BY LogShape, LogAppended, ReplayAppended
<1> HIDE DEF k
<1>2. \A i \in 1..Len(l) : StepId(k, i) = StepId(l, i)
  <2> SUFFICES ASSUME NEW i \in 1..Len(l) PROVE StepId(k, i) = StepId(l, i)
    OBVIOUS
  <2>1. i \in 0..Len(l) /\ i - 1 \in 0..Len(l) /\ k[i] = l[i]
    BY <1>1
  <2> QED BY <1>1, <2>1 DEF StepId
<1>3. StepId(k, Len(k)) = now
  <2>1. Len(k) - 1 = Len(l) /\ Len(l) \in 0..Len(l)
    BY <1>1
  <2> QED BY <1>1, <2>1 DEF StepId
<1> HIDE DEF now
<1>4. ASSUME NEW step, NEW type
      PROVE  /\ EventsOf(k, step, type) =
                  IF now = step /\ e.type = type
                    THEN EventsOf(l, step, type) \cup {Len(k)}
                    ELSE EventsOf(l, step, type)
             /\ Len(k) \notin EventsOf(l, step, type)
  <2>1. 1..Len(k) = (1..Len(l)) \cup {Len(k)} /\ Len(k) \notin 1..Len(l)
    BY <1>1
  <2>2. StepId(k, Len(k)) = now /\ k[Len(k)] = e
    BY <1>1, <1>3
  <2> QED BY <1>1, <1>2, <2>1, <2>2 DEF EventsOf
<1> QED BY <1>1, <1>2, <1>3, <1>4 DEF k, now

LEMMA AccountStarts ==
    ASSUME NEW e, e.type = "SessionStarted", Replay(<<>>)[0] = None
    PROVE  Account(Append(<<>>, e), Fresh)
<1> DEFINE k == Append(<<>>, e)
<1>1. IsLog(<<>>) /\ Len(<<>>) = 0
  BY EmptyLog
<1>2. Apply(Replay(<<>>)[Len(<<>>)], e) = Fresh
  BY DEF Apply
<1>3. /\ IsLog(k) /\ Len(k) = 1 /\ k[1] = e
      /\ StepId(k, 1) = Fresh.position
  <2>1. /\ IsLog(k) /\ Len(k) = Len(<<>>) + 1 /\ k[Len(k)] = e
        /\ StepId(k, Len(k)) = Fresh.position
    BY <1>1, <1>2, EventsGrow DEF Arrivals
  <2> QED BY <1>1, <2>1
<1> HIDE DEF k
<1>4. OnStep(Fresh.position) /\ Fresh.position # None
  BY StepStart, NoneAssumption DEF OnStep
<1>5. \A step, type : type # "SessionStarted" => Cardinality(EventsOf(k, step, type)) = 0
  <2>1. \A step, type : type # "SessionStarted" => EventsOf(k, step, type) = {}
    BY <1>3 DEF EventsOf
  <2> QED BY <2>1, FS_EmptySet
<1>6. Tracked(k, Fresh) /\ Concluded(k, Fresh)
  BY <1>3, <1>4 DEF Tracked, Concluded, Fresh
<1>7. Reached(k, Fresh)
  <2>1. /\ Fresh.position \in Positions
        /\ Fresh.position.macro \in Nat /\ Fresh.position.macro <= Fresh.position.macro
    BY <1>4, StepCounted DEF OnStep
  <2> QED BY <1>3, <1>4, <2>1 DEF Reached
<1>8. LeftPassed(k, Fresh)
  <2>1. \A m \in Macros : m \in Nat /\ m # 0
    BY MacrosTyped
  <2>2. Fresh.position.macro = 1
    BY DEF Fresh, At
  <2> QED BY <1>4, <2>1, <2>2 DEF LeftPassed, Left
<1>9. FewRejections(k, Fresh) /\ ManyRefusals(k, Fresh)
  BY <1>5 DEF FewRejections, ManyRefusals, Fresh
<1> QED BY <1>6, <1>7, <1>8, <1>9 DEF Account, k

\* The last event of l leaves a session that accepted its milestone as it was.
LEMMA AcceptedThere ==
    ASSUME NEW l, IsLog(l), NEW d, d = Replay(l)[Len(l)], d # None,
           Has(l, Len(l), "MilestoneAccepted")
    PROVE  StepId(l, Len(l)) = d.position
<1>1. Len(l) \in 1..Len(l) /\ l[Len(l)].type = "MilestoneAccepted"
  BY DEF Has
<1> DEFINE b == Replay(l)[Len(l) - 1]
<1>2. d = Apply(b, l[Len(l)])
  BY <1>1, ReplayDefined
<1>3. StepId(l, Len(l)) = b.position
  BY <1>1 DEF StepId, Arrivals
<1> HIDE DEF b
<1>4. d = b
  BY <1>1, <1>2 DEF Apply
<1> QED BY <1>3, <1>4

LEMMA AtGateOf ==
    ASSUME NEW p, OnStep(p), KindAt(p) = "checklist"
    PROVE  p = Gate(p.macro) /\ p.macro \in Macros
BY StepCounted, ChecklistTrails DEF Gate

\* An event with a reason keeps the account.
LEMMA AccountGrows ==
    ASSUME NEW l, IsLog(l), NEW d, d = Replay(l)[Len(l)], Account(l, d),
           NEW e, Reason(e, l, Len(l), d), e.type # "SessionStarted"
    PROVE  Account(Append(l, e), Apply(d, e))
<1> DEFINE k == Append(l, e)
           r == Apply(d, e)
           now == IF e.type \in Arrivals THEN r.position ELSE d.position
<1>1. /\ UnderWay(d) /\ EventOK(e) /\ Held(d) /\ d # None /\ d.status = "Active"
      /\ d.position \in Positions /\ d.position # None
      /\ d.position.macro \in Macros /\ d.position.macro \in Nat
      /\ d.macro_iteration \in Nat /\ d.approval_rejections \in Nat
      /\ OnStep(d.position)
  <2>1. UnderWay(d) /\ EventOK(e)
    BY DEF Reason
  <2>2. d \in SessionState /\ OnStep(d.position) /\ d.position # None /\ d # None
        /\ Held(d) /\ d.status = "Active"
    BY <2>1 DEF UnderWay, Held
  <2> QED BY <2>1, <2>2, StepCounted DEF SessionState, OnStep
<1>2. /\ r # None
      /\ r.status = IF e.type = "CircuitBreakerTriggered" THEN "Failed"
                    ELSE IF e.type = "SessionCompleted" THEN "Completed"
                    ELSE d.status
      /\ r.position = IF e.type \in {"SubStateAdvanced", "MacroLoopedBack"}
                        THEN At(d.position.macro, e.to)
                      ELSE IF e.type = "MacroAdvanced"
                        THEN At(e.to, FirstEnabled(e.to))
                      ELSE IF e.type = "SessionCompleted" THEN None
                      ELSE d.position
      /\ r.macro_iteration = IF e.type = "MilestoneRejected" THEN e.iteration
                             ELSE IF e.type = "MacroAdvanced" THEN 0
                             ELSE d.macro_iteration
      /\ r.approval_rejections = IF e.type = "ApprovalChallengeIssued" THEN 0
                                 ELSE IF e.type = "ApprovalRejected"
                                   THEN d.approval_rejections + 1
                                 ELSE d.approval_rejections
      /\ r.pending_approval = IF e.type = "ApprovalChallengeIssued"
                                THEN e.challenge
                              ELSE IF e.type \in {"SubStateAdvanced", "MacroLoopedBack",
                                                  "MacroAdvanced", "ApprovalAccepted"}
                                THEN None
                              ELSE d.pending_approval
      /\ r.artifacts = IF e.type = "ArtifactStored"
                         THEN d.artifacts \cup {e.artifact}
                       ELSE d.artifacts
  <2>1. Held(d) /\ d.position # None /\ EventOK(e) /\ e.type # "SessionStarted"
    BY <1>1
  <2> QED BY ONLY <2>1, ApplyReads
<1>3. /\ Len(l) \in Nat /\ IsLog(k) /\ Len(k) = Len(l) + 1
      /\ \A i \in 1..Len(l) : k[i] = l[i] /\ StepId(k, i) = StepId(l, i)
      /\ k[Len(k)] = e
      /\ StepId(k, Len(k)) = now
      /\ \A step, type :
           EventsOf(k, step, type) =
             IF now = step /\ e.type = type
               THEN EventsOf(l, step, type) \cup {Len(k)}
               ELSE EventsOf(l, step, type)
      /\ \A step, type : Len(k) \notin EventsOf(l, step, type)
  <2> DEFINE was == IF e.type \in Arrivals THEN Apply(Replay(l)[Len(l)], e).position
                    ELSE Replay(l)[Len(l)].position
  <2>1. was = now
    OBVIOUS
  <2>2. /\ Len(l) \in Nat /\ IsLog(k) /\ Len(k) = Len(l) + 1
        /\ \A i \in 1..Len(l) : k[i] = l[i] /\ StepId(k, i) = StepId(l, i)
        /\ k[Len(k)] = e
        /\ StepId(k, Len(k)) = was
        /\ \A step, type :
             EventsOf(k, step, type) =
               IF was = step /\ e.type = type
                 THEN EventsOf(l, step, type) \cup {Len(k)}
                 ELSE EventsOf(l, step, type)
        /\ \A step, type : Len(k) \notin EventsOf(l, step, type)
    BY EventsGrow, Zenon
  <2> HIDE DEF was, now, k
  <2> QED BY <2>1, <2>2
<1>4. /\ e.type \in {"SubStateAdvanced", "MacroLoopedBack"} =>
           r.position \in Positions /\ r.position # None
           /\ r.position.macro = d.position.macro
      /\ e.type = "MacroAdvanced" =>
           r.position \in Positions /\ r.position # None
           /\ r.position.macro = d.position.macro + 1
  <2>1. ASSUME e.type \in {"SubStateAdvanced", "MacroLoopedBack"}
        PROVE  r.position \in Positions /\ r.position # None
               /\ r.position.macro = d.position.macro
    <3>1. At(d.position.macro, e.to) \in Positions
      BY <1>1, <2>1 DEF EventOK, At, Positions
    <3>2. r.position = At(d.position.macro, e.to)
      BY <1>2, <2>1
    <3> QED BY <3>1, <3>2, NoneAssumption DEF At
  <2>2. ASSUME e.type = "MacroAdvanced"
        PROVE  r.position \in Positions /\ r.position # None
               /\ r.position.macro = d.position.macro + 1
    <3>1. e.to \in Macros /\ e.to = d.position.macro + 1
      BY <1>1, <2>2 DEF EventOK, Reason
    <3>2. At(e.to, FirstEnabled(e.to)) \in Positions
      BY <3>1, FirstEnabledIsFirst, MacrosTyped DEF At, Positions
    <3>3. r.position = At(e.to, FirstEnabled(e.to))
      BY <1>2, <2>2
    <3> QED BY <3>1, <3>2, <3>3, NoneAssumption DEF At
  <2> HIDE DEF r
  <2> QED BY <2>1, <2>2
<1> HIDE DEF k, r
<1>5. Tracked(k, r)
  <2> SUFFICES ASSUME NEW i \in 1..Len(k), k[i].type = "ArtifactStored"
               PROVE  k[i].artifact \in r.artifacts
    BY DEF Tracked
  <2>1. CASE i = Len(k)
    BY <1>2, <1>3, <2>1
  <2>2. CASE i # Len(k)
    <3>1. i \in 1..Len(l) /\ k[i] = l[i]
      BY <1>3, <2>2
    <3>2. l[i].artifact \in d.artifacts
      BY <2>2, <3>1 DEF Account, Tracked
    <3> QED BY <1>2, <3>1, <3>2
  <2> QED BY <2>1, <2>2
<1>6. Concluded(k, r)
  <2>1. \A i \in 1..Len(l) : l[i].type \notin {"SessionCompleted", "CircuitBreakerTriggered"}
    BY <1>1 DEF Account, Concluded
  <2>2. \A type \in {"SessionCompleted", "CircuitBreakerTriggered"} :
          (\E i \in 1..Len(k) : k[i].type = type) <=> e.type = type
    <3>1. \A i \in 1..Len(k) : i = Len(k) \/ i \in 1..Len(l)
      BY <1>3
    <3>2. Len(k) \in 1..Len(k)
      BY <1>3
    <3> QED BY <1>3, <2>1, <3>1, <3>2
  <2>3. r.status = "Completed" <=> r.position = None
    BY <1>1, <1>2, <1>4
  <2> QED BY <1>1, <1>2, <2>2, <2>3 DEF Concluded
<1>7. Reached(k, r)
  <2> SUFFICES ASSUME r.position # None, NEW i \in 1..Len(k)
               PROVE  /\ StepId(k, i) \in Positions
                      /\ StepId(k, i).macro <= r.position.macro
    BY DEF Reached
  <2>1. /\ r.position \in Positions /\ r.position.macro \in Nat
        /\ d.position.macro <= r.position.macro
    <3>1. \/ r.position.macro = d.position.macro
          \/ r.position.macro = d.position.macro + 1
      BY <1>1, <1>2, <1>4
    <3>2. r.position \in Positions
      BY <1>1, <1>2, <1>4
    <3>3. d.position.macro \in Nat
      BY <1>1
    <3> QED BY ONLY <3>1, <3>2, <3>3
  <2>2. CASE i = Len(k)
    BY <1>1, <1>3, <2>1, <2>2
  <2>3. CASE i # Len(k)
    <3>1. i \in 1..Len(l) /\ StepId(k, i) = StepId(l, i)
      BY <1>3, <2>3
    <3>2. StepId(l, i) \in Positions /\ StepId(l, i).macro <= d.position.macro
      BY <1>1, <3>1 DEF Account, Reached
    <3>3. StepId(l, i).macro \in Nat
      BY <3>2, MacrosTyped DEF Positions
    <3> QED BY <1>1, <2>1, <3>1, <3>2, <3>3
  <2> QED BY <2>2, <2>3
<1>8. LeftPassed(k, r)
  <2> SUFFICES ASSUME NEW m \in Macros, Left(r, m)
               PROVE  \E i \in 1..Len(k) : StepId(k, i) = Gate(m) /\ IsPassEvent(k[i])
    BY DEF LeftPassed
  <2>1. CASE Left(d, m)
    <3>1. PICK i \in 1..Len(l) : StepId(l, i) = Gate(m) /\ IsPassEvent(l[i])
      BY <2>1 DEF Account, LeftPassed
    <3>2. i \in 1..Len(k)
      BY <1>3
    <3> QED BY <1>3, <3>1, <3>2
  <2>2. CASE ~Left(d, m)
    <3>1. m \in Nat /\ ~(m < d.position.macro)
      BY <2>2, MacrosTyped DEF Left
    <3>2. CASE e.type = "MacroAdvanced"
      <4>1. m = d.position.macro
        BY <1>1, <1>4, <3>1, <3>2 DEF Left
      <4>2. Has(l, Len(l), "MilestoneAccepted") /\ KindAt(d.position) = "checklist"
        BY <3>2 DEF Reason
      <4>3. StepId(l, Len(l)) = Gate(m)
        BY <1>1, <4>1, <4>2, AcceptedThere, AtGateOf
      <4>4. Len(l) \in 1..Len(k) /\ Len(l) \in 1..Len(l) /\ IsPassEvent(l[Len(l)])
        BY <1>3, <4>2 DEF Has, IsPassEvent
      <4> QED BY <1>3, <4>3, <4>4
    <3>3. CASE e.type = "SessionCompleted"
      <4>1. IsFinal(d.position.macro) /\ KindAt(d.position) = "checklist"
        BY <3>3 DEF Reason
      <4>2. m = d.position.macro
        BY <1>1, <3>1, <4>1, MacroRange DEF IsFinal
      <4>3. StepId(k, Len(k)) = Gate(m) /\ Len(k) \in 1..Len(k)
        BY <1>1, <1>3, <3>3, <4>1, <4>2, AtGateOf DEF Arrivals
      <4> QED BY <1>3, <3>3, <4>3 DEF IsPassEvent
    <3>4. CASE e.type \notin {"MacroAdvanced", "SessionCompleted"}
      <4>1. r.position # None /\ r.position.macro = d.position.macro
        BY <1>1, <1>2, <1>4, <3>4
      <4> QED BY <2>2, <4>1 DEF Left
    <3> QED BY <3>2, <3>3, <3>4
  <2> QED BY <2>1, <2>2
<1>9. FewRejections(k, r)
  <2> SUFFICES ASSUME r.position # None
               PROVE  Cardinality(EventsOf(k, Gate(r.position.macro), "MilestoneRejected"))
                        <= r.macro_iteration
    BY DEF FewRejections
  <2> DEFINE old == EventsOf(l, Gate(r.position.macro), "MilestoneRejected")
             new == EventsOf(k, Gate(r.position.macro), "MilestoneRejected")
  <2>1. IsFiniteSet(old) /\ Cardinality(old) \in Nat
    BY EventsFinite
  <2>2. CASE e.type = "MacroAdvanced"
    <3>1. new = old
      BY <1>3, <2>2
    <3>2. old = {}
      <4>1. ASSUME NEW i \in old PROVE FALSE
        <5>1. i \in 1..Len(l) /\ StepId(l, i) = Gate(r.position.macro)
          BY <4>1 DEF EventsOf
        <5>2. StepId(l, i).macro <= d.position.macro
          BY <1>1, <5>1 DEF Account, Reached
        <5>3. StepId(l, i).macro = d.position.macro + 1
          BY <1>4, <2>2, <5>1 DEF Gate, At
        <5> QED BY <1>1, <5>2, <5>3
      <4> HIDE DEF old
      <4> QED BY <4>1
    <3> HIDE DEF old, new
    <3>3. Cardinality(new) = 0
      BY <3>1, <3>2, FS_EmptySet
    <3> QED BY <1>2, <2>2, <3>3 DEF new
  <2>3. CASE e.type # "MacroAdvanced"
    <3>1. r.position.macro = d.position.macro
      BY <1>1, <1>2, <1>4, <2>3
    <3>2. Cardinality(old) <= d.macro_iteration
      BY <1>1, <3>1 DEF Account, FewRejections
    <3>3. CASE e.type = "MilestoneRejected"
      <4>1. e.iteration \in Nat /\ e.iteration > d.macro_iteration
            /\ r.macro_iteration = e.iteration
        BY <1>1, <1>2, <3>3 DEF Reason, EventOK
      <4>2. new = old \/ new = old \cup {Len(k)}
        BY <1>3
      <4>3. Len(k) \notin old
        BY <1>3
      <4> HIDE DEF old, new
      <4>4. Cardinality(new) <= Cardinality(old) + 1 /\ Cardinality(new) \in Nat
        <5>1. CASE new = old
          BY <2>1, <5>1
        <5>2. CASE new = old \cup {Len(k)}
          <6>1. Cardinality(new) = Cardinality(old) + 1
            BY <2>1, <4>3, <5>2, FS_AddElement
          <6> QED BY <2>1, <6>1
        <5> QED BY <4>2, <5>1, <5>2
      <4>5. Cardinality(new) <= r.macro_iteration
        BY <1>1, <2>1, <3>2, <4>1, <4>4
      <4> QED BY <4>5 DEF new
    <3>4. CASE e.type # "MilestoneRejected"
      <4>1. new = old /\ r.macro_iteration = d.macro_iteration
        BY <1>2, <1>3, <2>3, <3>4
      <4> HIDE DEF old, new
      <4>2. Cardinality(new) <= r.macro_iteration
        BY <3>2, <4>1
      <4> QED BY <4>2 DEF new
    <3> QED BY <3>3, <3>4
  <2> QED BY <2>2, <2>3
<1>10. ManyRefusals(k, r)
  <2> SUFFICES ASSUME HoldsChallenge(r)
               PROVE  r.approval_rejections
                        <= Cardinality(EventsOf(k, r.position, "ApprovalRejected"))
    BY DEF ManyRefusals
  <2> DEFINE old == EventsOf(l, r.position, "ApprovalRejected")
             new == EventsOf(k, r.position, "ApprovalRejected")
  <2>1. /\ IsFiniteSet(old) /\ Cardinality(old) \in Nat /\ Cardinality(new) \in Nat
    BY <1>3, EventsFinite
  <2>2. r.position = d.position
    BY <1>2 DEF HoldsChallenge, AtGate
  <2>3. CASE e.type = "ApprovalChallengeIssued"
    <3>1. r.approval_rejections = 0
      BY <1>2, <2>3
    <3> QED BY <2>1, <3>1
  <2>4. CASE e.type # "ApprovalChallengeIssued"
    <3>1. HoldsChallenge(d)
      BY <1>1, <1>2, <2>2, <2>4 DEF HoldsChallenge, AtGate
    <3>2. d.approval_rejections <= Cardinality(old)
      BY <2>2, <3>1 DEF Account, ManyRefusals
    <3>3. CASE e.type = "ApprovalRejected"
      <4>1. new = old \cup {Len(k)} /\ Len(k) \notin old
        BY <1>3, <2>2, <3>3 DEF Arrivals
      <4> HIDE DEF old, new
      <4>2. Cardinality(new) = Cardinality(old) + 1
        BY <2>1, <4>1, FS_AddElement
      <4>3. r.approval_rejections = d.approval_rejections + 1
        BY <1>2, <3>3
      <4>4. r.approval_rejections <= Cardinality(new)
        BY <1>1, <2>1, <3>2, <4>2, <4>3
      <4> QED BY <4>4 DEF new
    <3>4. CASE e.type # "ApprovalRejected"
      <4>1. new = old /\ r.approval_rejections = d.approval_rejections
        BY <1>2, <1>3, <2>4, <3>4
      <4> QED BY <3>2, <4>1
    <3> QED BY <3>3, <3>4
  <2> QED BY <2>3, <2>4
<1> QED BY <1>5, <1>6, <1>7, <1>8, <1>9, <1>10 DEF Account, k, r

LEMMA AccountInvNext ==
    ASSUME TranscriptInv, AccountInv, Told PROVE AccountInv'
<1>1. IsLog(ledger) /\ (durable = None <=> ledger = <<>>)
      /\ Replay(ledger)[Len(ledger)] = durable
  BY DEF TranscriptInv, LogInv
<1>2. CASE UNCHANGED <<durable, ledger>> \/ (durable' = None /\ ledger' = <<>>)
  BY <1>2 DEF AccountInv
<1>3. CASE \E e : Grows(e)
  <2>1. PICK e : Grows(e)
    BY <1>3
  <2>2. CASE e.type = "SessionStarted"
    <3>1. durable = None /\ ledger = <<>> /\ durable' = Fresh /\ ledger' = Append(<<>>, e)
      BY <1>1, <2>1, <2>2 DEF Grows, Reason, Apply
    <3>2. Replay(<<>>)[0] = None
      BY EmptyLog, ReplayDefined
    <3>3. Account(Append(<<>>, e), Fresh)
      BY <2>2, <3>2, AccountStarts
    <3> QED BY <3>1, <3>3 DEF AccountInv
  <2>3. CASE e.type # "SessionStarted"
    <3>1. Reason(e, ledger, Len(ledger), durable) /\ durable # None
      BY <2>1, <2>3 DEF Grows, Reason, UnderWay
    <3>2. Account(ledger, durable)
      BY <3>1 DEF AccountInv
    <3>3. Account(Append(ledger, e), Apply(durable, e))
      BY <1>1, <2>3, <3>1, <3>2, AccountGrows
    <3> QED BY <2>1, <3>3 DEF AccountInv, Grows
  <2> QED BY <2>2, <2>3
<1> QED BY <1>2, <1>3 DEF Told

LEMMA AccountInvAlways ==
    KeepLedger /\ "unsynced" \notin Faults /\ Spec => [](TranscriptInv /\ AccountInv)
<1>1. CASE ~KeepLedger
  BY <1>1
<1>2. CASE KeepLedger
  <2>1. Sound /\ TranscriptInv /\ AccountInv /\ [Next]_vars => AccountInv'
    BY <1>2, TranscriptInvNext, AccountInvNext
  <2>2. Init => AccountInv
    BY DEF Init, AccountInv
  <2> QED BY <1>2, <2>1, <2>2, SoundAlways, TranscriptInvAlways, PTL DEF Spec
<1> QED BY <1>1, <1>2

\* Accepting a final milestone appends to the transcript after the check.
LEMMA FinalChecked ==
    ASSUME [Next]_vars, Active, IsFinal(session.position.macro),
           \/ /\ Len(ledger') > Len(ledger)
              /\ ledger'[Len(ledger')] = MilestoneAccepted
           \/ pc' = "accepting",
           IsLog(ledger)
    PROVE  ArtifactsVerify
<1>1. CASE AcceptUncontracted \/ WriteOutput \/ ViolateOutput
  BY <1>1 DEF AcceptUncontracted, WriteOutput, ViolateOutput
<1>2. pc = "idle"
  BY DEF Active
<1>3. ~Continuation /\ ~Recover /\ ~StartSession
  BY <1>2 DEF Active, Continuation, EnterGate, Publish, AdvanceApproved,
     TripApprovalLimit, TripMaxIterations, TripRepetitiveLoop, LoopBack,
     StayRejected, AdvanceMacro, AcceptDelivered, Complete, RecordArtifact,
     Recover, StartSession
<1>4. Len(ledger) \in Nat
  BY LogShape
<1>5. ~Environment /\ ~StoreBlob /\ ~UNCHANGED vars
  BY <1>2, <1>4 DEF Environment, Sign, Expire, Tamper, Crash, StoreBlob, vars
<1>6. ~AcceptMilestone
  BY DEF AcceptMilestone, Completed
<1>7. CASE \/ GlobalTimeout \/ AdvanceUngated \/ AcceptApproval \/ RejectApproval
           \/ RejectChecklist
  <2>1. PICK e, before, after, next :
          /\ Attempt(e, before, after, next)
          /\ e.type # MilestoneAccepted.type /\ next # "accepting"
    <3>1. CASE GlobalTimeout
      BY <3>1 DEF GlobalTimeout, Trip, CircuitBreakerTriggered, MilestoneAccepted
    <3>2. CASE AdvanceUngated
      <4>1. Arrived(At(session.position.macro,
                       NextEnabled(session.position.macro, session.position.sub))) # "accepting"
        BY DEF Arrived, Settled
      <4> QED BY <3>2, <4>1 DEF AdvanceUngated, AdvancePlain, SubStateAdvanced,
             MilestoneAccepted
    <3>3. CASE AcceptApproval
      BY <3>3 DEF AcceptApproval, ApprovalAccepted, MilestoneAccepted
    <3>4. CASE RejectApproval
      BY <3>4 DEF RejectApproval, ApprovalRejected, MilestoneAccepted
    <3>5. CASE RejectChecklist
      BY <3>5 DEF RejectChecklist, MilestoneRejected, MilestoneAccepted
    <3> QED BY <1>7, <3>1, <3>2, <3>3, <3>4, <3>5
  <2>2. pc' # "accepting"
    BY <2>1 DEF Attempt
  <2>3. ledger' = ledger \/ ledger' = Append(ledger, e)
    BY <2>1 DEF Attempt, AppendFails, Log
  <2>4. ledger' = Append(ledger, e) => ledger'[Len(ledger')] = e
    BY LogAppended
  <2> QED BY <1>4, <2>1, <2>2, <2>3, <2>4
<1> QED BY <1>1, <1>3, <1>5, <1>6, <1>7 DEF Next, Submission

\* The final milestone is accepted, and its deliverable written, only while
\* every artifact the transcript records verifies.
THEOREM ArtifactsAreVerified == "unsynced" \notin Faults /\ Spec => ArtifactsVerified
<1> DEFINE Step == /\ Active /\ IsFinal(session.position.macro)
                   /\ \/ /\ Len(ledger') > Len(ledger)
                         /\ ledger'[Len(ledger')] = MilestoneAccepted
                      \/ pc' = "accepting"
                   => Recorded \cap tampered = {}
<1>1. Sound /\ TranscriptInv /\ AccountInv /\ [Next]_vars => Step
  <2> SUFFICES ASSUME Sound, TranscriptInv, AccountInv, [Next]_vars,
                      Active, IsFinal(session.position.macro),
                      \/ /\ Len(ledger') > Len(ledger)
                         /\ ledger'[Len(ledger')] = MilestoneAccepted
                      \/ pc' = "accepting"
               PROVE  Recorded \cap tampered = {}
    OBVIOUS
  <2>1. ArtifactsVerify
    BY FinalChecked DEF TranscriptInv, LogInv
  <2>2. session.artifacts = durable.artifacts /\ durable # None
    BY AtWork DEF Stands
  <2>3. Tracked(ledger, durable)
    BY <2>2 DEF AccountInv, Account
  <2>4. Recorded \subseteq session.artifacts
    BY <2>2, <2>3, Entries DEF Recorded, Entry, Tracked
  <2> QED BY <2>1, <2>4 DEF ArtifactsVerify
<1>2. ledger = <<>> => Recorded = {}
  BY DEF Recorded
<1>3. CASE KeepLedger
  BY <1>1, <1>3, SoundAlways, AccountInvAlways, PTL DEF Spec, ArtifactsVerified
<1>4. CASE ~KeepLedger
  <2>1. ledger = <<>> => Step
    BY <1>2
  <2> QED BY <1>4, <2>1, NoTranscript, PTL DEF ArtifactsVerified
<1> QED BY <1>3, <1>4

-----------------------------------------------------------------------------
(* The step metrics.                                                       *)

LEMMA StepsAre ==
    ASSUME TranscriptInv
    PROVE  /\ DOMAIN ledger = 1..Len(ledger) /\ Len(ledger) \in Nat /\ IsLog(ledger)
           /\ \A i \in 1..Len(ledger) : StepIds[i] = StepId(ledger, i)
           /\ \A step : EventsAt(StepIds, step) =
                          {i \in 1..Len(ledger) : StepId(ledger, i) = step}
<1>1. DOMAIN ledger = 1..Len(ledger) /\ Len(ledger) \in Nat /\ Replayed = Replay(ledger)
  BY Entries
<1>2. \A i \in 1..Len(ledger) : StepIds[i] = StepId(ledger, i)
  BY <1>1 DEF StepIds, StepId
<1>3. \A step : EventsAt(StepIds, step) = {i \in 1..Len(ledger) : StepId(ledger, i) = step}
  BY <1>1, <1>2 DEF EventsAt
<1> QED BY <1>1, <1>2, <1>3 DEF TranscriptInv, LogInv

\* A MacroAdvanced right after an acceptance leaves its macro behind.
LEMMA AdvanceLeaves ==
    ASSUME TranscriptInv, AccountInv, durable # None,
           NEW i \in 1..Len(ledger), i + 1 \in 1..Len(ledger),
           NEW m \in Macros, StepId(ledger, i) = Gate(m),
           ledger[i].type = "MilestoneAccepted", ledger[i + 1].type = "MacroAdvanced"
    PROVE  Left(durable, m)
<1> DEFINE b == Replay(ledger)[i - 1]
           d == Replay(ledger)[i]
           e == ledger[i + 1]
<1>1. d = Apply(b, ledger[i]) /\ UnderWay(b)
  BY Entries DEF Reason
<1>2. b.position = Gate(m)
  BY DEF StepId, Arrivals
<1>3. d = b
  BY <1>1 DEF Apply, UnderWay
<1>4. /\ Reason(e, ledger, i, d)
      /\ Replay(ledger)[i + 1] = Apply(d, e)
  <2>1. (i + 1) - 1 = i
    OBVIOUS
  <2> QED BY <2>1, Entries
<1>5. StepId(ledger, i + 1) = Apply(d, e).position
  BY <1>4 DEF StepId, Arrivals
<1>6. UnderWay(d) /\ EventOK(e) /\ e.to = d.position.macro + 1 /\ e.type = "MacroAdvanced"
  BY <1>4 DEF Reason
<1> HIDE DEF b, d, e
<1>7. Apply(d, e).position = At(m + 1, FirstEnabled(m + 1))
  <2>1. d.position.macro = m
    BY <1>2, <1>3 DEF Gate, At
  <2>2. Apply(d, e).position = At(e.to, FirstEnabled(e.to))
    BY <1>6, ApplyReads DEF UnderWay
  <2> QED BY <1>6, <2>1, <2>2
<1>8. StepId(ledger, i + 1).macro = m + 1
  BY <1>5, <1>7 DEF At
<1>9. durable.position # None => m + 1 <= durable.position.macro
  BY <1>8 DEF AccountInv, Account, Reached
<1>10. durable.position # None => durable.position.macro \in Nat
  <2>1. durable \in SessionState
    <3>1. durable = Replay(ledger)[Len(ledger)] /\ Len(ledger) \in 1..Len(ledger)
          /\ Replay(ledger)[Len(ledger)]
               = Apply(Replay(ledger)[Len(ledger) - 1], ledger[Len(ledger)])
          /\ Reason(ledger[Len(ledger)], ledger, Len(ledger) - 1,
                    Replay(ledger)[Len(ledger) - 1])
      BY Entries
    <3>2. durable = None \/ Held(durable)
      BY <3>1, ReplayHeld DEF Reason, UnderWay
    <3> QED BY <3>2 DEF Held
  <2> QED BY <2>1, MacrosTyped DEF SessionState, Positions
<1>11. m \in Nat
  BY MacrosTyped
<1> QED BY <1>9, <1>10, <1>11 DEF Left

\* The metrics agree with what the recovery makes of the same transcript on
\* how the session ended, and on which checklists it has behind it.
THEOREM MetricsAgree == "unsynced" \notin Faults /\ Spec => []MetricsFollow
<1>1. TranscriptInv /\ AccountInv /\ Sound => MetricsFollow
  <2> SUFFICES ASSUME TranscriptInv, AccountInv, Sound, Read PROVE
        /\ MetricsStatus = durable.status
        /\ \A m \in Macros :
             LET left == durable.position = None \/ m < durable.position.macro
                 cutShort == \E i \in EventsAt(StepIds, Gate(m)) :
                                /\ ledger[i].type = "MilestoneAccepted"
                                /\ \/ i = Len(ledger)
                                   \/ ledger[i + 1].type \notin {"MacroAdvanced", "SessionCompleted"}
             IN  /\ left => Passed(StepIds, Gate(m))
                 /\ Passed(StepIds, Gate(m)) => left \/ cutShort
    BY DEF MetricsFollow
  <2>1. durable # None /\ Account(ledger, durable) /\ durable.status \in Status
    BY DEF Read, TranscriptInv, LogInv, AccountInv, Sound, TypeInv, SessionInv, Held,
       SessionState
  <2>2. /\ DOMAIN ledger = 1..Len(ledger) /\ Len(ledger) \in Nat
        /\ \A step : EventsAt(StepIds, step) =
                       {i \in 1..Len(ledger) : StepId(ledger, i) = step}
    BY StepsAre
  <2>3. MetricsStatus = durable.status
    <3>1. \A type : type \in {e.type : e \in Range(ledger)} <=>
                      \E i \in 1..Len(ledger) : ledger[i].type = type
      BY <2>2 DEF Range
    <3> QED BY <2>1, <3>1 DEF MetricsStatus, Account, Concluded, Status
  <2>4. ASSUME NEW m \in Macros, Left(durable, m) PROVE Passed(StepIds, Gate(m))
    BY <2>1, <2>2, <2>4 DEF Account, LeftPassed, Passed
  <2>5. ASSUME NEW m \in Macros, Passed(StepIds, Gate(m)), ~Left(durable, m)
        PROVE  \E i \in EventsAt(StepIds, Gate(m)) :
                  /\ ledger[i].type = "MilestoneAccepted"
                  /\ \/ i = Len(ledger)
                     \/ ledger[i + 1].type \notin {"MacroAdvanced", "SessionCompleted"}
    <3>1. PICK i \in 1..Len(ledger) : StepId(ledger, i) = Gate(m) /\ IsPassEvent(ledger[i])
      BY <2>2, <2>5 DEF Passed
    <3>2. \A j \in 1..Len(ledger) : ledger[j].type # "SessionCompleted"
      BY <2>1, <2>5 DEF Account, Concluded, Left
    <3>3. ledger[i].type = "MilestoneAccepted"
      BY <3>1, <3>2 DEF IsPassEvent
    <3>n. Len(ledger) \in Nat
      BY <2>2
    <3>4. i # Len(ledger) => i + 1 \in 1..Len(ledger)
      BY <3>n
    <3>5. i # Len(ledger) => ledger[i + 1].type # "MacroAdvanced"
      BY <2>1, <2>5, <3>1, <3>3, <3>4, AdvanceLeaves
    <3> QED BY <2>2, <3>1, <3>2, <3>3, <3>4, <3>5
  <2> QED BY <2>3, <2>4, <2>5 DEF Left
<1>2. ledger = <<>> => MetricsFollow
  BY DEF MetricsFollow, Read
<1>3. CASE KeepLedger
  BY <1>1, <1>3, AccountInvAlways, SoundAlways, PTL
<1>4. CASE ~KeepLedger
  BY <1>2, <1>4, NoTranscript, PTL
<1> QED BY <1>3, <1>4

\* A checklist is no gate.
LEMMA GateOfChecklist ==
    ASSUME NEW m \in Macros PROVE KindAt(Gate(m)) = "checklist"
<1>1. Trailing(m) \in EnabledSubs(m)
  BY MacrosTyped
<1>2. OnStep(Gate(m)) /\ Gate(m).sub = Trailing(m) /\ Gate(m).macro = m
  BY <1>1, OnStepAt DEF Gate
<1> QED BY <1>2, ChecklistTrails

\* The friction the metrics report is the one the breakers act on, across
\* loop-backs, restarts and lost events.
THEOREM RejectionsAgree == "unsynced" \notin Faults /\ Spec => []RejectionsCounted
<1>1. TranscriptInv /\ AccountInv /\ Sound => RejectionsCounted
  <2> DEFINE gate == Gate(durable.position.macro)
             violations == {i \in EventsAt(StepIds, gate) : Entry(i, "OutputContractViolated")}
  <2> SUFFICES ASSUME TranscriptInv, AccountInv, Sound, Read, durable.position # None
               PROVE  /\ Rejections(StepIds, gate)
                           <= durable.macro_iteration + Cardinality(violations)
                      /\ HoldsChallenge(durable) =>
                           durable.approval_rejections <= Rejections(StepIds, durable.position)
    BY DEF RejectionsCounted
  <2>1. /\ durable # None /\ Account(ledger, durable) /\ durable \in SessionState
    BY DEF Read, TranscriptInv, LogInv, AccountInv, Sound, TypeInv, SessionInv, Held
  <2>2. /\ DOMAIN ledger = 1..Len(ledger) /\ Len(ledger) \in Nat /\ IsLog(ledger)
        /\ \A step : EventsAt(StepIds, step) =
                       {i \in 1..Len(ledger) : StepId(ledger, i) = step}
    BY StepsAre
  <2>3. ASSUME NEW step
        PROVE  {i \in EventsAt(StepIds, step) : ledger[i].type \in Friction}
                 = EventsOf(ledger, step, "MilestoneRejected")
                     \cup EventsOf(ledger, step, "ApprovalRejected")
                     \cup EventsOf(ledger, step, "OutputContractViolated")
    BY <2>2 DEF EventsOf, Friction
  <2>4. durable.position.macro \in Macros /\ durable.macro_iteration \in Nat
    BY <2>1 DEF SessionState, Positions
  <2>5. Rejections(StepIds, gate) <= durable.macro_iteration + Cardinality(violations)
    <3> DEFINE mine == EventsOf(ledger, gate, "MilestoneRejected")
               other == EventsOf(ledger, gate, "OutputContractViolated")
    <3>1. EventsOf(ledger, gate, "ApprovalRejected") = {}
      <4>1. ASSUME NEW i \in EventsOf(ledger, gate, "ApprovalRejected") PROVE FALSE
        <5>1. i \in 1..Len(ledger) /\ StepId(ledger, i) = gate
              /\ ledger[i].type = "ApprovalRejected"
          BY <4>1 DEF EventsOf
        <5>2. KindAt(Replay(ledger)[i - 1].position) = "human_approval"
          BY <5>1, Entries DEF Reason
        <5>3. Replay(ledger)[i - 1].position = gate
          BY <5>1 DEF StepId, Arrivals
        <5> HIDE DEF gate
        <5>4. KindAt(gate) = "checklist"
          BY <2>4, GateOfChecklist DEF gate
        <5> QED BY <5>2, <5>3, <5>4
      <4> HIDE DEF gate
      <4> QED BY <4>1
    <3>2. violations = other
      BY <2>2 DEF EventsOf, Entry
    <3>3. Rejections(StepIds, gate) = Cardinality(mine \cup other)
      BY <2>3, <3>1 DEF Rejections
    <3>4. /\ IsFiniteSet(mine) /\ Cardinality(mine) \in Nat
          /\ IsFiniteSet(other) /\ Cardinality(other) \in Nat
      BY <2>2, EventsFinite
    <3>5. Cardinality(mine) <= durable.macro_iteration
      BY <2>1 DEF Account, FewRejections
    <3> HIDE DEF mine, other, violations, gate
    <3>6. mine \cap other \in SUBSET mine
      OBVIOUS
    <3>7. Cardinality(mine \cap other) \in Nat
      BY <3>4, <3>6, FS_Subset, FS_CardinalityType
    <3>8. Cardinality(mine \cup other)
            = Cardinality(mine) + Cardinality(other) - Cardinality(mine \cap other)
      BY <3>4, FS_Union
    <3> QED BY <2>4, <3>2, <3>3, <3>4, <3>5, <3>7, <3>8
  <2>6. ASSUME HoldsChallenge(durable)
        PROVE  durable.approval_rejections <= Rejections(StepIds, durable.position)
    <3> DEFINE p == durable.position
               all == {i \in EventsAt(StepIds, p) : ledger[i].type \in Friction}
               mine == EventsOf(ledger, p, "ApprovalRejected")
    <3>1. durable.approval_rejections <= Cardinality(mine)
      BY <2>1, <2>6 DEF Account, ManyRefusals
    <3>2. mine \subseteq all /\ IsFiniteSet(all)
      <4>1. all = EventsOf(ledger, p, "MilestoneRejected")
                     \cup EventsOf(ledger, p, "ApprovalRejected")
                     \cup EventsOf(ledger, p, "OutputContractViolated")
        BY <2>3
      <4>2. \A type : IsFiniteSet(EventsOf(ledger, p, type))
        BY <2>2, EventsFinite
      <4> HIDE DEF all, p
      <4>3. IsFiniteSet(EventsOf(ledger, p, "MilestoneRejected")
                          \cup EventsOf(ledger, p, "ApprovalRejected"))
        BY <4>2, FS_Union
      <4> QED BY <4>1, <4>2, <4>3, FS_Union
    <3>3. Rejections(StepIds, p) = Cardinality(all)
      BY DEF Rejections
    <3>4. durable.approval_rejections \in Nat
      BY <2>1 DEF SessionState
    <3> HIDE DEF all, mine, p
    <3>5. Cardinality(mine) <= Cardinality(all) /\ Cardinality(mine) \in Nat
          /\ Cardinality(all) \in Nat
      BY <3>2, FS_Subset, FS_CardinalityType
    <3>6. durable.approval_rejections <= Rejections(StepIds, p)
      BY <3>1, <3>3, <3>4, <3>5
    <3> QED BY <3>6 DEF p
  <2> QED BY <2>5, <2>6
<1>2. ledger = <<>> => RejectionsCounted
  BY DEF RejectionsCounted, Read
<1>3. CASE KeepLedger
  BY <1>1, <1>3, AccountInvAlways, SoundAlways, PTL
<1>4. CASE ~KeepLedger
  BY <1>2, <1>4, NoTranscript, PTL
<1> QED BY <1>3, <1>4

-----------------------------------------------------------------------------
(* What the root of the transcript proves.  No fault can harm it.          *)

Writes ==
    \/ ledger' \in {ledger, <<>>}
    \/ \E e : ledger' = Append(ledger, e)

LEMMA LogWrites == ASSUME NEW e, Log(e) PROVE Writes
BY DEF Log, Writes

LEMMA AttemptWrites ==
    ASSUME NEW e, NEW before, NEW after, NEW next, Attempt(e, before, after, next)
    PROVE  Writes
BY LogWrites DEF Attempt, AppendFails, Writes

LEMMA StepWrites == [Next]_vars => Writes
<1> SUFFICES ASSUME [Next]_vars PROVE Writes
  OBVIOUS
<1>1. CASE Environment
  BY <1>1 DEF Environment, Sign, Expire, Tamper, Crash, Writes
<1>2. CASE Submission
  BY <1>2, AttemptWrites DEF Submission, GlobalTimeout, AdvanceUngated, AdvancePlain,
     AcceptApproval, RejectApproval, RejectChecklist, AcceptMilestone, ViolateOutput,
     WriteOutput, AcceptUncontracted, AcceptFinal, Trip, Writes
<1>3. CASE Continuation
  BY <1>3, AttemptWrites, LogWrites DEF Continuation, EnterGate, Publish, AdvanceApproved,
     AdvancePlain, TripApprovalLimit, TripMaxIterations, TripRepetitiveLoop, LoopBack,
     StayRejected, AdvanceMacro, AcceptDelivered, AcceptFinal, Complete, RecordArtifact,
     Trip, StartAborted, Writes
<1>4. CASE StartSession \/ Recover \/ StoreBlob \/ UNCHANGED vars
  BY <1>4, LogWrites DEF StartSession, Recover, StoreBlob, StartAborted, Writes, vars
<1> QED BY <1>1, <1>2, <1>3, <1>4 DEF Next

LEMMA LedgerIsLog == Spec => []IsLog(ledger)
<1>1. Init => IsLog(ledger)
  BY EmptyLog DEF Init
<1>2. IsLog(ledger) /\ [Next]_vars => IsLog(ledger)'
  <2> SUFFICES ASSUME IsLog(ledger), [Next]_vars PROVE IsLog(ledger')
    BY DEF IsLog
  <2>1. CASE ledger' = ledger \/ ledger' = <<>>
    BY <2>1, EmptyLog
  <2>2. CASE \E e : ledger' = Append(ledger, e)
    <3>1. PICK e : ledger' = Append(ledger, e)
      BY <2>2
    <3>2. IsLog(Append(ledger, e))
      BY LogAppended
    <3> QED BY ONLY <3>1, <3>2
  <2> QED BY <2>1, <2>2, StepWrites DEF Writes
<1> QED BY <1>1, <1>2, PTL DEF Spec

\* Every event of a completed session is proved by the path that is issued for
\* it, at its place and at no other, under every fault (the proof and
\* verify_proof of merkle.rs over the lines of the ledger).
THEOREM InclusionIsProven == Spec => []InclusionProven
<1>1. IsLog(ledger) => InclusionProven
  <2> SUFFICES ASSUME IsLog(ledger),
                      NEW j \in 1..Len(ledger),
                      NEW i \in {j - 1, j, j + 1} \cap 1..Len(ledger)
               PROVE  VerifyProof(Root(ledger), ledger[i], j - 1, Len(ledger),
                                  [k \in 1..Len(ledger) |-> Path(ledger, k - 1)][j])
                        <=> ledger[i] = ledger[j]
    BY DEF InclusionProven
  <2>1. Len(ledger) \in Nat
    BY LogShape
  <2>2. j - 1 \in Nat /\ j - 1 < Len(ledger) /\ (j - 1) + 1 = j
    BY <2>1
  <2>3. /\ IsLog(Path(ledger, j - 1))
        /\ VerifyProof(Root(ledger), ledger[(j - 1) + 1], j - 1, Len(ledger),
                       Path(ledger, j - 1))
    BY <2>2, IssuedPathProves
  <2>4. VerifyProof(Root(ledger), ledger[i], j - 1, Len(ledger), Path(ledger, j - 1))
          => ledger[i] = ledger[(j - 1) + 1]
    BY <2>2, <2>3, RootBinds
  <2> QED BY <2>2, <2>3, <2>4
<1> QED BY <1>1, LedgerIsLog, PTL

=============================================================================
