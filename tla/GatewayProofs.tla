---------------------------- MODULE GatewayProofs ----------------------------
(***************************************************************************)
(* What the gateway keeps of one session, for every number of processes,   *)
(* of calls in progress and of failures.                                   *)
(***************************************************************************)
EXTENDS Gateway, TLAPS

-----------------------------------------------------------------------------
(* The inductive invariant, wherever callers turn.                         *)

Claimed == {"loading", "cleaning", "registering"}

\* While a start owns the file, nothing else has come of the session.
Owned ==
    \A c \in Calls : pc[c] \in Claimed =>
        /\ file # None /\ ~sidecar /\ acked = {}
        /\ \A p \in Processes : registry[p] = None
        /\ \A d \in Calls \ {c} : pc[d] \in {"idle", "claiming", "recovering"}
        /\ pc[c] = "loading" => file = <<>>
        /\ pc[c] = "registering" => file = <<0>> /\ engine[c] = 1
        /\ pc[c] = "cleaning" => file \in {<<>>, <<0>>}

Absent ==
    file = None =>
        /\ ~sidecar /\ acked = {}
        /\ \A p \in Processes : registry[p] = None
        /\ \A c \in Calls : pc[c] \in {"idle", "claiming", "recovering"}

Begun ==
    /\ file \notin {None, <<>>} => file[1] = 0
    /\ (\E p \in Processes : registry[p] # None) \/ (\E c \in Calls : pc[c] = "installing")
         => file \notin {None, <<>>}

Live ==
    \A c \in Calls :
        /\ pc[c] \in {"noting", "executing"} => registry[Home[c]] # None
        /\ pc[c] = "executing" => handle[c] = registry[Home[c]]

Kept ==
    faults["crash"] = 0 /\ faults["remove"] = 0 /\ file # None =>
        \/ \E c \in Calls : pc[c] \in Claimed
        \/ \E p \in Processes : registry[p] # None

SafeInv == TypeOK /\ Owned /\ Absent /\ Begun /\ Live /\ AckedStays /\ Kept

-----------------------------------------------------------------------------
(* Ledgers.                                                                *)

LEMMA EventsAppended ==
    ASSUME NEW f \in Seq(Nat), NEW n \in Nat
    PROVE  /\ Append(f, n) \in Seq(Nat) /\ Append(f, n) # <<>>
           /\ Events(Append(f, n)) = Events(f) \cup {n}
           /\ f # <<>> => Append(f, n)[1] = f[1]
<1>1. DOMAIN Append(f, n) = 1..(Len(f) + 1) /\ DOMAIN f = 1..Len(f) /\ Len(f) \in Nat
  OBVIOUS
<1>2. \A i \in 1..Len(f) : Append(f, n)[i] = f[i]
  OBVIOUS
<1>3. Append(f, n)[Len(f) + 1] = n
  OBVIOUS
<1>4. Events(Append(f, n)) = Events(f) \cup {n}
  BY <1>1, <1>2, <1>3 DEF Events
<1> QED BY <1>4

LEMMA LastOfSeq ==
    ASSUME NEW S, NEW f \in Seq(S), f # <<>>
    PROVE  f[Len(f)] \in S
<1>1. Len(f) \in Nat /\ Len(f) # 0
  OBVIOUS
<1> QED BY <1>1

LEMMA Files ==
    /\ None \notin Calls /\ <<>> # None /\ <<>> \in Seq(0..LastStep)
    /\ \A f \in Seq(0..LastStep) :
         /\ f # None /\ f \in Seq(Nat)
         /\ \A n \in 0..LastStep : Append(f, n) \in Seq(0..LastStep)
         /\ \A n \in 0..LastStep : Append(f, n) # None /\ Append(f, n) # <<>>
         /\ f # <<>> => f[Len(f)] \in 0..LastStep
<1>1. LastStep \in Nat /\ None \notin Seq(Nat) /\ None \notin Calls
  BY GatewayAssumption
<1>2. ASSUME NEW f \in Seq(0..LastStep) PROVE f \in Seq(Nat) /\ f # None
  BY <1>1
<1>3. ASSUME NEW f \in Seq(0..LastStep), NEW n \in 0..LastStep
      PROVE  Append(f, n) \in Seq(0..LastStep) /\ Append(f, n) # <<>>
  OBVIOUS
<1>4. ASSUME NEW f \in Seq(0..LastStep), f # <<>> PROVE f[Len(f)] \in 0..LastStep
  BY <1>4, LastOfSeq
<1>5. <<>> \in Seq(0..LastStep)
  OBVIOUS
<1> QED BY <1>1, <1>2, <1>3, <1>4, <1>5

LEMMA FirstIn ==
    ASSUME NEW f \in Seq(0..LastStep), f # <<>>
    PROVE  f[1] \in Events(f)
<1>1. 1 \in DOMAIN f
  OBVIOUS
<1> QED BY <1>1 DEF Events

\* A failure is counted among those of its kind.
LEMMA Faulted ==
    ASSUME faults \in [FaultKinds -> Nat], NEW kind \in FaultKinds, Fault(kind)
    PROVE  /\ faults' \in [FaultKinds -> Nat]
           /\ faults'[kind] # 0
           /\ \A other \in FaultKinds \ {kind} : faults'[other] = faults[other]
<1> DEFINE n == faults[kind] + 1
<1>1. n \in Nat /\ n # 0
  OBVIOUS
<1>2. faults' = [faults EXCEPT ![kind] = n]
  BY DEF Fault
<1> HIDE DEF n
<1> QED BY <1>1, <1>2

\* What a failed start has claimed is removed, or the failure to is counted.
LEMMA Discarded ==
    ASSUME faults \in [FaultKinds -> Nat], Discard
    PROVE  /\ faults' \in [FaultKinds -> Nat]
           /\ \/ file' = None /\ faults' = faults
              \/ file' = file /\ faults'["remove"] # 0
<1>1. "remove" \in FaultKinds
  BY DEF FaultKinds
<1> QED BY <1>1, Faulted DEF Discard, Cleaned

-----------------------------------------------------------------------------
(* Every step keeps it.                                                    *)

LEMMA StartSafe ==
    ASSUME SafeInv, NEW c \in Calls, Start(c)
    PROVE  SafeInv'
<1> USE GatewayAssumption, Files DEF SafeInv, TypeOK, Owned, Absent, Begun,
    Live, Claimed, Starting, Serving, Start, Goto
<1>1. TypeOK'
  OBVIOUS
<1>2. Owned'
  OBVIOUS
<1>3. Absent'
  OBVIOUS
<1>4. Begun'
  OBVIOUS
<1>5. Live'
  OBVIOUS
<1>6. AckedStays'
  BY DEF AckedStays
<1>7. Kept'
  BY DEF Kept
<1> QED BY <1>1, <1>2, <1>3, <1>4, <1>5, <1>6, <1>7

LEMMA ClaimSafe ==
    ASSUME SafeInv, NEW c \in Calls, Claim(c)
    PROVE  SafeInv'
<1> USE GatewayAssumption, Files DEF SafeInv, TypeOK, Owned, Absent, Begun,
    Live, Claimed, Starting, Serving, Claim, Goto, Claimable, Attached,
    ClaimRefused
<1>1. TypeOK'
  BY ZenonT(60)
<1>2. Owned'
  OBVIOUS
<1>3. Absent'
  OBVIOUS
<1>4. Begun'
  OBVIOUS
<1>5. Live'
  OBVIOUS
<1>6. AckedStays'
  BY DEF AckedStays
<1>7. Kept'
  BY DEF Kept
<1> QED BY <1>1, <1>2, <1>3, <1>4, <1>5, <1>6, <1>7

LEMMA LoadSafe ==
    ASSUME SafeInv, NEW c \in Calls, Load(c)
    PROVE  SafeInv'
<1> USE GatewayAssumption, Files DEF SafeInv, TypeOK, Owned, Absent, Begun,
    Live, Claimed, Starting, Serving, Load, Goto, Attached
<1>a. <<0>> \in Seq(0..LastStep) /\ <<0>>[1] = 0 /\ <<0>> # None
  <2>1. <<0>> \in Seq(0..LastStep) /\ <<0>>[1] = 0
    OBVIOUS
  <2> QED BY <2>1, Files
<1>b. file = <<>> /\ Append(Attached(file), 0) = <<0>>
  <2>1. file = <<>>
    OBVIOUS
  <2>2. Append(<<>>, 0) = <<0>>
    OBVIOUS
  <2> QED BY <2>1, <2>2
<1>1. TypeOK'
  <2>1. 1 \in Positions
    BY DEF Positions
  <2>2. file' \in Seq(0..LastStep) /\ engine' \in [Calls -> Positions]
    BY <1>a, <1>b, <2>1
  <2> QED BY <2>2
<1>2. Owned'
  <2>1. file' = <<0>> /\ file' # None /\ engine'[c] = 1
    BY <1>a, <1>b
  <2>2. pc' = [pc EXCEPT ![c] = "registering"]
    OBVIOUS
  <2>3. \A d \in Calls \ {c} : pc'[d] \in {"idle", "claiming", "recovering"}
    BY <2>2
  <2> QED BY <1>b, <2>1, <2>2, <2>3
<1>3. Absent'
  OBVIOUS
<1>4. Begun'
  BY <1>a, <1>b
<1>5. Live'
  OBVIOUS
<1>6. AckedStays'
  BY DEF AckedStays
<1>7. Kept'
  BY DEF Kept
<1> QED BY <1>1, <1>2, <1>3, <1>4, <1>5, <1>6, <1>7

LEMMA LoadFailsSafe ==
    ASSUME SafeInv, NEW c \in Calls, LoadFails(c)
    PROVE  SafeInv'
<1> USE GatewayAssumption, Files DEF SafeInv, TypeOK, Owned, Absent, Begun,
    Live, Claimed, Starting, Serving, LoadFails, Goto, Attached
<1>0. /\ faults' \in [FaultKinds -> Nat]
      /\ faults'["crash"] = faults["crash"] /\ faults'["remove"] = faults["remove"]
  BY Faulted DEF FaultKinds
<1>a. <<0>> \in Seq(0..LastStep) /\ <<0>>[1] = 0 /\ <<0>> # None
  <2>1. <<0>> \in Seq(0..LastStep) /\ <<0>>[1] = 0
    OBVIOUS
  <2> QED BY <2>1, Files
<1>b. file = <<>> /\ Append(Attached(file), 0) = <<0>>
  <2>1. file = <<>>
    OBVIOUS
  <2>2. Append(<<>>, 0) = <<0>>
    OBVIOUS
  <2> QED BY <2>1, <2>2
<1>1. TypeOK'
  <2>1. file' = <<>> \/ file' = <<0>>
    BY <1>b
  <2>2. file' \in Seq(0..LastStep)
    BY <1>a, <2>1
  <2> QED BY <1>0, <2>2
<1>2. Owned'
  <2>1. file' \in {<<>>, <<0>>} /\ file' # None
    <3>1. file' = file \/ file' = Append(Attached(file), 0)
      OBVIOUS
    <3> QED BY <1>a, <1>b, <3>1
  <2>2. pc' = [pc EXCEPT ![c] = "cleaning"]
    OBVIOUS
  <2>3. \A d \in Calls \ {c} : pc'[d] \in {"idle", "claiming", "recovering"}
    BY <2>2
  <2> QED BY <1>b, <2>1, <2>2, <2>3
<1>3. Absent'
  BY <1>0
<1>4. Begun'
  BY <1>a, <1>b
<1>5. Live'
  BY <1>0
<1>6. AckedStays'
  BY <1>0 DEF AckedStays
<1>7. Kept'
  BY <1>0 DEF Kept
<1> QED BY <1>1, <1>2, <1>3, <1>4, <1>5, <1>6, <1>7

LEMMA CleanSafe ==
    ASSUME SafeInv, NEW c \in Calls, Clean(c)
    PROVE  SafeInv'
<1> USE GatewayAssumption, Files DEF SafeInv, TypeOK, Owned, Absent, Begun,
    Live, Claimed, Starting, Serving, Clean, Goto
<1>0. /\ faults' \in [FaultKinds -> Nat]
      /\ \/ file' = None /\ faults' = faults
         \/ file' = file /\ faults'["remove"] # 0
  BY Discarded
<1>1. TypeOK'
  BY <1>0
<1>2. Owned'
  BY <1>0
<1>3. Absent'
  BY <1>0
<1>4. Begun'
  BY <1>0
<1>5. Live'
  BY <1>0
<1>6. AckedStays'
  BY <1>0 DEF AckedStays
<1>7. Kept'
  BY <1>0 DEF Kept
<1> QED BY <1>1, <1>2, <1>3, <1>4, <1>5, <1>6, <1>7

LEMMA RegisterSafe ==
    ASSUME SafeInv, NEW c \in Calls, Register(c)
    PROVE  SafeInv'
<1> USE GatewayAssumption, Files DEF SafeInv, TypeOK, Owned, Absent, Begun,
    Live, Claimed, Starting, Serving
<1>0. /\ pc[c] = "registering" /\ registry[Home[c]] = None
      /\ registry' = [registry EXCEPT ![Home[c]] = c]
      /\ pc' = [pc EXCEPT ![c] = "noting"]
      /\ UNCHANGED <<file, sidecar, engine, target, handle, acked, faults>>
  <2>1. pc[c] = "registering" /\ registry[Home[c]] = None
    BY DEF Register
  <2> QED BY <2>1 DEF Register, Goto
<1>1. TypeOK'
  BY <1>0
<1>2. Owned'
  BY <1>0
<1>3. Absent'
  BY <1>0
<1>4. Begun'
  <2>1. file = <<0>> /\ file' = file
    BY <1>0
  <2>2. <<0>>[1] = 0 /\ <<0>> # <<>>
    OBVIOUS
  <2>3. file # None
    BY <1>0
  <2>4. file' # None /\ file' # <<>> /\ file'[1] = 0
    BY <2>1, <2>2, <2>3
  <2>5. file' \notin {None, <<>>}
    BY <2>4
  <2> QED BY <2>4, <2>5 DEF Begun
<1>5. Live'
  BY <1>0
<1>6. AckedStays'
  BY <1>0 DEF AckedStays
<1>7. Kept'
  BY <1>0 DEF Kept
<1> QED BY <1>1, <1>2, <1>3, <1>4, <1>5, <1>6, <1>7

LEMMA NoteSafe ==
    ASSUME SafeInv, NEW c \in Calls, Note(c)
    PROVE  SafeInv'
<1> USE GatewayAssumption, Files DEF SafeInv, TypeOK, Owned, Absent, Begun,
    Live, Claimed, Starting, Serving, Note, Goto
<1>0. /\ faults' \in [FaultKinds -> Nat]
      /\ faults'["crash"] = faults["crash"] /\ faults'["remove"] = faults["remove"]
  BY Faulted DEF FaultKinds
<1>1. TypeOK'
  <2>1. pc' \in [Calls -> {"idle"} \cup Starting \cup Serving]
    OBVIOUS
  <2>2. sidecar' \in BOOLEAN
    <3>1. sidecar \in BOOLEAN /\ (sidecar' = TRUE \/ sidecar' = sidecar)
      OBVIOUS
    <3> QED BY <3>1, Zenon
  <2>3. acked' \subseteq 0..LastStep
    <3>1. 0 \in 0..LastStep /\ acked \subseteq 0..LastStep
      OBVIOUS
    <3>2. acked' = acked \cup {0}
      OBVIOUS
    <3> QED BY <3>1, <3>2, Zenon
  <2> QED BY <1>0, <2>1, <2>2, <2>3
<1>2. Owned'
  BY <1>0
<1>3. Absent'
  BY <1>0
<1>4. Begun'
  BY <1>0
<1>5. Live'
  BY <1>0
<1>6. AckedStays'
  <2>1. registry[Home[c]] # None /\ Home[c] \in Processes
    <3>1. pc[c] = "noting"
      OBVIOUS
    <3> QED BY <3>1
  <2>2. file \notin {None, <<>>} /\ file[1] = 0
    BY <2>1
  <2>3. 0 \in Events(file)
    BY <2>2, FirstIn
  <2>4. file' = file /\ acked' = acked \cup {0}
    OBVIOUS
  <2> QED BY <2>2, <2>3, <2>4 DEF AckedStays
<1>7. Kept'
  BY <1>0 DEF Kept
<1> QED BY <1>1, <1>2, <1>3, <1>4, <1>5, <1>6, <1>7

LEMMA SubmitSafe ==
    ASSUME SafeInv, NEW c \in Calls, Submit(c)
    PROVE  SafeInv'
<1> USE GatewayAssumption, Files DEF SafeInv, TypeOK, Owned, Absent, Begun,
    Live, Claimed, Starting, Serving, Submit, Goto
<1>1. TypeOK'
  <2>1. target' \in [Calls -> 0..LastStep]
    OBVIOUS
  <2>2. handle' \in [Calls -> Calls \cup {None}]
    OBVIOUS
  <2>3. pc' \in [Calls -> {"idle"} \cup Starting \cup Serving]
    OBVIOUS
  <2> QED BY <2>1, <2>2, <2>3
<1>2. Owned'
  BY ZenonT(60)
<1>3. Absent'
  OBVIOUS
<1>4. Begun'
  OBVIOUS
<1>5. Live'
  OBVIOUS
<1>6. AckedStays'
  BY DEF AckedStays
<1>7. Kept'
  BY DEF Kept
<1> QED BY <1>1, <1>2, <1>3, <1>4, <1>5, <1>6, <1>7

LEMMA RecoverSafe ==
    ASSUME SafeInv, NEW c \in Calls, Recover(c)
    PROVE  SafeInv'
<1> USE GatewayAssumption, Files DEF SafeInv, TypeOK, Owned, Absent, Begun,
    Live, Claimed, Starting, Serving, Recover, Goto
<1>1. TypeOK'
  <2>1. Replayed(file) \in Positions
    <3>1. file[Len(file)] \in 0..LastStep
      OBVIOUS
    <3> QED BY <3>1 DEF Replayed, Positions
  <2>2. engine' \in [Calls -> Positions]
    BY <2>1
  <2> QED BY <2>2
<1>2. Owned'
  OBVIOUS
<1>3. Absent'
  OBVIOUS
<1>4. Begun'
  OBVIOUS
<1>5. Live'
  OBVIOUS
<1>6. AckedStays'
  BY DEF AckedStays
<1>7. Kept'
  BY DEF Kept
<1> QED BY <1>1, <1>2, <1>3, <1>4, <1>5, <1>6, <1>7

LEMMA RecoverFailsSafe ==
    ASSUME SafeInv, NEW c \in Calls, RecoverFails(c)
    PROVE  SafeInv'
<1> USE GatewayAssumption, Files DEF SafeInv, TypeOK, Owned, Absent, Begun,
    Live, Claimed, Starting, Serving, RecoverFails, Goto, Attached
<1>0. /\ faults' \in [FaultKinds -> Nat]
      /\ faults'["crash"] = faults["crash"] /\ faults'["remove"] = faults["remove"]
  BY Faulted DEF FaultKinds
<1>1. TypeOK'
  BY <1>0
<1>2. Owned'
  BY <1>0
<1>3. Absent'
  BY <1>0
<1>4. Begun'
  BY <1>0
<1>5. Live'
  BY <1>0
<1>6. AckedStays'
  BY <1>0 DEF AckedStays
<1>7. Kept'
  BY <1>0 DEF Kept
<1> QED BY <1>1, <1>2, <1>3, <1>4, <1>5, <1>6, <1>7

LEMMA InstallSafe ==
    ASSUME SafeInv, NEW c \in Calls, Install(c)
    PROVE  SafeInv'
<1> USE GatewayAssumption, Files DEF SafeInv, TypeOK, Owned, Absent, Begun,
    Live, Claimed, Starting, Serving, Install, Goto, Installed
<1>1. TypeOK'
  OBVIOUS
<1>2. Owned'
  OBVIOUS
<1>3. Absent'
  OBVIOUS
<1>4. Begun'
  OBVIOUS
<1>5. Live'
  OBVIOUS
<1>6. AckedStays'
  BY DEF AckedStays
<1>7. Kept'
  BY DEF Kept
<1> QED BY <1>1, <1>2, <1>3, <1>4, <1>5, <1>6, <1>7

LEMMA ExecuteSafe ==
    ASSUME SafeInv, NEW c \in Calls, Execute(c)
    PROVE  SafeInv'
<1> USE GatewayAssumption, Files DEF SafeInv, TypeOK, Owned, Absent, Begun,
    Live, Claimed, Starting, Serving, Execute, Goto, Returned
<1>0. /\ faults' \in [FaultKinds -> Nat]
      /\ faults'["crash"] = faults["crash"] /\ faults'["remove"] = faults["remove"]
  BY Faulted DEF FaultKinds
<1>e. /\ handle[c] = registry[Home[c]] /\ handle[c] \in Calls
      /\ file \in Seq(0..LastStep) /\ file # <<>> /\ file[1] = 0
      /\ target[c] \in 0..LastStep
  OBVIOUS
<1>f. /\ Append(file, target[c]) \in Seq(0..LastStep)
      /\ Append(file, target[c]) # <<>> /\ Append(file, target[c])[1] = 0
      /\ Events(Append(file, target[c])) = Events(file) \cup {target[c]}
  <2>1. target[c] \in Nat /\ file \in Seq(Nat)
    BY <1>e
  <2> QED BY <1>e, <2>1, EventsAppended
<1>g. \/ file' = Append(file, target[c]) /\ acked' = acked \cup {target[c]}
      \/ file' = file /\ acked' = acked
  BY <1>e
<1>1. TypeOK'
  <2>1. file' \in Seq(0..LastStep) /\ acked' \subseteq 0..LastStep
    BY <1>e, <1>f, <1>g
  <2>2. engine' \in [Calls -> Positions]
    <3>1. engine[handle[c]] = target[c] => target[c] + 1 \in Positions
      BY <1>e DEF Positions
    <3>2. engine' = engine \/ (engine[handle[c]] = target[c]
                              /\ engine' = [engine EXCEPT ![handle[c]] = target[c] + 1])
      BY <1>e
    <3>3. engine \in [Calls -> Positions] /\ handle[c] \in Calls
      BY <1>e
    <3>4. CASE engine' = engine
      BY <3>3, <3>4
    <3>5. CASE /\ engine[handle[c]] = target[c]
               /\ engine' = [engine EXCEPT ![handle[c]] = target[c] + 1]
      <4>1. target[c] + 1 \in Positions
        BY <3>1, <3>5
      <4> HIDE DEF TypeOK, SafeInv, Execute
      <4> QED BY <3>3, <3>5, <4>1
    <3> QED BY <3>2, <3>4, <3>5
  <2>3. /\ pc' \in [Calls -> {"idle"} \cup Starting \cup Serving]
        /\ handle' \in [Calls -> Calls \cup {None}]
    OBVIOUS
  <2> QED BY <1>0, <2>1, <2>2, <2>3
<1>2. Owned'
  BY <1>e, <1>f, <1>g
<1>3. Absent'
  BY <1>e, <1>f, <1>g
<1>4. Begun'
  BY <1>e, <1>f, <1>g
<1>5. Live'
  BY <1>0
<1>6. AckedStays'
  BY <1>e, <1>f, <1>g DEF AckedStays
<1>7. Kept'
  BY <1>0 DEF Kept
<1> QED BY <1>1, <1>2, <1>3, <1>4, <1>5, <1>6, <1>7

LEMMA AnswerSafe ==
    ASSUME SafeInv, NEW c \in Calls, Answer(c)
    PROVE  SafeInv'
<1> USE GatewayAssumption, Files DEF SafeInv, TypeOK, Owned, Absent, Begun,
    Live, Claimed, Starting, Serving, Answer, Goto, Returned
<1>1. TypeOK'
  OBVIOUS
<1>2. Owned'
  OBVIOUS
<1>3. Absent'
  OBVIOUS
<1>4. Begun'
  OBVIOUS
<1>5. Live'
  OBVIOUS
<1>6. AckedStays'
  BY DEF AckedStays
<1>7. Kept'
  BY DEF Kept
<1> QED BY <1>1, <1>2, <1>3, <1>4, <1>5, <1>6, <1>7

LEMMA CrashSafe ==
    ASSUME SafeInv, NEW p \in Processes, Crash(p)
    PROVE  SafeInv'
<1> USE GatewayAssumption, Files DEF SafeInv, TypeOK, Owned, Absent, Begun,
    Live, Claimed, Starting, Serving, Crash
<1>0. faults' \in [FaultKinds -> Nat] /\ faults'["crash"] # 0
  <2> DEFINE n == faults["crash"] + 1
  <2>1. n \in Nat /\ n # 0
    BY DEF FaultKinds
  <2>2. faults' = [faults EXCEPT !["crash"] = n]
    BY DEF Fault
  <2> HIDE DEF n
  <2> QED BY <2>1, <2>2 DEF FaultKinds
<1>1. TypeOK'
  BY <1>0
<1>2. Owned'
  OBVIOUS
<1>3. Absent'
  OBVIOUS
<1>4. Begun'
  OBVIOUS
<1>5. Live'
  OBVIOUS
<1>6. AckedStays'
  BY DEF AckedStays
<1>7. Kept'
  BY <1>0 DEF Kept
<1> QED BY <1>1, <1>2, <1>3, <1>4, <1>5, <1>6, <1>7

LEMMA InitSafe == Init => SafeInv
<1> SUFFICES ASSUME Init PROVE SafeInv
  OBVIOUS
<1> USE GatewayAssumption, Files DEF Init
<1>1. TypeOK
  <2>1. /\ file \in {None} /\ sidecar \in BOOLEAN /\ acked \subseteq 0..LastStep
        /\ registry \in [Processes -> Calls \cup {None}]
        /\ handle \in [Calls -> Calls \cup {None}]
    OBVIOUS
  <2>2. 0 \in Positions /\ 0 \in 0..LastStep
    BY DEF Positions
  <2>3. engine \in [Calls -> Positions] /\ target \in [Calls -> 0..LastStep]
    BY <2>2
  <2>4. faults \in [FaultKinds -> Nat]
    OBVIOUS
  <2>5. pc \in [Calls -> {"idle"} \cup Starting \cup Serving]
    OBVIOUS
  <2> QED BY <2>1, <2>3, <2>4, <2>5 DEF TypeOK
<1>2. Owned /\ Absent /\ Begun /\ Live /\ AckedStays /\ Kept
  BY DEF Owned, Absent, Begun, Live, AckedStays, Kept, Claimed
<1> QED BY <1>1, <1>2 DEF SafeInv

LEMMA StepSafe == SafeInv /\ [Next]_vars => SafeInv'
<1> SUFFICES ASSUME SafeInv, [Next]_vars PROVE SafeInv'
  OBVIOUS
<1>1. CASE UNCHANGED vars
  BY <1>1 DEF vars, SafeInv, TypeOK, Owned, Absent, Begun, Live, AckedStays,
     Kept, Events
<1>2. ASSUME NEW c \in Calls,
             \/ Start(c) \/ Claim(c) \/ Load(c) \/ LoadFails(c) \/ Clean(c)
             \/ Register(c) \/ Note(c)
      PROVE  SafeInv'
  BY <1>2, StartSafe, ClaimSafe, LoadSafe, LoadFailsSafe, CleanSafe,
     RegisterSafe, NoteSafe
<1>3. ASSUME NEW c \in Calls,
             \/ Submit(c) \/ Recover(c) \/ RecoverFails(c) \/ Install(c)
             \/ Execute(c) \/ Answer(c)
      PROVE  SafeInv'
  BY <1>3, SubmitSafe, RecoverSafe, RecoverFailsSafe, InstallSafe,
     ExecuteSafe, AnswerSafe
<1>4. ASSUME NEW p \in Processes, Crash(p) PROVE SafeInv'
  BY <1>4, CrashSafe
<1> QED BY <1>1, <1>2, <1>3, <1>4 DEF Next

\* The gateway's inductive invariant: while a start owns the ledger file
\* nothing else has come of the session, and once there is a registered engine
\* the file is there and has begun.
THEOREM GatewaySafe == Spec => []SafeInv
<1> QED BY InitSafe, StepSafe, PTL DEF Spec

\* Every variable of the gateway keeps its type.
THEOREM GatewayTyped == Spec => []TypeOK
<1>1. SafeInv => TypeOK
  BY DEF SafeInv
<1> QED BY <1>1, GatewaySafe, PTL

\* The calls a process serves at the same time work on one engine, the one in
\* its registry, wherever callers turn and whatever fails.
THEOREM OneEngine == Spec => []SingleEngine
<1>1. SafeInv => SingleEngine
  BY DEF SafeInv, Live, SingleEngine
<1> QED BY <1>1, GatewaySafe, PTL

\* What a caller was told stays in the ledger: no start that fails removes the
\* file of a session another start has brought to life.
THEOREM AckedStaysForever == Spec => []AckedStays
<1>1. SafeInv => AckedStays
  BY DEF SafeInv
<1> QED BY <1>1, GatewaySafe, PTL

\* Unless a process died, the ledger file belongs to a session or to a start in
\* progress, so a start that failed can be repeated under the same id.
THEOREM Repeatable == Spec => []StartRepeatable
<1>1. SafeInv => StartRepeatable
  BY DEF SafeInv, Kept, StartRepeatable, Claimed, Starting
<1> QED BY <1>1, GatewaySafe, PTL

-----------------------------------------------------------------------------
(* As long as a caller turns to another process only when the one that had *)
(* the engine is gone.                                                     *)

\* The process that has the engine, or is getting it back, has it alone.
Exclusive ==
    \A c \in Calls : pc[c] \in Serving =>
        /\ \A p \in Processes \ {Home[c]} : registry[p] = None
        /\ \A d \in Calls : Home[d] = Home[c] \/ pc[d] = "idle"

\* An engine in a registry was built there, by a call that builds no more.
Named ==
    \A p \in Processes, c \in Calls : registry[p] = c =>
        Home[c] = p /\ pc[c] \in {"idle", "noting", "executing"}

\* An engine that is registered, or is about to be, stands at the ledger's end.
Current ==
    /\ \A p \in Processes : registry[p] # None => engine[registry[p]] = Len(file)
    /\ \A c \in Calls :
         pc[c] = "installing" /\ registry[Home[c]] = None => engine[c] = Len(file)

Lines == Linear /\ Exclusive /\ Named /\ Current

\* A ledger in order replays to the position after its last event.
LEMMA ReplayedLinear ==
    ASSUME NEW f \in Seq(0..LastStep), f # <<>>,
           \A i \in DOMAIN f : f[i] = i - 1
    PROVE  Replayed(f) = Len(f)
<1> USE GatewayAssumption
<1>1. DOMAIN f = 1..Len(f) /\ Len(f) \in Nat /\ Len(f) # 0
  OBVIOUS
<1>2. f[Len(f)] = Len(f) - 1
  BY <1>1
<1>3. f[Len(f)] \in 0..LastStep
  BY LastOfSeq
<1>4. Len(f) <= LastStep + 1
  BY <1>1, <1>2, <1>3
<1>5. ASSUME LastStep \in Events(f) PROVE Len(f) = LastStep + 1
  <2>1. PICK i \in DOMAIN f : f[i] = LastStep
    BY <1>5 DEF Events
  <2>2. i \in 1..Len(f) /\ i - 1 = LastStep
    BY <1>1, <2>1
  <2>3. LastStep \in Nat /\ LastStep + 1 <= Len(f)
    BY <1>1, <2>2
  <2>4. \A m, n \in Nat : m + 1 <= n /\ n <= m + 1 => n = m + 1
    OBVIOUS
  <2> QED BY <1>1, <1>4, <2>3, <2>4, Zenon
<1>6. LastStep \in Events(f) => Replayed(f) = LastStep + 1
  BY DEF Replayed
<1>7. LastStep \notin Events(f) => Replayed(f) = f[Len(f)] + 1
  BY DEF Replayed
<1>8. f[Len(f)] + 1 = Len(f)
  BY <1>1, <1>2
<1> HIDE DEF Replayed
<1> QED BY <1>5, <1>6, <1>7, <1>8

LEMMA StartLinear ==
    ASSUME ~Roaming, SafeInv, SafeInv', Lines, NEW c \in Calls, Start(c)
    PROVE  Lines'
<1> USE GatewayAssumption, Files DEF SafeInv, TypeOK, Owned, Begun, Live,
    Lines, Exclusive, Named, Claimed, Starting, Serving, Start, Goto, Routed
<1>1. Linear'
  BY DEF Linear
<1>2. Exclusive'
  <2>1. \A d \in Calls : pc'[d] \in Serving => d # c /\ pc[d] = pc'[d]
    OBVIOUS
  <2>2. \A d \in Calls : pc[d] \in Serving => Home[d] = Home[c]
    OBVIOUS
  <2>3. \A d \in Calls : d # c => pc'[d] = pc[d]
    OBVIOUS
  <2> QED BY <2>1, <2>2, <2>3
<1>3. Named'
  OBVIOUS
<1>4. Current'
  BY DEF Current
<1> QED BY <1>1, <1>2, <1>3, <1>4

LEMMA ClaimLinear ==
    ASSUME ~Roaming, SafeInv, SafeInv', Lines, NEW c \in Calls, Claim(c)
    PROVE  Lines'
<1> USE GatewayAssumption, Files DEF SafeInv, TypeOK, Owned, Begun, Live,
    Lines, Exclusive, Named, Claimed, Starting, Serving, Claim, Claimable,
    Attached, ClaimRefused, Goto
<1>1. Linear'
  BY DEF Linear
<1>2. Exclusive'
  OBVIOUS
<1>3. Named'
  OBVIOUS
<1>4. Current'
  BY DEF Current
<1> QED BY <1>1, <1>2, <1>3, <1>4

LEMMA LoadLinear ==
    ASSUME ~Roaming, SafeInv, SafeInv', Lines, NEW c \in Calls, Load(c)
    PROVE  Lines'
<1> USE GatewayAssumption, Files DEF SafeInv, TypeOK, Owned, Begun, Live,
    Lines, Exclusive, Named, Claimed, Starting, Serving, Load, Attached, Goto
<1>1. Linear'
  BY DEF Linear
<1>2. Exclusive'
  OBVIOUS
<1>3. Named'
  OBVIOUS
<1>4. Current'
  BY DEF Current
<1> QED BY <1>1, <1>2, <1>3, <1>4

LEMMA LoadFailsLinear ==
    ASSUME ~Roaming, SafeInv, SafeInv', Lines, NEW c \in Calls, LoadFails(c)
    PROVE  Lines'
<1> USE GatewayAssumption, Files DEF SafeInv, TypeOK, Owned, Begun, Live,
    Lines, Exclusive, Named, Claimed, Starting, Serving, LoadFails, Attached,
    Goto
<1>1. Linear'
  BY DEF Linear
<1>2. Exclusive'
  OBVIOUS
<1>3. Named'
  OBVIOUS
<1>4. Current'
  BY DEF Current
<1> QED BY <1>1, <1>2, <1>3, <1>4

LEMMA CleanLinear ==
    ASSUME ~Roaming, SafeInv, SafeInv', Lines, NEW c \in Calls, Clean(c)
    PROVE  Lines'
<1> USE GatewayAssumption, Files DEF SafeInv, TypeOK, Owned, Begun, Live,
    Lines, Exclusive, Named, Claimed, Starting, Serving, Clean, Goto
<1>0. file' = None \/ file' = file
  BY DEF Discard, Cleaned
<1>1. Linear'
  BY <1>0 DEF Linear
<1>2. Exclusive'
  OBVIOUS
<1>3. Named'
  OBVIOUS
<1>4. Current'
  BY <1>0 DEF Current
<1> QED BY <1>1, <1>2, <1>3, <1>4

LEMMA RegisterLinear ==
    ASSUME ~Roaming, SafeInv, SafeInv', Lines, NEW c \in Calls, Register(c)
    PROVE  Lines'
<1> USE GatewayAssumption, Files DEF SafeInv, TypeOK, Owned, Begun, Live,
    Lines, Exclusive, Named, Claimed, Starting, Serving
<1>0. /\ pc[c] = "registering" /\ registry[Home[c]] = None
      /\ registry' = [registry EXCEPT ![Home[c]] = c]
      /\ pc' = [pc EXCEPT ![c] = "noting"]
      /\ UNCHANGED <<file, sidecar, engine, target, handle, acked, faults>>
  <2>1. pc[c] = "registering" /\ registry[Home[c]] = None
    BY DEF Register
  <2> QED BY <2>1 DEF Register, Goto
<1>1. Linear'
  BY <1>0 DEF Linear
<1>2. Exclusive'
  BY <1>0
<1>3. Named'
  BY <1>0
<1>4. Current'
  BY <1>0 DEF Current
<1> QED BY <1>1, <1>2, <1>3, <1>4

LEMMA NoteLinear ==
    ASSUME ~Roaming, SafeInv, SafeInv', Lines, NEW c \in Calls, Note(c)
    PROVE  Lines'
<1> USE GatewayAssumption, Files DEF SafeInv, TypeOK, Owned, Begun, Live,
    Lines, Exclusive, Named, Claimed, Starting, Serving, Note, Goto
<1>1. Linear'
  BY DEF Linear
<1>2. Exclusive'
  OBVIOUS
<1>3. Named'
  OBVIOUS
<1>4. Current'
  BY DEF Current
<1> QED BY <1>1, <1>2, <1>3, <1>4

LEMMA SubmitLinear ==
    ASSUME ~Roaming, SafeInv, SafeInv', Lines, NEW c \in Calls, Submit(c)
    PROVE  Lines'
<1> USE GatewayAssumption, Files DEF SafeInv, TypeOK, Owned, Begun, Live,
    Lines, Exclusive, Named, Claimed, Starting, Serving, Submit, Goto, Routed
<1>1. Linear'
  BY DEF Linear
<1>2. Exclusive'
  OBVIOUS
<1>3. Named'
  OBVIOUS
<1>4. Current'
  BY DEF Current
<1> QED BY <1>1, <1>2, <1>3, <1>4

LEMMA RecoverLinear ==
    ASSUME ~Roaming, SafeInv, SafeInv', Lines, NEW c \in Calls, Recover(c)
    PROVE  Lines'
<1> USE GatewayAssumption, Files DEF SafeInv, TypeOK, Owned, Begun, Live,
    Lines, Exclusive, Named, Claimed, Starting, Serving, Recover, Goto
<1>1. Linear'
  BY DEF Linear
<1>2. Exclusive'
  OBVIOUS
<1>3. Named'
  OBVIOUS
<1>4. Current'
  <2>1. file' = file /\ file \in Seq(0..LastStep) /\ file # <<>>
    OBVIOUS
  <2>2. engine'[c] = Len(file)
    BY <2>1, ReplayedLinear DEF Linear
  <2>3. \A p \in Processes : registry[p] # c
    OBVIOUS
  <2>4. \A d \in Calls : d # c => engine'[d] = engine[d]
    OBVIOUS
  <2> QED BY <2>1, <2>2, <2>3, <2>4 DEF Current
<1> QED BY <1>1, <1>2, <1>3, <1>4

LEMMA RecoverFailsLinear ==
    ASSUME ~Roaming, SafeInv, SafeInv', Lines, NEW c \in Calls, RecoverFails(c)
    PROVE  Lines'
<1> USE GatewayAssumption, Files DEF SafeInv, TypeOK, Owned, Begun, Live,
    Lines, Exclusive, Named, Claimed, Starting, Serving, RecoverFails,
    Attached, Goto
<1>1. Linear'
  BY DEF Linear
<1>2. Exclusive'
  OBVIOUS
<1>3. Named'
  OBVIOUS
<1>4. Current'
  BY DEF Current
<1> QED BY <1>1, <1>2, <1>3, <1>4

LEMMA InstallLinear ==
    ASSUME ~Roaming, SafeInv, SafeInv', Lines, NEW c \in Calls, Install(c)
    PROVE  Lines'
<1> USE GatewayAssumption, Files DEF SafeInv, TypeOK, Owned, Begun, Live,
    Lines, Exclusive, Named, Claimed, Starting, Serving, Install, Installed,
    Goto
<1>1. Linear'
  BY DEF Linear
<1>2. Exclusive'
  OBVIOUS
<1>3. Named'
  OBVIOUS
<1>4. Current'
  BY DEF Current
<1> QED BY <1>1, <1>2, <1>3, <1>4

LEMMA ExecuteLinear ==
    ASSUME ~Roaming, SafeInv, SafeInv', Lines, NEW c \in Calls, Execute(c)
    PROVE  Lines'
<1> USE GatewayAssumption, Files DEF SafeInv, TypeOK, Owned, Begun, Live,
    Lines, Exclusive, Named, Claimed, Starting, Serving, Execute, Returned,
    Goto
<1> DEFINE e == handle[c]
<1>a. /\ e = registry[Home[c]] /\ e \in Calls /\ Home[c] \in Processes
      /\ file \in Seq(0..LastStep) /\ target[c] \in 0..LastStep
  <2>1. pc[c] = "executing" /\ target[c] # 0
    OBVIOUS
  <2>2. e = registry[Home[c]] /\ registry[Home[c]] # None /\ Home[c] \in Processes
    BY <2>1, ZenonT(60)
  <2>3. e \in Calls
    BY <2>2
  <2>4. file # None /\ file # <<>>
    BY <2>2
  <2> QED BY <2>2, <2>3, <2>4
<1>b. engine[e] = Len(file) /\ target[c] = Len(file)
  BY <1>a DEF Current
<1>c. \/ file' = Append(file, target[c]) /\ engine' = [engine EXCEPT ![e] = @ + 1]
      \/ file' = file /\ engine' = engine
  BY <1>a
<1>d. \A p \in Processes : registry[p] # None => registry[p] = e
  <2>1. pc[c] \in Serving
    OBVIOUS
  <2> QED BY <1>a, <2>1
<1>e. \A d \in Calls : pc'[d] = "installing" => registry'[Home[d]] # None
  <2>1. pc[c] \in Serving /\ registry' = registry
    OBVIOUS
  <2>2. \A d \in Calls : pc'[d] = "installing" => d # c /\ pc[d] = "installing"
    OBVIOUS
  <2>3. \A d \in Calls : pc[d] = "installing" => Home[d] = Home[c]
    BY <2>1
  <2>4. registry[Home[c]] # None
    BY <1>a
  <2> QED BY <2>1, <2>2, <2>3, <2>4
<1>f. registry' = registry
  OBVIOUS
<1>1. Linear'
  <2>1. CASE file' = file
    BY <2>1 DEF Linear
  <2>2. CASE file' = Append(file, target[c])
    <3>1. /\ DOMAIN file' = 1..(Len(file) + 1) /\ DOMAIN file = 1..Len(file)
          /\ Len(file) \in Nat
      BY <1>a, <2>2
    <3>2. \A i \in 1..Len(file) : file'[i] = file[i]
      BY <1>a, <2>2
    <3>3. file'[Len(file) + 1] = Len(file)
      BY <1>a, <1>b, <2>2
    <3>4. \A i \in 1..Len(file) : file[i] = i - 1
      BY <1>a, <3>1 DEF Linear
    <3>5. \A i \in DOMAIN file' : file'[i] = i - 1
      BY <3>1, <3>2, <3>3, <3>4
    <3> QED BY <3>5 DEF Linear
  <2> QED BY <1>c, <2>1, <2>2
<1>2. Exclusive'
  OBVIOUS
<1>3. Named'
  OBVIOUS
<1>4. Current'
  <2>1. engine'[e] = Len(file')
    BY <1>a, <1>b, <1>c
  <2> HIDE DEF e
  <2> QED BY <1>d, <1>e, <1>f, <2>1 DEF Current
<1> QED BY <1>1, <1>2, <1>3, <1>4

LEMMA AnswerLinear ==
    ASSUME ~Roaming, SafeInv, SafeInv', Lines, NEW c \in Calls, Answer(c)
    PROVE  Lines'
<1> USE GatewayAssumption, Files DEF SafeInv, TypeOK, Owned, Begun, Live,
    Lines, Exclusive, Named, Claimed, Starting, Serving, Answer, Returned,
    Goto
<1>1. Linear'
  BY DEF Linear
<1>2. Exclusive'
  OBVIOUS
<1>3. Named'
  OBVIOUS
<1>4. Current'
  BY DEF Current
<1> QED BY <1>1, <1>2, <1>3, <1>4

LEMMA CrashLinear ==
    ASSUME ~Roaming, SafeInv, SafeInv', Lines, NEW p \in Processes, Crash(p)
    PROVE  Lines'
<1> USE GatewayAssumption, Files DEF SafeInv, TypeOK, Owned, Begun, Live,
    Lines, Exclusive, Named, Claimed, Starting, Serving, Crash
<1>1. Linear'
  BY DEF Linear
<1>2. Exclusive'
  OBVIOUS
<1>3. Named'
  OBVIOUS
<1>4. Current'
  BY DEF Current
<1> QED BY <1>1, <1>2, <1>3, <1>4

LEMMA InitLinear == Init => Lines
<1> SUFFICES ASSUME Init PROVE Lines
  OBVIOUS
<1> QED BY GatewayAssumption
        DEF Init, Lines, Linear, Exclusive, Named, Current, Serving

LEMMA StepLinear == ~Roaming /\ SafeInv /\ Lines /\ [Next]_vars => Lines'
<1> SUFFICES ASSUME ~Roaming, SafeInv, Lines, [Next]_vars PROVE Lines'
  OBVIOUS
<1>0. SafeInv'
  BY StepSafe
<1>1. CASE UNCHANGED vars
  BY <1>1 DEF vars, Lines, Linear, Exclusive, Named, Current
<1>2. ASSUME NEW c \in Calls,
             \/ Start(c) \/ Claim(c) \/ Load(c) \/ LoadFails(c) \/ Clean(c)
             \/ Register(c) \/ Note(c)
      PROVE  Lines'
  BY <1>0, <1>2, StartLinear, ClaimLinear, LoadLinear, LoadFailsLinear,
     CleanLinear, RegisterLinear, NoteLinear
<1>3. ASSUME NEW c \in Calls,
             \/ Submit(c) \/ Recover(c) \/ RecoverFails(c) \/ Install(c)
             \/ Execute(c) \/ Answer(c)
      PROVE  Lines'
  BY <1>0, <1>3, SubmitLinear, RecoverLinear, RecoverFailsLinear,
     InstallLinear, ExecuteLinear, AnswerLinear
<1>4. ASSUME NEW p \in Processes, Crash(p) PROVE Lines'
  BY <1>0, <1>4, CrashLinear
<1> QED BY <1>1, <1>2, <1>3, <1>4 DEF Next

\* The second inductive invariant, for callers that do not roam.
THEOREM GatewayLines == ~Roaming /\ Spec => [](SafeInv /\ Lines)
<1>1. Init => SafeInv /\ Lines
  BY InitSafe, InitLinear
<1>2. ~Roaming /\ SafeInv /\ Lines /\ [Next]_vars => SafeInv' /\ Lines'
  BY StepSafe, StepLinear
<1>3. CASE Roaming
  BY <1>3
<1>4. CASE ~Roaming
  <2>1. SafeInv /\ Lines /\ [Next]_vars => SafeInv' /\ Lines'
    BY <1>2, <1>4
  <2> QED BY <1>1, <2>1, PTL DEF Spec
<1> QED BY <1>3, <1>4

\* The ledger tells one story, however many calls start, submit for and recover
\* the session at once, in however many processes, and whatever fails.
THEOREM LedgerLinear == ~Roaming /\ Spec => []Linear
<1>1. SafeInv /\ Lines => Linear
  BY DEF Lines
<1> QED BY <1>1, GatewayLines, PTL

\* A registered engine stands where the ledger ends: no older copy is put in
\* its place by a caller that recovered the session in the meantime.
THEOREM RegisteredCurrent == ~Roaming /\ Spec => []NoStaleCopy
<1>1. SafeInv /\ Lines => NoStaleCopy
  <2> SUFFICES ASSUME SafeInv, Lines, NEW p \in Processes, registry[p] # None
               PROVE  /\ file \notin {None, <<>>}
                      /\ engine[registry[p]] = Replayed(file)
    BY DEF NoStaleCopy
  <2>1. file \notin {None, <<>>} /\ file \in Seq(0..LastStep)
    BY DEF SafeInv, TypeOK, Begun
  <2>2. Replayed(file) = Len(file)
    BY <2>1, ReplayedLinear DEF Lines, Linear
  <2>3. engine[registry[p]] = Len(file)
    BY DEF Lines, Current
  <2> QED BY <2>1, <2>2, <2>3
<1> QED BY <1>1, GatewayLines, PTL

=============================================================================
