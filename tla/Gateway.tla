------------------------------ MODULE Gateway ------------------------------
(***************************************************************************)
(* The gateway processes that serve one session: the registry each keeps,  *)
(* the ledger file they share, and the sidecar that makes the session      *)
(* recoverable.                                                            *)
(*                                                                         *)
(* A session is reduced to its path: positions 1..LastStep, left one after *)
(* the other.  The ledger is the sequence of positions left; 0 stands for  *)
(* SessionStarted.  What one submission does inside the engine is module   *)
(* Engine.                                                                 *)
(*                                                                         *)
(* Calls run concurrently and interleave where protocol_start and          *)
(* get_or_recover let go of the registry's lock.  An engine is named by    *)
(* the call that built it.                                                 *)
(***************************************************************************)
EXTENDS Naturals, Sequences, FiniteSets

CONSTANTS
    None,
    Processes,
    Calls,       \* requests that may be in progress at once
    Home,        \* the process each call is made to
    LastStep,    \* the submission for this position completes the session
    Roaming,     \* may calls reach several processes while one has the engine?
    MaxFaults    \* bound: failures in one behaviour

\* crash:   a process dies
\* start:   a start fails once it has claimed the file (profile, library,
\*          ledger)
\* sidecar: the sidecar cannot be written
\* load:    a recovery fails (profile gone or no longer valid)
\* append:  an append fails and leaves nothing
\* remove:  a failed start cannot remove what it has claimed
FaultKinds == {"crash", "start", "sidecar", "load", "append", "remove"}

ASSUME GatewayAssumption ==
    /\ Home \in [Calls -> Processes]
    /\ LastStep \in Nat \ {0}
    /\ Roaming \in BOOLEAN
    /\ MaxFaults \in Nat
    /\ None \notin Calls \cup Seq(Nat)

VARIABLES
    file,       \* the ledger file, None when there is none
    sidecar,    \* the sidecar is there
    registry,   \* registry[p]: the engine p has for the session, or None
    engine,     \* engine[c]: the position of the engine that c built
    pc,         \* where each call stands
    target,     \* the position a call submits for; 0 submits nothing
    handle,     \* the engine a call has got hold of
    acked,      \* history: the events whose success a caller was told
    faults      \* number of failures so far, of each kind

vars == <<file, sidecar, registry, engine, pc, target, handle, acked, faults>>

Starting == {"claiming", "loading", "cleaning", "registering", "noting"}
Serving == {"recovering", "installing", "executing"}

Positions == 0..(LastStep + 1)

Failures == faults["crash"] + faults["start"] + faults["sidecar"]
              + faults["load"] + faults["append"] + faults["remove"]

Fault(kind) ==
    /\ Failures < MaxFaults
    /\ faults' = [faults EXCEPT ![kind] = @ + 1]

Goto(c, location) == pc' = [pc EXCEPT ![c] = location]

Events(f) == {f[i] : i \in DOMAIN f}

\* Mutant: the number of events is taken for the position.
ReplayedMutant(f) == Len(f) + 1

\* The position a ledger with at least one event replays to.
Replayed(f) ==
    IF LastStep \in Events(f) THEN LastStep + 1 ELSE f[Len(f)] + 1

\* A caller turns to another process only when the one that had the engine is
\* gone, unless Roaming; two processes may be asked to start at once.
Routed(c, entering) ==
    \/ Roaming
    \/ /\ \A d \in Calls :
            \/ Home[d] = Home[c]
            \/ pc[d] = "idle"
            \/ entering = "claiming" /\ pc[d] \in Starting
       /\ \/ entering = "claiming"
          \/ \A p \in Processes \ {Home[c]} : registry[p] = None

\* Ledger::new opens the file and creates it when it is gone.
Attached(f) == IF f = None THEN <<>> ELSE f

-----------------------------------------------------------------------------
(* protocol_start.                                                         *)

Start(c) ==
    /\ pc[c] = "idle"
    /\ Routed(c, "claiming")
    /\ registry[Home[c]] = None
    /\ Goto(c, "claiming")
    /\ UNCHANGED <<file, sidecar, registry, engine, target, handle, acked, faults>>

\* Mutant: the file is opened, not created anew.
ClaimableMutant(f) == TRUE

Claimable(f) == f = None

\* Mutant: a start that could not claim the file cleans up as well.
ClaimRefusedMutant == "cleaning"

\* Where a start goes on that did not get the file.
ClaimRefused == "idle"

\* create_new: the file system decides who gets the session id.
Claim(c) ==
    /\ pc[c] = "claiming"
    /\ IF Claimable(file)
       THEN /\ file' = Attached(file)
            /\ Goto(c, "loading")
       ELSE /\ Goto(c, ClaimRefused)
            /\ UNCHANGED file
    /\ UNCHANGED <<sidecar, registry, engine, target, handle, acked, faults>>

Load(c) ==
    /\ pc[c] = "loading"
    /\ file' = Append(Attached(file), 0)
    /\ engine' = [engine EXCEPT ![c] = 1]
    /\ Goto(c, "registering")
    /\ UNCHANGED <<sidecar, registry, target, handle, acked, faults>>

\* The start fails before or after SessionStarted is in the ledger.
LoadFails(c) ==
    /\ pc[c] = "loading"
    /\ Fault("start")
    /\ file' \in {file, Append(Attached(file), 0)}
    /\ Goto(c, "cleaning")
    /\ UNCHANGED <<sidecar, registry, engine, target, handle, acked>>

\* Mutant: what a failed start has claimed stays.
CleanedMutant(f) == f

Cleaned(f) == None

\* A removal that fails is not reported and not tried again.
Discard ==
    \/ file' = Cleaned(file) /\ UNCHANGED faults
    \/ Fault("remove") /\ UNCHANGED file

Clean(c) ==
    /\ pc[c] = "cleaning"
    /\ Discard
    /\ Goto(c, "idle")
    /\ UNCHANGED <<sidecar, registry, engine, target, handle, acked>>

Register(c) ==
    LET p == Home[c]
        vacant == registry[p] = None
    IN  /\ pc[c] = "registering"
        /\ registry' = IF vacant THEN [registry EXCEPT ![p] = c] ELSE registry
        /\ IF vacant THEN UNCHANGED <<file, faults>> ELSE Discard
        /\ Goto(c, IF vacant THEN "noting" ELSE "idle")
        /\ UNCHANGED <<sidecar, engine, target, handle, acked>>

\* The sidecar is written last, and the start succeeds without it.
Note(c) ==
    /\ pc[c] = "noting"
    /\ \/ sidecar' = TRUE /\ UNCHANGED faults
       \/ Fault("sidecar") /\ UNCHANGED sidecar
    /\ acked' = acked \cup {0}
    /\ Goto(c, "idle")
    /\ UNCHANGED <<file, registry, engine, target, handle>>

-----------------------------------------------------------------------------
(* protocol_submit_milestone; with target 0, a call that submits nothing.  *)

\* get_or_recover: a look at the registry.
Submit(c) ==
    LET found == registry[Home[c]]
    IN  /\ pc[c] = "idle"
        /\ Routed(c, "executing")
        /\ \E n \in 0..LastStep : target' = [target EXCEPT ![c] = n]
        /\ handle' = [handle EXCEPT ![c] = found]
        /\ Goto(c, IF found = None THEN "recovering" ELSE "executing")
        /\ UNCHANGED <<file, sidecar, registry, engine, acked, faults>>

\* recover_into_cache, off the registry's lock.
Recover(c) ==
    /\ pc[c] = "recovering" /\ sidecar
    /\ file # None /\ file # <<>>
    /\ engine' = [engine EXCEPT ![c] = Replayed(file)]
    /\ Goto(c, "installing")
    /\ UNCHANGED <<file, sidecar, registry, target, handle, acked, faults>>

\* No sidecar or nothing in the ledger: SESSION_NOT_FOUND.  Attaching to the
\* ledger creates the file.
RecoverFails(c) ==
    /\ pc[c] = "recovering"
    /\ \/ /\ ~sidecar \/ file \in {None, <<>>}
          /\ file' = IF sidecar THEN Attached(file) ELSE file
          /\ UNCHANGED faults
       \/ sidecar /\ Fault("load") /\ UNCHANGED file
    /\ Goto(c, "idle")
    /\ UNCHANGED <<sidecar, registry, engine, target, handle, acked>>

\* Mutant: the later recovery replaces the earlier.
InstalledMutant(c) == c

\* The engine a call that has recovered one goes on with.
Installed(c) ==
    IF registry[Home[c]] = None THEN c ELSE registry[Home[c]]

Install(c) ==
    /\ pc[c] = "installing"
    /\ registry' = [registry EXCEPT ![Home[c]] = Installed(c)]
    /\ handle' = [handle EXCEPT ![c] = Installed(c)]
    /\ Goto(c, "executing")
    /\ UNCHANGED <<file, sidecar, engine, target, acked, faults>>

Returned(c) ==
    /\ Goto(c, "idle")
    /\ handle' = [handle EXCEPT ![c] = None]

\* The engine, behind its lock, accepts a submission for its own position.
Execute(c) ==
    LET e == handle[c]
    IN  /\ pc[c] = "executing"
        /\ target[c] # 0 /\ engine[e] = target[c]
        /\ \/ /\ file' = IF file = None THEN None ELSE Append(file, target[c])
              /\ engine' = [engine EXCEPT ![e] = @ + 1]
              /\ acked' = acked \cup {target[c]}
              /\ UNCHANGED faults
           \/ Fault("append") /\ UNCHANGED <<file, engine, acked>>
        /\ Returned(c)
        /\ UNCHANGED <<sidecar, registry, target>>

\* The session is over or elsewhere, or the call submits nothing.
Answer(c) ==
    /\ pc[c] = "executing"
    /\ target[c] = 0 \/ engine[handle[c]] # target[c]
    /\ Returned(c)
    /\ UNCHANGED <<file, sidecar, registry, engine, target, acked, faults>>

-----------------------------------------------------------------------------
Crash(p) ==
    LET lost == {c \in Calls : Home[c] = p}
    IN  /\ registry[p] # None \/ \E c \in lost : pc[c] # "idle"
        /\ Fault("crash")
        /\ registry' = [registry EXCEPT ![p] = None]
        /\ pc' = [c \in Calls |-> IF c \in lost THEN "idle" ELSE pc[c]]
        /\ handle' = [c \in Calls |-> IF c \in lost THEN None ELSE handle[c]]
        /\ UNCHANGED <<file, sidecar, engine, target, acked>>

Init ==
    /\ file = None
    /\ sidecar = FALSE
    /\ registry = [p \in Processes |-> None]
    /\ engine = [c \in Calls |-> 0]
    /\ pc = [c \in Calls |-> "idle"]
    /\ target = [c \in Calls |-> 0]
    /\ handle = [c \in Calls |-> None]
    /\ acked = {}
    /\ faults = [kind \in FaultKinds |-> 0]

Next ==
    \/ \E c \in Calls :
         \/ Start(c) \/ Claim(c) \/ Load(c) \/ LoadFails(c) \/ Clean(c)
         \/ Register(c) \/ Note(c)
         \/ Submit(c) \/ Recover(c) \/ RecoverFails(c) \/ Install(c)
         \/ Execute(c) \/ Answer(c)
    \/ \E p \in Processes : Crash(p)

Spec == Init /\ [][Next]_vars

-----------------------------------------------------------------------------
(* Properties.                                                             *)

\* Every variable has its type.
TypeOK ==
    /\ file \in Seq(0..LastStep) \cup {None}
    /\ sidecar \in BOOLEAN
    /\ registry \in [Processes -> Calls \cup {None}]
    /\ engine \in [Calls -> Positions]
    /\ pc \in [Calls -> {"idle"} \cup Starting \cup Serving]
    /\ target \in [Calls -> 0..LastStep]
    /\ handle \in [Calls -> Calls \cup {None}]
    /\ acked \subseteq 0..LastStep
    /\ faults \in [FaultKinds -> Nat]

\* The ledger tells one story: one start, whoever else tried at the same time,
\* and each position left once and in order, however many callers submit for
\* it and however often the session is recovered.
Linear == file # None => \A i \in DOMAIN file : file[i] = i - 1

\* A registered engine stands where the ledger ends: no caller that recovered
\* the session while another was at work puts its older copy in place.
NoStaleCopy ==
    \A p \in Processes :
        registry[p] # None =>
            file \notin {None, <<>>} /\ engine[registry[p]] = Replayed(file)

\* The calls a process serves at the same time all work on the registered
\* engine, so that its lock serialises them.
SingleEngine ==
    \A c \in Calls : pc[c] = "executing" => handle[c] = registry[Home[c]]

\* An event whose success a caller was told stays in the ledger: no start
\* that fails removes the file of a session another start has brought to life.
AckedStays == acked # {} => file # None /\ acked \subseteq Events(file)

\* A start that failed can be repeated under the same id: unless a process
\* died or a removal failed, a ledger file belongs to a session or to a start
\* in progress.
StartRepeatable ==
    faults["crash"] = 0 /\ faults["remove"] = 0 /\ file # None =>
        \/ \E c \in Calls : pc[c] \in Starting
        \/ \E p \in Processes : registry[p] # None

=============================================================================
