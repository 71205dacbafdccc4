------------------------------- MODULE Ledger -------------------------------
(***************************************************************************)
(* The ledger file of one session, written by threads of one or more       *)
(* processes and read by replay: where a line is cut by a crash, a failing *)
(* write or a loss of power, and what the next reader makes of it.         *)
(*                                                                         *)
(* A line is two pieces of its event and a newline; the place between the  *)
(* two may be inside a character of several bytes.  A write(2) moves some  *)
(* of what is left of a line; write_all repeats it.  File systems keep a   *)
(* prefix of an append-only file when power is lost, at least what has     *)
(* been synced.                                                            *)
(***************************************************************************)
EXTENDS Naturals, Sequences, FiniteSetsExt, SequencesExt

CONSTANTS
    None,
    Writers,     \* threads that append
    Ledgers,     \* Ledger values, each with a mutex and a file descriptor
    Of,          \* Of[w]: the Ledger that w appends through
    Wide,        \* the events whose pieces share a character of several bytes
    MaxEvents,   \* bound: events appended in one behaviour
    MaxFaults    \* bound: failures in one behaviour

ASSUME LedgerAssumption ==
    /\ Of \in [Writers -> Ledgers]
    /\ MaxEvents \in Nat
    /\ Wide \subseteq 1..MaxEvents
    /\ MaxFaults \in Nat
    /\ None \notin Writers \cup Ledgers

VARIABLES
    file,     \* what a reader finds in the file
    synced,   \* how much of it a loss of power cannot take
    mutex,    \* mutex[l]: the thread that holds l's mutex, or None
    flock,    \* the Ledger whose descriptor holds the advisory lock, or None
    pc,       \* where each writer stands in append
    event,    \* event[w]: the event that w appends
    written,  \* written[w]: how much of its line w has written
    result,   \* result[w]: did the append that w is in succeed?
    issued,   \* history: events appended so far, numbered from 1
    acked,    \* history: events whose append returned Ok
    cuts,     \* history: how often the file was left without a final newline
    lost,     \* history: losses of power
    faults    \* number of failures so far

vars == <<file, synced, mutex, flock, pc, event, written, result,
          issued, acked, cuts, lost, faults>>

locks == <<mutex, flock>>
calls == <<event, written, result>>
history == <<issued, acked, lost>>

Newline == <<0, 0>>

\* Mutant: a newline is added to a line that has one.
LineMutant(e) == <<<<e, 1>>, <<e, 2>>, Newline, Newline>>

Line(e) == <<<<e, 1>>, <<e, 2>>, Newline>>

Chunks == ((1..MaxEvents) \X {1, 2}) \cup {Newline}

Fault == faults < MaxFaults /\ faults' = faults + 1

Goto(w, location) == pc' = [pc EXCEPT ![w] = location]

-----------------------------------------------------------------------------
(* Reading.                                                                *)

\* Where the lines that are not empty start.
Starts(f) ==
    {i \in DOMAIN f : f[i] # Newline /\ (i = 1 \/ f[i - 1] = Newline)}

LineAt(f, i) ==
    LET ends == {j \in i..Len(f) : f[j] = Newline}
    IN  SubSeq(f, i, IF ends = {} THEN Len(f) ELSE Min(ends) - 1)

\* A line parses when it is one whole event.
Parses(line) == \E e \in 1..MaxEvents : line = <<<<e, 1>>, <<e, 2>>>>

\* Where the lines that parse start, and the events in them.
Good(f) == {i \in Starts(f) : Parses(LineAt(f, i))}
Events(f) == {f[i][1] : i \in Good(f)}

\* Where the n-th line that parses starts.
Nth(f, n) == CHOOSE i \in Good(f) : Cardinality({j \in Good(f) : j <= i}) = n

\* The events of the lines that parse, in order: what replay returns where it
\* returns events at all.
Parsed(f) == [n \in 1..Cardinality(Good(f)) |-> f[Nth(f, n)][1]]

\* No character is cut: where one is, the lines cannot be read as text, and
\* replay fails before it looks at any of them.
Decodes(f) ==
    \A e \in Wide : \A i \in DOMAIN f :
        /\ f[i] = <<e, 1>> => i < Len(f) /\ f[i + 1] = <<e, 2>>
        /\ f[i] = <<e, 2>> => i > 1 /\ f[i - 1] = <<e, 1>>

\* A line that does not parse is tolerated where it is the last.
Corrupt(f) ==
    \E i \in Starts(f) : ~Parses(LineAt(f, i)) /\ i # Max(Starts(f))

\* replay returns events, not an error.
Replays(f) == Decodes(f) /\ ~Corrupt(f)

CutShort(f) == f # <<>> /\ Last(f) # Newline

-----------------------------------------------------------------------------
(* append.                                                                 *)

Call(w) ==
    /\ pc[w] = "idle" /\ issued < MaxEvents
    /\ issued' = issued + 1
    /\ event' = [event EXCEPT ![w] = issued + 1]
    /\ written' = [written EXCEPT ![w] = 0]
    /\ Goto(w, "calling")
    /\ UNCHANGED <<file, synced, locks, result, acked, cuts, lost, faults>>

\* Mutant: several threads append at once.
MutexFreeMutant(l) == TRUE

MutexFree(l) == mutex[l] = None

LockMutex(w) ==
    /\ pc[w] = "calling" /\ MutexFree(Of[w])
    /\ mutex' = [mutex EXCEPT ![Of[w]] = w]
    /\ Goto(w, "locking")
    /\ UNCHANGED <<file, synced, flock, calls, history, cuts, faults>>

\* Mutant: no advisory lock.
FlockFreeMutant(l) == TRUE

\* The lock belongs to the descriptor, not to the thread.
FlockFree(l) == flock \in {None, l}

LockFile(w) ==
    /\ pc[w] = "locking" /\ FlockFree(Of[w])
    /\ flock' = Of[w]
    /\ Goto(w, "writing")
    /\ UNCHANGED <<file, synced, mutex, calls, history, cuts, faults>>

Write(w) ==
    LET line == Line(event[w])
    IN  /\ pc[w] = "writing"
        /\ \E n \in (written[w] + 1)..Len(line) :
             /\ file' = file \o SubSeq(line, written[w] + 1, n)
             /\ written' = [written EXCEPT ![w] = n]
             /\ Goto(w, IF n = Len(line) THEN "syncing" ELSE "writing")
        /\ UNCHANGED <<synced, locks, event, result, history, cuts, faults>>

\* The disk is full, or the device fails.
WriteFails(w) ==
    /\ pc[w] = "writing" /\ Fault
    /\ result' = [result EXCEPT ![w] = FALSE]
    /\ cuts' = IF written[w] > 0 THEN cuts + 1 ELSE cuts
    /\ Goto(w, "unlocking")
    /\ UNCHANGED <<file, synced, locks, event, written, history>>

\* Mutant: the line stays in the page cache.
SyncedMutant == synced

\* sync_data: all that is in the file.
Synced == Len(file)

Sync(w) ==
    /\ pc[w] = "syncing"
    /\ synced' = Synced
    /\ result' = [result EXCEPT ![w] = TRUE]
    /\ Goto(w, "unlocking")
    /\ UNCHANGED <<file, locks, event, written, history, cuts, faults>>

\* Mutant: a failed sync writes the line again.
SyncFailedMutant(w) ==
    /\ written' = [written EXCEPT ![w] = 0]
    /\ Goto(w, "writing")

\* A failed sync ends the append, with the line in the file.
SyncFailed(w) == Goto(w, "unlocking") /\ UNCHANGED written

SyncFails(w) ==
    /\ pc[w] = "syncing" /\ Fault
    /\ result' = [result EXCEPT ![w] = FALSE]
    /\ SyncFailed(w)
    /\ UNCHANGED <<file, synced, locks, event, history, cuts>>

\* Mutant: only a successful append unlocks.
UnlockedMutant(w) == IF result[w] THEN None ELSE flock

\* The advisory lock after w's append.
Unlocked(w) == None

Return(w) ==
    /\ pc[w] = "unlocking"
    /\ flock' = Unlocked(w)
    /\ mutex' = [mutex EXCEPT ![Of[w]] = None]
    /\ acked' = IF result[w] THEN acked \cup {event[w]} ELSE acked
    /\ Goto(w, "idle")
    /\ UNCHANGED <<file, synced, calls, issued, cuts, lost, faults>>

-----------------------------------------------------------------------------
(* A process dies; the file keeps what was written, the kernel takes back  *)
(* its lock, and the next one opens the file again.                        *)

Die(l) ==
    LET gone == {w \in Writers : Of[w] = l}
    IN  /\ \E w \in gone : pc[w] # "idle"
        /\ Fault
        /\ pc' = [w \in Writers |-> IF w \in gone THEN "idle" ELSE pc[w]]
        /\ mutex' = [mutex EXCEPT ![l] = None]
        /\ flock' = IF flock = l THEN None ELSE flock
        /\ cuts' = IF \E w \in gone : pc[w] = "writing" /\ written[w] > 0
                   THEN cuts + 1 ELSE cuts
        /\ UNCHANGED <<file, synced, calls, history>>

PowerLoss ==
    /\ Fault
    /\ \E n \in synced..Len(file) : file' = SubSeq(file, 1, n)
    /\ synced' = Len(file')
    /\ pc' = [w \in Writers |-> "idle"]
    /\ mutex' = [l \in Ledgers |-> None]
    /\ flock' = None
    /\ cuts' = IF CutShort(file') THEN cuts + 1 ELSE cuts
    /\ lost' = lost + 1
    /\ UNCHANGED <<calls, issued, acked>>

Init ==
    /\ file = <<>>
    /\ synced = 0
    /\ mutex = [l \in Ledgers |-> None]
    /\ flock = None
    /\ pc = [w \in Writers |-> "idle"]
    /\ event = [w \in Writers |-> 0]
    /\ written = [w \in Writers |-> 0]
    /\ result = [w \in Writers |-> FALSE]
    /\ issued = 0
    /\ acked = {}
    /\ cuts = 0
    /\ lost = 0
    /\ faults = 0

\* What a writer does on its own, once it has called append.
Continue(w) == LockMutex(w) \/ LockFile(w) \/ Write(w) \/ Sync(w) \/ Return(w)

Next ==
    \/ \E w \in Writers :
         Call(w) \/ Continue(w) \/ WriteFails(w) \/ SyncFails(w)
    \/ \E l \in Ledgers : Die(l)
    \/ PowerLoss

Spec == Init /\ [][Next]_vars

\* A thread that can go on does.
FairSpec == Spec /\ \A w \in Writers : WF_vars(Continue(w))

-----------------------------------------------------------------------------
(* Properties.                                                             *)

\* Every variable has its type.
TypeOK ==
    /\ file \in Seq(Chunks)
    /\ synced \in 0..Len(file)
    /\ mutex \in [Ledgers -> Writers \cup {None}]
    /\ flock \in Ledgers \cup {None}
    /\ pc \in [Writers -> {"idle", "calling", "locking", "writing", "syncing",
                           "unlocking"}]
    /\ event \in [Writers -> 0..MaxEvents]
    /\ written \in [Writers -> 0..3]
    /\ result \in [Writers -> BOOLEAN]
    /\ issued \in 0..MaxEvents
    /\ acked \subseteq 1..issued
    /\ cuts \in Nat /\ lost \in Nat /\ faults \in Nat

\* Some thread has written its line up to the inside of a character.
MidCharacter ==
    \E w \in Writers : pc[w] = "writing" /\ written[w] = 1 /\ event[w] \in Wide

\* Ok means stable: as long as no line was left unfinished, replay succeeds,
\* although it takes no lock, at any instant at which no line is cut inside a
\* character, and returns every event whose append returned Ok, whatever was
\* lost.  At the other instants it fails, and loses nothing for good.
AckedReplayed ==
    cuts = 0 => /\ MidCharacter \/ Replays(file)
                /\ acked \subseteq Events(file)

\* A replay that succeeds misses at most one acknowledged event, however many
\* lines were left unfinished: the one that the last append wrote behind a
\* fragment.  Once another line follows, replay fails.
LossBounded ==
    Replays(file) => Cardinality(acked \ Events(file)) <= 1

\* The lines that parse hold no event twice, nor one that nobody appended,
\* whatever was cut: so does every replay that succeeds.
ReadOnce ==
    /\ Events(file) \subseteq 1..issued
    /\ Len(Parsed(file)) = Cardinality(Events(file))

\* Two replays that succeed agree: as long as no line was left unfinished and
\* power stays, what one returned is the beginning of what a later one returns.
ReplayGrows ==
    [][cuts' = 0 /\ lost' = lost => IsPrefix(Parsed(file), Parsed(file'))]_vars

\* Every append returns, whichever appends before it failed or died.
AppendReturns == \A w \in Writers : pc[w] # "idle" ~> pc[w] = "idle"

\* What ledger.rs says of a line that is not the last and does not parse: the
\* file was not simply cut off.  Writers only append, so there is none.
CutsTolerated == ~Corrupt(file)

\* What ledger.rs says of a malformed last line, left by a crash in the middle
\* of a write: it is dropped, and the valid prefix of events is returned.
TailTolerated == ~MidCharacter /\ ~Corrupt(file) => Replays(file)

=============================================================================
