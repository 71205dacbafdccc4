---------------------------- MODULE EditorProofs ----------------------------
(***************************************************************************)
(* What the editor's checks are worth with no lock on the directory; what  *)
(* every verb makes of a document, what the validator guarantees of the    *)
(* pipeline the engine steps over, and so what the files of a profiles     *)
(* directory hold: for every number of processes, names, documents and     *)
(* calls.                                                                  *)
(***************************************************************************)
EXTENDS Editor, TLAPS, WellFoundedInduction, FiniteSetTheorems, SequenceTheorems

(***************************************************************************)
(* The inductive invariant: what a job j knows of the directory d at each  *)
(* of its phases, unless another process wrote since it looked.            *)
(***************************************************************************)
JobFields == {"phase", "verb", "name", "target", "base", "draft", "force", "raced"}

Shaped(j) ==
    /\ DOMAIN j = JobFields
    /\ j.phase # "idle" => j.name \in Names /\ j.target \in Names
    /\ j.phase = "placed" => j.name # j.target

\* It has what it loaded, and that was not protected; nor is what a manager
\* writes.
Loaded(j) ==
    /\ j.phase \in {"loaded", "compared", "placed"} => ~j.base.protected
    /\ j.phase \in InPlace \/ (j.verb = "save" /\ j.phase \in {"drafted", "checked"}) =>
          ~j.draft.protected

\* One that compared still finds what it loaded.
Explained(j, d) ==
    \/ j.phase \in {"compared", "placed"}
    \/ j.phase = "loaded" /\ j.verb = "delete"
    => j.name \in j.raced \/ d[j.name] = j.base

\* One that checked its target still may write there.
Allowed(j, d) ==
    /\ j.phase \in {"checked", "partial"} =>
          j.target \in j.raced \/ ~IsDoc(d[j.target]) \/ ~d[j.target].protected
    /\ j.phase = "torn" => j.target \in j.raced \/ ~IsDoc(d[j.target])

Vacant(j, d) ==
    /\ ~j.force
    /\ \/ j.phase = "checked" /\ j.verb \in {"create", "clone"}
       \/ j.phase \in {"loaded", "compared"} /\ j.verb = "rename" /\ j.name # j.target
    => j.target \in j.raced \/ d[j.target] = None

Survives(j, d) ==
    j.verb = "rename" /\ j.phase \in {"compared", "placed"} =>
        \/ {j.name, j.target} \cap j.raced # {}
        \/ d[j.name] = j.base
        \/ d[j.target] = j.draft

JobInv(j, d) ==
    /\ Shaped(j)
    /\ Loaded(j)
    /\ Explained(j, d)
    /\ Allowed(j, d)
    /\ Vacant(j, d)
    /\ Survives(j, d)

Inv ==
    /\ DOMAIN disk = Names
    /\ DOMAIN job = Editors
    /\ \A e \in Editors : JobInv(job[e], disk)

-----------------------------------------------------------------------------
(* A job between its own steps.                                            *)

LEMMA IdleInv == ASSUME NEW d PROVE JobInv(Idle, d)
BY DEF JobInv, Idle, Shaped, JobFields, Loaded, Explained, Allowed, Vacant, Survives, InPlace

\* Whatever another process writes, what a job knows stays true of the files
\* it counts as not raced.
LEMMA TouchedInv ==
    ASSUME NEW d, DOMAIN d = Names, NEW j, JobInv(j, d),
           NEW n, NEW content, NEW b
    PROVE  JobInv(Touched(j, n, b), [d EXCEPT ![n] = content])
<1> DEFINE new == [d EXCEPT ![n] = content]
           t == [j EXCEPT !.raced = @ \cup {n}]
<1> DOMAIN new = Names /\ \A m \in Names : m # n => new[m] = d[m]
  OBVIOUS
<1>1. CASE j.phase = "idle"
  <2>1. JobInv(j, new)
    BY <1>1 DEF JobInv, Shaped, Loaded, Explained, Allowed, Vacant, Survives, InPlace
  <2>2. JobInv(t, new)
    BY <1>1 DEF JobInv, Shaped, JobFields, Loaded, Explained, Allowed, Vacant, Survives, InPlace
  <2> QED BY <2>1, <2>2, IdleInv DEF Touched
<1>2. CASE j.phase # "idle" /\ n \notin {j.name, j.target}
  <2>1. new[j.name] = d[j.name] /\ new[j.target] = d[j.target]
    BY <1>2 DEF JobInv, Shaped
  <2>2. JobInv(j, new)
    BY <2>1 DEF JobInv, Shaped, Loaded, Explained, Allowed, Vacant, Survives
  <2> QED BY <1>2, <2>2 DEF Touched
<1>3. CASE j.phase # "idle" /\ n \in {j.name, j.target}
  <2>1. /\ DOMAIN t = JobFields /\ t.raced = j.raced \cup {n}
        /\ t.phase = j.phase /\ t.verb = j.verb /\ t.name = j.name /\ t.target = j.target
        /\ t.base = j.base /\ t.draft = j.draft /\ t.force = j.force
    BY DEF JobInv, Shaped, JobFields
  <2>2. j.name = n \/ new[j.name] = d[j.name]
    BY <1>3 DEF JobInv, Shaped
  <2>3. j.target = n \/ new[j.target] = d[j.target]
    BY <1>3 DEF JobInv, Shaped
  <2>4. Shaped(t) /\ Loaded(t)
    BY <2>1 DEF JobInv, Shaped, Loaded
  <2>5. Explained(t, new)
    BY <2>1, <2>2 DEF JobInv, Explained
  <2>6. Allowed(t, new)
    BY <2>1, <2>3 DEF JobInv, Allowed
  <2>7. Vacant(t, new)
    BY <2>1, <2>3 DEF JobInv, Vacant
  <2>8. Survives(t, new)
    BY <2>1, <1>3 DEF JobInv, Survives
  <2>9. JobInv(t, new)
    BY <2>4, <2>5, <2>6, <2>7, <2>8 DEF JobInv
  <2> QED BY <1>3, <2>9, IdleInv DEF Touched
<1> QED BY <1>1, <1>2, <1>3

-----------------------------------------------------------------------------
(* The three kinds of step, and the hand edit.                             *)

LEMMA BeginInv ==
    ASSUME Inv, NEW e \in Editors, NEW j, Begin(e, j), JobInv(j, disk)
    PROVE  Inv'
BY DEF Inv, Begin

LEMMA ContinueInv ==
    ASSUME Inv, NEW e \in Editors, NEW j, Continue(e, j), JobInv(j, disk)
    PROVE  Inv'
BY DEF Inv, Continue

LEMMA WriteInv ==
    ASSUME Inv, NEW e \in Editors, NEW n, NEW content, NEW b, NEW j,
           Write(e, n, content, b, j), JobInv(j, disk')
    PROVE  Inv'
<1>1. DOMAIN disk' = Names /\ DOMAIN job' = Editors
  BY DEF Inv, Write
<1>2. ASSUME NEW x \in Editors, x # e PROVE JobInv(job[x], disk)' 
  BY <1>2, TouchedInv DEF Inv, Write
<1>3. JobInv(job[e], disk)'
  BY DEF Write
<1> QED BY <1>1, <1>2, <1>3 DEF Inv

LEMMA ProtectInv == ASSUME Inv, NEW n \in Names, Protect(n) PROVE Inv'
<1> DEFINE content == [disk[n] EXCEPT !.protected = TRUE]
<1>1. disk' = [disk EXCEPT ![n] = content]
  BY DEF Protect
<1>2. ASSUME NEW x \in Editors PROVE JobInv(job'[x], disk')
  <2>1. job'[x] = Touched(job[x], n, TRUE)
    BY DEF Protect
  <2>2. JobInv(Touched(job[x], n, TRUE), [disk EXCEPT ![n] = content])
    BY TouchedInv DEF Inv
  <2> QED BY <1>1, <2>1, <2>2
<1>3. DOMAIN disk' = Names /\ DOMAIN job' = Editors
  BY <1>1 DEF Inv, Protect
<1> QED BY <1>2, <1>3 DEF Inv

-----------------------------------------------------------------------------
(* A fresh job, which has looked at what it looked at just now.            *)

LEMMA LoadedJobInv ==
    ASSUME Inv, NEW verb, NEW n \in Names, NEW new \in Names, NEW draft, NEW force,
           ~disk[n].protected,
           verb = "rename" => n = new \/ force \/ disk[new] = None
    PROVE  JobInv(Job("loaded", verb, n, new, draft, force), disk)
<1> DEFINE j == Job("loaded", verb, n, new, draft, force)
<1>1. /\ DOMAIN j = JobFields
      /\ j.phase = "loaded" /\ j.verb = verb /\ j.name = n /\ j.target = new
      /\ j.base = disk[n] /\ j.force = force
  BY DEF Job, JobFields
<1> QED BY <1>1 DEF JobInv, Shaped, Loaded, Explained, Allowed, Vacant, Survives, InPlace

LEMMA DraftedJobInv ==
    ASSUME Inv, NEW verb, NEW n \in Names, NEW draft, NEW force,
           verb = "save" => ~draft.protected
    PROVE  JobInv(Job("drafted", verb, n, n, draft, force), disk)
<1> DEFINE j == Job("drafted", verb, n, n, draft, force)
<1>1. /\ DOMAIN j = JobFields /\ j.phase = "drafted" /\ j.name = n /\ j.target = n
      /\ j.verb = verb /\ j.draft = draft
  BY DEF Job, JobFields
<1> QED BY <1>1 DEF JobInv, Shaped, Loaded, Explained, Allowed, Vacant, Survives, InPlace

LEMMA SafeNamesAreNames == SafeNames \subseteq Names
BY DEF SafeNames

-----------------------------------------------------------------------------
(* One lemma per group of actions.                                         *)

LEMMA BeginsInv ==
    ASSUME Inv, NEW e \in Editors,
           Load(e) \/ Create(e) \/ Clone(e) \/ LoadRename(e) \/ LoadDelete(e) \/ ManagerLoad(e)
    PROVE  Inv'
<1>1. CASE Load(e)
  <2>1. PICK n, verb, d :
          /\ n \in SafeNames /\ verb \in {"edit", "hook"} /\ Editable(n)
          /\ Begin(e, Job("loaded", verb, n, n, d, FALSE))
    BY <1>1 DEF Load
  <2>2. JobInv(Job("loaded", verb, n, n, d, FALSE), disk)
    BY <2>1, LoadedJobInv, SafeNamesAreNames DEF Editable
  <2> QED BY <2>1, <2>2, BeginInv
<1>2. CASE Create(e)
  <2>1. PICK n, d, force :
          n \in SafeNames /\ Begin(e, Job("drafted", "create", n, n, d, force))
    BY <1>2 DEF Create
  <2> QED BY <2>1, DraftedJobInv, SafeNamesAreNames, BeginInv
<1>3. CASE Clone(e)
  <2>1. PICK n, d, force :
          n \in SafeNames /\ Begin(e, Job("drafted", "clone", n, n, d, force))
    BY <1>3 DEF Clone
  <2> QED BY <2>1, DraftedJobInv, SafeNamesAreNames, BeginInv
<1>4. CASE LoadRename(e)
  <2>1. PICK n, new, force, d :
          /\ n \in SafeNames /\ new \in SafeNames /\ force \in BOOLEAN
          /\ Editable(n)
          /\ n = new \/ force \/ disk[new] = None
          /\ Begin(e, Job("loaded", "rename", n, new, d, force))
    BY <1>4 DEF LoadRename
  <2>2. JobInv(Job("loaded", "rename", n, new, d, force), disk)
    BY <2>1, LoadedJobInv, SafeNamesAreNames DEF Editable
  <2> QED BY <2>1, <2>2, BeginInv
<1>5. CASE LoadDelete(e)
  <2>1. PICK n \in SafeNames :
          Editable(n) /\ Begin(e, Job("loaded", "delete", n, n, None, FALSE))
    BY <1>5 DEF LoadDelete
  <2>2. JobInv(Job("loaded", "delete", n, n, None, FALSE), disk)
    BY <2>1, LoadedJobInv, SafeNamesAreNames DEF Editable
  <2> QED BY <2>1, <2>2, BeginInv
<1>6. CASE ManagerLoad(e)
  <2>1. PICK d : ManagerDraft(e, d)
    BY <1>6 DEF ManagerLoad
  <2>2. d.name \in Names /\ ~d.protected /\ Begin(e, Job("drafted", "save", d.name, d.name, d, FALSE))
    BY <2>1, SafeNamesAreNames DEF ManagerDraft
  <2> QED BY <2>2, DraftedJobInv, BeginInv
<1> QED BY <1>1, <1>2, <1>3, <1>4, <1>5, <1>6

\* A comparison that succeeds.
LEMMA CompareInv == ASSUME Inv, NEW e \in Editors, Compare(e) PROVE Inv'
<1> DEFINE j == job[e]
           next == [j EXCEPT !.phase = "compared", !.raced = @ \ {j.name}]
<1>1. CASE disk[j.name] # j.base
  BY <1>1, IdleInv, ContinueInv DEF Compare
<1>2. CASE disk[j.name] = j.base
  <2>1. JobInv(j, disk)
    BY DEF Inv
  <2>2. /\ DOMAIN next = JobFields /\ next.phase = "compared" /\ next.raced = j.raced \ {j.name}
        /\ next.verb = j.verb /\ next.name = j.name /\ next.target = j.target
        /\ next.base = j.base /\ next.draft = j.draft /\ next.force = j.force
    BY <2>1 DEF JobInv, Shaped, JobFields
  <2>3. Shaped(next) /\ Loaded(next)
    BY <2>1, <2>2 DEF Compare, JobInv, Shaped, Loaded, InPlace
  <2>4. Explained(next, disk) /\ Survives(next, disk)
    BY <1>2, <2>2 DEF Explained, Survives
  <2>5. Allowed(next, disk) /\ Vacant(next, disk)
    BY <2>1, <2>2 DEF Compare, JobInv, Allowed, Vacant
  <2>6. JobInv(next, disk)
    BY <2>3, <2>4, <2>5 DEF JobInv
  <2>7. Continue(e, next)
    BY <1>2 DEF Compare
  <2> QED BY <2>6, <2>7, ContinueInv
<1> QED BY <1>1, <1>2

\* A target that may be written.
LEMMA CheckTargetInv == ASSUME Inv, NEW e \in Editors, CheckTarget(e) PROVE Inv'
<1> DEFINE j == job[e]
           n == j.target
           may == disk[n] = None \/ ((j.force \/ j.verb = "save") /\ Editable(n))
           next == [j EXCEPT !.phase = "checked", !.raced = {}]
<1>1. CASE ~may
  BY <1>1, IdleInv, ContinueInv DEF CheckTarget
<1>2. CASE may
  <2>1. JobInv(j, disk)
    BY DEF Inv
  <2>2. /\ DOMAIN next = JobFields /\ next.phase = "checked"
        /\ next.verb = j.verb /\ next.name = j.name /\ next.target = j.target
        /\ next.force = j.force /\ next.draft = j.draft
    BY <2>1 DEF JobInv, Shaped, JobFields
  <2>3. Shaped(next) /\ Loaded(next) /\ Explained(next, disk) /\ Survives(next, disk)
    BY <2>1, <2>2 DEF CheckTarget, JobInv, Shaped, Loaded, Explained, Survives, InPlace
  <2>4. Allowed(next, disk) /\ Vacant(next, disk)
    BY <1>2, <2>2 DEF Allowed, Vacant, Editable, IsDoc
  <2>5. Continue(e, next)
    BY <1>2 DEF CheckTarget
  <2> QED BY <2>3, <2>4, <2>5, ContinueInv DEF JobInv
<1> QED BY <1>1, <1>2

\* The calls that are over with their write.
LEMMA LastWriteInv ==
    ASSUME Inv, NEW e \in Editors, Replace(e) \/ Place(e) \/ RemoveFile(e) \/ Fill(e)
    PROVE  Inv'
<1>1. PICK n, content, b : Write(e, n, content, b, Idle)
  BY DEF Replace, Place, RemoveFile, Fill
<1> QED BY <1>1, WriteInv, IdleInv

LEMMA PlaceRenamedInv == ASSUME Inv, NEW e \in Editors, PlaceRenamed(e) PROVE Inv'
<1> DEFINE j == job[e]
           n == j.target
           next == [j EXCEPT !.phase = "placed", !.raced = @ \ {n}]
<1>1. CASE j.name = n
  BY <1>1, WriteInv, IdleInv DEF PlaceRenamed
<1>2. CASE j.name # n
  <2>1. JobInv(j, disk) /\ DOMAIN disk = Names
    BY DEF Inv
  <2>2. j.phase = "compared" /\ j.verb = "rename" /\ Write(e, n, j.draft, TRUE, next)
    BY <1>2 DEF PlaceRenamed
  <2>3. /\ DOMAIN next = JobFields /\ next.phase = "placed" /\ next.raced = j.raced \ {n}
        /\ next.verb = j.verb /\ next.name = j.name /\ next.target = n
        /\ next.base = j.base /\ next.draft = j.draft /\ next.force = j.force
    BY <2>1 DEF JobInv, Shaped, JobFields
  <2>4. disk'[n] = j.draft /\ disk'[j.name] = disk[j.name]
    BY <1>2, <2>1, <2>2 DEF Write, JobInv, Shaped
  <2>5. Shaped(next) /\ Loaded(next)
    BY <1>2, <2>1, <2>2, <2>3 DEF JobInv, Shaped, Loaded, InPlace
  <2>6. Explained(next, disk') /\ Survives(next, disk')
    BY <1>2, <2>1, <2>2, <2>3, <2>4 DEF JobInv, Explained, Survives
  <2>7. Allowed(next, disk') /\ Vacant(next, disk')
    BY <2>3 DEF Allowed, Vacant
  <2> QED BY <2>2, <2>5, <2>6, <2>7, WriteInv DEF JobInv
<1> QED BY <1>1, <1>2

LEMMA TruncateInv == ASSUME Inv, NEW e \in Editors, Truncate(e) PROVE Inv'
<1> DEFINE j == job[e]
           next == [j EXCEPT !.phase = "torn", !.raced = {}]
<1>1. JobInv(j, disk) /\ DOMAIN disk = Names
  BY DEF Inv
<1>2. j.phase = "checked" /\ j.verb = "save" /\ Write(e, j.target, Torn, FALSE, next)
  BY DEF Truncate
<1>3. /\ DOMAIN next = JobFields /\ next.phase = "torn" /\ next.draft = j.draft
      /\ next.name = j.name /\ next.target = j.target
  BY <1>1 DEF JobInv, Shaped, JobFields
<1>4. disk'[j.target] = Torn
  BY <1>1, <1>2 DEF Write, JobInv, Shaped
<1>5. JobInv(next, disk')
  BY <1>1, <1>2, <1>3, <1>4
     DEF JobInv, Shaped, Loaded, Explained, Allowed, Vacant, Survives, IsDoc
<1> QED BY <1>2, <1>5, WriteInv

LEMMA FillSomeInv == ASSUME Inv, NEW e \in Editors, FillSome(e) PROVE Inv'
<1> DEFINE j == job[e]
           next == [j EXCEPT !.phase = "partial"]
<1>1. JobInv(j, disk) /\ DOMAIN disk = Names
  BY DEF Inv
<1>2. PICK content \in {Torn} \cup Beginnings(j.draft) :
        Write(e, j.target, content, FALSE, next)
  BY DEF FillSome, Mixed
<1>3. j.phase = "torn" /\ ~j.draft.protected
  BY <1>1 DEF FillSome, JobInv, Loaded, InPlace
<1>4. content = Torn \/ ~content.protected
  BY <1>2, <1>3 DEF Beginnings
<1>5. /\ DOMAIN next = JobFields /\ next.phase = "partial" /\ next.draft = j.draft
      /\ next.name = j.name /\ next.target = j.target
  BY <1>1 DEF JobInv, Shaped, JobFields
<1>6. disk'[j.target] = content
  BY <1>1, <1>2, <1>3 DEF Write, JobInv, Shaped
<1>7. JobInv(next, disk')
  BY <1>1, <1>3, <1>4, <1>5, <1>6
     DEF JobInv, Shaped, Loaded, Explained, Allowed, Vacant, Survives, IsDoc
<1> QED BY <1>2, <1>7, WriteInv

LEMMA AbandonInv == ASSUME Inv, NEW e \in Editors, Abandon(e) PROVE Inv'
BY IdleInv, ContinueInv DEF Abandon

LEMMA InitInv == ASSUME Init PROVE Inv
BY IdleInv, EditorAssumption DEF Init, Inv, EditorAssumption

LEMMA StepInv == ASSUME Inv, [Next]_vars PROVE Inv'
<1>1. CASE UNCHANGED vars
  BY <1>1 DEF vars, Inv
<1>2. CASE \E n \in Names : Protect(n)
  BY <1>2, ProtectInv
<1>3. ASSUME NEW e \in Editors,
             \/ Load(e) \/ Compare(e) \/ Replace(e)
             \/ Create(e) \/ Clone(e) \/ CheckTarget(e) \/ Place(e)
             \/ LoadRename(e) \/ PlaceRenamed(e)
             \/ LoadDelete(e) \/ RemoveFile(e)
             \/ ManagerLoad(e) \/ Truncate(e) \/ FillSome(e) \/ Fill(e)
             \/ Abandon(e)
      PROVE  Inv'
  BY <1>3, BeginsInv, CompareInv, CheckTargetInv, LastWriteInv, PlaceRenamedInv,
     TruncateInv, FillSomeInv, AbandonInv
<1> QED BY <1>1, <1>2, <1>3 DEF Next

LEMMA Invariant == Spec => []Inv
BY InitInv, StepInv, PTL DEF Spec

-----------------------------------------------------------------------------
(* The properties.                                                         *)

(* However many processes edit one directory, a call that compared writes  *)
(* over what it loaded unless somebody wrote in the window between the     *)
(* comparison and the write: no update is lost in any other way.           *)
THEOREM LossesAreExplained == Spec => []LossesExplained
<1>1. Inv => LossesExplained
  BY DEF Inv, JobInv, Explained, LossesExplained
<1> QED BY <1>1, Invariant, PTL

(* Without force nothing that was there is written over, except in the     *)
(* window between the look and the write.                                  *)
THEOREM NothingClobbered == Spec => []NoClobber
<1>1. Inv => NoClobber
  BY DEF Inv, JobInv, Vacant, NoClobber
<1> QED BY <1>1, Invariant, PTL

(* A rename can be interrupted anywhere and leaves the profile it loaded   *)
(* under the old name or the new one.                                      *)
THEOREM RenamesKeep == Spec => []RenameKeeps
<1>1. Inv => RenameKeeps
  BY DEF Inv, JobInv, Survives, RenameKeeps
<1> QED BY <1>1, Invariant, PTL

LEMMA WriteChanges ==
    ASSUME Inv, NEW e \in Editors, NEW m, NEW content, NEW b, NEW next,
           Write(e, m, content, b, next),
           NEW n \in Names, disk'[n] # disk[n]
    PROVE  n = m /\ job'[e] = next
BY DEF Inv, Write

\* The step behind ProtectionRaces.
LEMMA ProtectionStep ==
    ASSUME Inv, Next, NEW n \in Names, IsDoc(disk[n]), disk[n].protected, disk'[n] # disk[n]
    PROVE  \E e \in Editors : /\ Wrote(e, n)
                              /\ \/ n \in job[e].raced
                                 \/ job[e].verb = "rename" /\ n = job[e].target
<1>1. ~\E m \in Names : Protect(m)
  BY DEF Protect, Editable, Inv
<1>2. PICK e \in Editors :
          \/ Replace(e) \/ Place(e) \/ PlaceRenamed(e) \/ RemoveFile(e)
          \/ Truncate(e) \/ FillSome(e) \/ Fill(e)
  BY <1>1 DEF Next, Load, Compare, Create, Clone, CheckTarget, LoadRename, LoadDelete,
     ManagerLoad, ManagerDraft, Abandon, Begin, Continue
<1> DEFINE j == job[e]
<1>3. JobInv(j, disk) /\ DOMAIN disk = Names
  BY DEF Inv
<1>4. Idle.phase = "idle"
  BY DEF Idle
<1>5. CASE Replace(e)
  <2>0. PICK content, b : Write(e, j.name, content, b, Idle)
    BY <1>5 DEF Replace
  <2>1. n = j.name /\ job'[e] = Idle /\ j.phase = "compared"
    BY <2>0, WriteChanges, <1>5 DEF Replace
  <2> QED BY <1>3, <1>4, <2>1 DEF Wrote, JobInv, Loaded, Explained
<1>6. CASE RemoveFile(e)
  <2>0. PICK content, b : Write(e, j.name, content, b, Idle)
    BY <1>6 DEF RemoveFile
  <2>1. /\ n = j.name /\ job'[e] = Idle
        /\ \/ j.phase = "loaded" /\ j.verb = "delete"
           \/ j.phase = "placed"
    BY <2>0, WriteChanges, <1>6 DEF RemoveFile
  <2> QED BY <1>3, <1>4, <2>1 DEF Wrote, JobInv, Loaded, Explained
<1>7. CASE Place(e)
  <2>0. PICK content, b : Write(e, j.target, content, b, Idle)
    BY <1>7 DEF Place
  <2>1. n = j.target /\ job'[e] = Idle /\ j.phase = "checked"
    BY <2>0, WriteChanges, <1>7 DEF Place
  <2> QED BY <1>3, <1>4, <2>1 DEF Wrote, JobInv, Allowed
<1>8. CASE Truncate(e)
  <2>0. PICK content, b : Write(e, j.target, content, b, [j EXCEPT !.phase = "torn", !.raced = {}])
    BY <1>8 DEF Truncate
  <2>1. n = j.target /\ job'[e] = [j EXCEPT !.phase = "torn", !.raced = {}] /\ j.phase = "checked"
    BY <2>0, WriteChanges, <1>8 DEF Truncate
  <2>2. job'[e].phase = "torn"
    BY <1>3, <2>1 DEF JobInv, Shaped, JobFields
  <2> QED BY <1>3, <2>1, <2>2 DEF Wrote, JobInv, Allowed
<1>9. CASE Fill(e)
  <2>0. PICK content, b : Write(e, j.target, content, b, Idle)
    BY <1>9 DEF Fill
  <2>1. n = j.target /\ job'[e] = Idle /\ j.phase \in InPlace
    BY <2>0, WriteChanges, <1>9 DEF Fill
  <2> QED BY <1>3, <1>4, <2>1 DEF Wrote, JobInv, Allowed, InPlace
<1>11. CASE FillSome(e)
  <2>0. PICK content, b : Write(e, j.target, content, b, [j EXCEPT !.phase = "partial"])
    BY <1>11 DEF FillSome
  <2>1. n = j.target /\ job'[e] = [j EXCEPT !.phase = "partial"] /\ j.phase = "torn"
    BY <2>0, WriteChanges, <1>11 DEF FillSome
  <2>2. job'[e].phase = "partial"
    BY <1>3, <2>1 DEF JobInv, Shaped, JobFields
  <2> QED BY <1>3, <2>1, <2>2 DEF Wrote, JobInv, Allowed
<1>10. CASE PlaceRenamed(e)
  <2>0. PICK content, b, next :
          /\ Write(e, j.target, content, b, next)
          /\ next \in {Idle, [j EXCEPT !.phase = "placed", !.raced = @ \ {j.target}]}
    BY <1>10 DEF PlaceRenamed
  <2>1. j.phase = "compared" /\ j.verb = "rename"
    BY <1>10 DEF PlaceRenamed
  <2>2. n = j.target /\ job'[e] = next
    BY <2>0, WriteChanges
  <2>3. job'[e].phase \in {"idle", "placed"}
    BY <1>3, <1>4, <2>0, <2>2 DEF JobInv, Shaped, JobFields
  <2> QED BY <2>1, <2>2, <2>3 DEF Wrote
<1> QED BY <1>2, <1>5, <1>6, <1>7, <1>8, <1>9, <1>10, <1>11

(* Nobody writes over a protected profile who looked at it after it was    *)
(* protected, except by renaming another onto it.                          *)
THEOREM ProtectedProfilesRaced == Spec => ProtectionRaces
<1> DEFINE A == \A n \in Names : IsDoc(disk[n]) /\ disk[n].protected /\ disk'[n] # disk[n] =>
                  \E e \in Editors : /\ Wrote(e, n)
                                     /\ \/ n \in job[e].raced
                                        \/ job[e].verb = "rename" /\ n = job[e].target
<1>1. Inv /\ [Next]_vars => [A]_vars
  BY ProtectionStep
<1>2. Spec => [][A]_vars
  BY <1>1, Invariant, PTL DEF Spec
<1> QED BY <1>2 DEF ProtectionRaces

-----------------------------------------------------------------------------
(* The pipeline of a document.                                             *)

\* A non-empty set of naturals has a least element.
LEMMA LeastExists ==
    ASSUME NEW S \in SUBSET Nat, S # {}
    PROVE  \E x \in S : \A y \in S : x <= y
<1>1. PICK x \in S : \A y \in S : ~ (<<y, x>> \in OpToRel(<, Nat))
  BY NatLessThanWellFounded, WFMin
<1>2. ASSUME NEW y \in S, ~ (x <= y) PROVE FALSE
  <2>1. <<y, x>> \in Nat \X Nat /\ <<y, x>>[1] < <<y, x>>[2]
    BY <1>2
  <2>2. <<y, x>> \in OpToRel(<, Nat)
    BY <2>1 DEF OpToRel
  <2> QED BY <2>2, <1>1
<1> QED BY <1>2

-----------------------------------------------------------------------------
(* The k-th of a set of numbers, for which Normalized and the provers need *)
(* to know that there is one.                                              *)

UpTo(S, b) == {j \in S : j <= b}

Within(S, n) == \A j \in S : j \in Int /\ 1 <= j /\ j <= n

LEMMA UpToEnds ==
    ASSUME NEW n \in Nat, NEW S, Within(S, n) PROVE UpTo(S, 0) = {} /\ UpTo(S, n) = S
BY DEF UpTo, Within

LEMMA UpToMember ==
    ASSUME NEW S, \A j \in S : j \in Int, NEW b \in Int, b \in S
    PROVE  UpTo(S, b) = UpTo(S, b - 1) \cup {b} /\ b \notin UpTo(S, b - 1)
<1>1. \A x \in S : x <= b <=> x <= b - 1 \/ x = b
  OBVIOUS
<1>2. ~ (b <= b - 1)
  OBVIOUS
<1> QED BY <1>1, <1>2, Zenon DEF UpTo

LEMMA UpToOther ==
    ASSUME NEW S, \A j \in S : j \in Int, NEW b \in Int, b \notin S
    PROVE  UpTo(S, b) = UpTo(S, b - 1)
<1>1. \A x \in S : x <= b <=> x <= b - 1
  OBVIOUS
<1> QED BY <1>1, Zenon DEF UpTo

\* How many members a set of numbers has up to a bound.
LEMMA CountUpTo ==
    ASSUME NEW n \in Nat, NEW S, Within(S, n)
    PROVE  /\ IsFiniteSet(S)
           /\ Cardinality(UpTo(S, 0)) = 0
           /\ Cardinality(UpTo(S, n)) = Cardinality(S)
           /\ \A b : Cardinality(UpTo(S, b)) \in Nat
           /\ \A b \in Int : Cardinality(UpTo(S, b)) =
                IF b \in S THEN Cardinality(UpTo(S, b - 1)) + 1 ELSE Cardinality(UpTo(S, b - 1))
<1>1. IsFiniteSet(S)
  <2>1. IsFiniteSet(1..n)
    BY FS_Interval
  <2>2. S \in SUBSET (1..n)
    BY DEF Within
  <2> QED BY <2>1, <2>2, FS_Subset
<1>2. \A b : UpTo(S, b) \in SUBSET S
  BY DEF UpTo
<1>3. \A b : IsFiniteSet(UpTo(S, b)) /\ Cardinality(UpTo(S, b)) \in Nat
  BY <1>1, <1>2, FS_Subset, FS_CardinalityType
<1>4. Cardinality(UpTo(S, 0)) = 0 /\ Cardinality(UpTo(S, n)) = Cardinality(S)
  BY UpToEnds, FS_EmptySet
<1>5. ASSUME NEW b \in Int, b \in S
      PROVE  Cardinality(UpTo(S, b)) = Cardinality(UpTo(S, b - 1)) + 1
  <2>1. UpTo(S, b) = UpTo(S, b - 1) \cup {b} /\ b \notin UpTo(S, b - 1)
    BY <1>5, UpToMember DEF Within
  <2>2. IsFiniteSet(UpTo(S, b - 1))
    BY <1>3
  <2> QED BY <2>1, <2>2, FS_AddElement
<1>6. ASSUME NEW b \in Int, b \notin S
      PROVE  Cardinality(UpTo(S, b)) = Cardinality(UpTo(S, b - 1))
  BY <1>6, UpToOther DEF Within
<1> QED BY <1>1, <1>3, <1>4, <1>5, <1>6

\* A set with as many as k numbers has a k-th one.
LEMMA NthExists ==
    ASSUME NEW n \in Nat, NEW S, Within(S, n), NEW k \in Nat, 1 <= k, k <= Cardinality(S)
    PROVE  Nth(S, k) \in S
<1> DEFINE count == [b \in 0..n |-> Cardinality(UpTo(S, b))]
           enough == {b \in 0..n : k <= count[b]}
<1>1. /\ \A b \in 0..n : count[b] = Cardinality(UpTo(S, b)) /\ count[b] \in Nat
      /\ count[0] = 0 /\ k <= count[n]
  BY CountUpTo
<1>2. ASSUME NEW b \in 1..n
      PROVE  count[b] = IF b \in S THEN count[b - 1] + 1 ELSE count[b - 1]
  <2>1. b \in Int /\ b \in 0..n /\ b - 1 \in 0..n
    OBVIOUS
  <2> HIDE DEF count
  <2> QED BY <1>1, <2>1, CountUpTo
<1> HIDE DEF count
<1>3. PICK least \in enough : \A b \in enough : least <= b
  <2>1. enough \in SUBSET Nat /\ n \in enough
    BY <1>1
  <2> QED BY <2>1, LeastExists
<1>4. least \in 1..n /\ k <= count[least] /\ least - 1 \in 0..n
  BY <1>1, <1>3
<1>5. count[least - 1] < k
  BY <1>1, <1>3, <1>4
<1>6. least \in S /\ count[least] = k
  BY <1>1, <1>2, <1>4, <1>5
<1>7. least \in S /\ Cardinality(UpTo(S, least)) = k
  BY <1>1, <1>4, <1>6
<1> QED BY <1>7 DEF Nth, UpTo

\* The enabled macros, each one of the document's.
LEMMA NormalizedProperties ==
    ASSUME NEW p, IsList(p)
    PROVE  /\ Len(Normalized(p)) \in Nat
           /\ DOMAIN Normalized(p) = 1..Len(Normalized(p))
           /\ Normalized(p) \in Seq(Range(p))
           /\ \A k \in DOMAIN Normalized(p) :
                \E i \in DOMAIN p : p[i].enabled /\ Normalized(p)[k] = p[i]
<1> DEFINE on == {i \in DOMAIN p : p[i].enabled}
           c == Cardinality(on)
<1>1. Len(p) \in Nat /\ DOMAIN p = 1..Len(p)
  BY DEF IsList
<1>2. c \in Nat
  <2>1. Within(on, Len(p))
    BY <1>1 DEF Within
  <2>2. IsFiniteSet(on)
    BY <1>1, <2>1, CountUpTo
  <2> QED BY <2>2, FS_CardinalityType
<1>3. Normalized(p) = [k \in 1..c |-> p[Nth(on, k)]]
  BY DEF Normalized
<1>4. \A k \in 1..c : Nth(on, k) \in on
  <2>1. Within(on, Len(p))
    BY <1>1 DEF Within
  <2> HIDE DEF on
  <2> QED BY <1>1, <1>2, <2>1, NthExists
<1> HIDE DEF c
<1>5. Normalized(p) \in Seq(Range(p)) /\ DOMAIN Normalized(p) = 1..c
  <2>1. \A k \in 1..c : p[Nth(on, k)] \in Range(p)
    BY <1>4 DEF Range
  <2> QED BY <1>2, <1>3, <2>1
<1>6. Len(Normalized(p)) = c
  BY <1>2, <1>5
<1> QED BY <1>2, <1>3, <1>4, <1>5, <1>6

-----------------------------------------------------------------------------
(* From the validator's rules to a pipeline the engine can step over.      *)

\* A macro the validator passes ends in its one checklist, which is enabled
\* and has criteria.
LEMMA MacroSteps ==
    ASSUME NEW m, IsMacro(m), MacroOK(m)
    PROVE  LET s == SteppedMacro(m)
               last == Len(s.subs)
           IN  /\ s \in Macro
               /\ s.subs # <<>>
               /\ \A k \in DOMAIN s.subs : s.subs[k].kind = "checklist" <=> k = last
               /\ s.subs[last].enabled
               /\ s.criteria # {}
               /\ s.loop = m.loop
               /\ LoopTargets(m) # {} =>
                    \E k \in DOMAIN s.subs : s.subs[k].kind = "execute" /\ s.subs[k].enabled
<1> DEFINE n == Len(m.subs)
           stepped == [k \in DOMAIN m.subs |->
                          [kind |-> m.subs[k].kind, enabled |-> m.subs[k].enabled]]
<1>1. n \in Nat /\ DOMAIN m.subs = 1..n /\ \A k \in 1..n : IsSubState(m.subs[k])
  BY DEF IsMacro, IsList
<1>2. n # 0
  <2>1. m.subs # <<>> /\ m.subs \in Seq(Range(m.subs))
    BY DEF IsMacro, IsList, MacroOK
  <2> QED BY <2>1
<1>3. n \in 1..n
  BY <1>1, <1>2
<1>4. /\ \A k \in 1..n : m.subs[k].kind = "checklist" <=> k = n
      /\ m.subs[n].enabled
      /\ ChecklistsOf(m) = {n}
  <2>1. ChecklistsOf(m) = {n} /\ m.subs[n].enabled
    BY DEF MacroOK, SingleTrailingChecklist
  <2>2. \A k \in DOMAIN m.subs : k \in ChecklistsOf(m) <=> m.subs[k].kind = "checklist"
    BY DEF ChecklistsOf
  <2> QED BY <1>1, <2>1, <2>2
<1>5. stepped \in Seq(SubState) /\ Len(stepped) = n /\ DOMAIN stepped = 1..n
  <2>1. \A k \in 1..n : [kind |-> m.subs[k].kind, enabled |-> m.subs[k].enabled] \in SubState
    BY <1>1 DEF IsSubState, SubState
  <2>2. stepped = [k \in 1..n |-> [kind |-> m.subs[k].kind, enabled |-> m.subs[k].enabled]]
    BY <1>1
  <2> QED BY <1>1, <2>1, <2>2
<1>6. \A k \in 1..n : stepped[k].kind = m.subs[k].kind /\ stepped[k].enabled = m.subs[k].enabled
  BY <1>1
<1>7. ChecklistCriteria(m) = m.subs[n].criteria /\ m.subs[n].criteria \notin {None, {}}
  <2>1. m.subs[n].criteria \notin {None, {}}
    BY <1>1, <1>3, <1>4 DEF MacroOK, CriteriaOK
  <2>2. {k \in ChecklistsOf(m) : \A j \in ChecklistsOf(m) : k <= j} = {n}
    BY <1>1, <1>4
  <2>3. {m.subs[k].criteria : k \in {j \in {n} : m.subs[j].criteria # None}} = {m.subs[n].criteria}
    BY <2>1
  <2> QED BY <2>1, <2>2, <2>3 DEF ChecklistCriteria
<1>8. ChecklistCriteria(m) \subseteq Keys
  BY <1>1, <1>3, <1>7 DEF IsSubState
<1> DEFINE s == SteppedMacro(m)
<1>9. s = [subs |-> stepped, criteria |-> ChecklistCriteria(m),
           max_iterations |-> m.max_iterations, loop |-> m.loop]
  BY DEF SteppedMacro
<1> HIDE DEF stepped, s
<1>10. s \in Macro
  BY <1>5, <1>8, <1>9 DEF Macro, IsMacro
<1>11. s.subs = stepped /\ s.criteria = ChecklistCriteria(m) /\ s.loop = m.loop
  BY <1>9
<1>12. stepped # <<>>
  BY <1>2, <1>5
<1>13. LoopTargets(m) # {} =>
         \E k \in DOMAIN stepped : stepped[k].kind = "execute" /\ stepped[k].enabled
  BY <1>1, <1>5, <1>6 DEF LoopTargets
<1>14. /\ \A k \in DOMAIN stepped : stepped[k].kind = "checklist" <=> k = Len(stepped)
       /\ stepped[Len(stepped)].enabled
  BY <1>3, <1>4, <1>5, <1>6
<1> QED BY <1>7, <1>10, <1>11, <1>12, <1>13, <1>14 DEF s

(* The engine can step over what it makes of any document the validator    *)
(* passes, whatever macros are disabled: rules 1, 3, 4, 9 and 10 of        *)
(* validate_profile, of which two look at the enabled macros only, give    *)
(* the pipeline the engine is modelled with.                               *)
THEOREM ValidRuns ==
    ASSUME NEW doc, IsDocument(doc), Valid(doc)
    PROVE  Runnable(Stepped(doc.pipeline))
<1> DEFINE p == doc.pipeline
           q == Normalized(p)
           n == Len(q)
           r == Stepped(p)
<1>1. /\ n \in Nat /\ DOMAIN q = 1..n /\ q \in Seq(Range(p))
      /\ \A k \in 1..n : \E i \in DOMAIN p : p[i].enabled /\ q[k] = p[i]
  BY NormalizedProperties DEF IsDocument
<1>2. \A k \in 1..n : IsMacro(q[k]) /\ MacroOK(q[k])
  BY <1>1 DEF IsDocument, Valid, PipelineOK
<1>3. n # 0
  <2>1. q # <<>>
    BY DEF Valid, PipelineOK
  <2> QED BY <1>1, <2>1
<1>4. \A k \in 1..n : q[k].loop => LoopTargets(q[k]) # {} /\ k # n
  BY <1>1 DEF Valid, PipelineOK, LoopStateOK, Last
<1>5. r = [k \in 1..n |-> SteppedMacro(q[k])]
  BY <1>1 DEF Stepped
<1> HIDE DEF q
<1>6. r \in Seq(Macro) /\ Len(r) = n /\ DOMAIN r = 1..n
  <2>1. \A k \in 1..n : SteppedMacro(q[k]) \in Macro
    BY <1>2, MacroSteps
  <2> QED BY <1>1, <1>5, <2>1
<1>7. r # <<>>
  BY <1>3, <1>6
<1>8. ASSUME NEW m \in DOMAIN r
      PROVE  LET subs == r[m].subs  last == Len(subs)
             IN  /\ subs # <<>>
                 /\ \A k \in DOMAIN subs : subs[k].kind = "checklist" <=> k = last
                 /\ subs[last].enabled
                 /\ r[m].criteria # {}
                 /\ r[m].loop => /\ m # Len(r)
                                 /\ \E k \in DOMAIN subs :
                                      subs[k].kind = "execute" /\ subs[k].enabled
  <2>1. m \in 1..n /\ r[m] = SteppedMacro(q[m])
    BY <1>5, <1>6
  <2>2. IsMacro(q[m]) /\ MacroOK(q[m])
    BY <1>2, <2>1
  <2> QED BY <1>4, <1>6, <2>1, <2>2, MacroSteps
<1> QED BY <1>6, <1>7, <1>8 DEF Runnable

-----------------------------------------------------------------------------
(* Verbs.                                                                  *)

SubsTyped(subs) == IsList(subs) /\ \A k \in DOMAIN subs : IsSubState(subs[k])
MacrosTyped(p) == IsList(p) /\ \A i \in DOMAIN p : IsMacro(p[i])

-----------------------------------------------------------------------------
(* Lists.                                                                  *)

LEMMA ListOf ==
    ASSUME NEW S, NEW q \in Seq(S)
    PROVE  IsList(q) /\ \A k \in DOMAIN q : q[k] \in S
<1>1. q \in Seq(Range(q))
  BY SeqOfRange
<1>2. \A k \in DOMAIN q : q[k] \in S
  OBVIOUS
<1> QED BY <1>1, <1>2 DEF IsList

LEMMA InsertedList ==
    ASSUME NEW q, IsList(q), NEW i \in 1..(Len(q) + 1), NEW x
    PROVE  /\ IsList(InsertAt(q, i, x))
           /\ \A k \in DOMAIN InsertAt(q, i, x) :
                \/ InsertAt(q, i, x)[k] = x
                \/ \E j \in DOMAIN q : InsertAt(q, i, x)[k] = q[j]
<1> DEFINE S == Range(q) \cup {x}
<1>1. q \in Seq(S) /\ Len(q) \in Nat /\ DOMAIN q = 1..Len(q)
  BY SeqMonotonic DEF IsList
<1>2. SubSeq(q, 1, i - 1) \in Seq(S)
  BY <1>1, SubSeqProperties
<1>3. SubSeq(q, i, Len(q)) \in Seq(S)
  BY <1>1, SubSeqProperties
<1>4. <<x>> \in Seq(S)
  OBVIOUS
<1> HIDE DEF S
<1>5. InsertAt(q, i, x) \in Seq(S)
  BY <1>2, <1>3, <1>4, ConcatProperties DEF InsertAt
<1>6. \A y \in S : y = x \/ \E j \in DOMAIN q : y = q[j]
  BY DEF S, Range
<1> QED BY <1>5, <1>6, ListOf

LEMMA RemovedList ==
    ASSUME NEW q, IsList(q), NEW i \in DOMAIN q
    PROVE  /\ IsList(RemoveAt(q, i))
           /\ Len(RemoveAt(q, i)) = Len(q) - 1
           /\ \A k \in DOMAIN RemoveAt(q, i) : \E j \in DOMAIN q : RemoveAt(q, i)[k] = q[j]
<1> DEFINE S == Range(q)
<1>1. q \in Seq(S) /\ Len(q) \in Nat /\ DOMAIN q = 1..Len(q)
  BY DEF IsList
<1>2. SubSeq(q, 1, i - 1) \in Seq(S) /\ Len(SubSeq(q, 1, i - 1)) = i - 1
  BY <1>1, SubSeqProperties
<1>3. SubSeq(q, i + 1, Len(q)) \in Seq(S) /\ Len(SubSeq(q, i + 1, Len(q))) = Len(q) - i
  BY <1>1, SubSeqProperties
<1>4. \A y \in S : \E j \in DOMAIN q : y = q[j]
  BY DEF Range
<1> DEFINE before == SubSeq(q, 1, i - 1)
           after == SubSeq(q, i + 1, Len(q))
<1> HIDE DEF S, before, after
<1>5. RemoveAt(q, i) \in Seq(S) /\ Len(RemoveAt(q, i)) = Len(q) - 1
  <2>1. RemoveAt(q, i) = before \o after
    BY DEF RemoveAt, before, after
  <2>2. before \in Seq(S) /\ after \in Seq(S) /\ Len(before) = i - 1 /\ Len(after) = Len(q) - i
    BY <1>2, <1>3 DEF before, after
  <2>3. before \o after \in Seq(S) /\ Len(before \o after) = Len(before) + Len(after)
    BY <2>2, ConcatProperties
  <2>4. i \in Nat
    BY <1>1
  <2> QED BY <1>1, <2>1, <2>2, <2>3, <2>4
<1> QED BY <1>4, <1>5, ListOf

LEMMA MovedList ==
    ASSUME NEW q, IsList(q), NEW i \in DOMAIN q, NEW to \in DOMAIN q
    PROVE  LET r == InsertAt(RemoveAt(q, i), to, q[i])
           IN  IsList(r) /\ \A k \in DOMAIN r : \E j \in DOMAIN q : r[k] = q[j]
<1> DEFINE rest == RemoveAt(q, i)
<1>1. DOMAIN q = 1..Len(q) /\ Len(q) \in Nat
  BY DEF IsList
<1>2. IsList(rest) /\ to \in 1..(Len(rest) + 1)
  BY <1>1, RemovedList
<1>3. \A k \in DOMAIN rest : \E j \in DOMAIN q : rest[k] = q[j]
  BY RemovedList
<1> HIDE DEF rest
<1>4. /\ IsList(InsertAt(rest, to, q[i]))
      /\ \A k \in DOMAIN InsertAt(rest, to, q[i]) :
           \/ InsertAt(rest, to, q[i])[k] = q[i]
           \/ \E j \in DOMAIN rest : InsertAt(rest, to, q[i])[k] = rest[j]
  BY <1>2, InsertedList
<1>5. \A k \in DOMAIN InsertAt(rest, to, q[i]) :
        \E j \in DOMAIN q : InsertAt(rest, to, q[i])[k] = q[j]
  BY <1>3, <1>4
<1> QED BY <1>4, <1>5 DEF rest

LEMMA ReplacedList ==
    ASSUME NEW q, IsList(q), NEW i \in DOMAIN q, NEW x
    PROVE  LET r == [q EXCEPT ![i] = x]
           IN  /\ IsList(r) /\ DOMAIN r = DOMAIN q
               /\ \A k \in DOMAIN q : r[k] = IF k = i THEN x ELSE q[k]
<1> DEFINE S == Range(q) \cup {x}
           r == [q EXCEPT ![i] = x]
<1>1. q \in Seq(S) /\ x \in S /\ DOMAIN q = 1..Len(q)
  BY SeqMonotonic DEF IsList
<1>2. r \in Seq(S)
  <2> HIDE DEF S
  <2> QED BY <1>1, ExceptSeq
<1> QED BY <1>2, ListOf

-----------------------------------------------------------------------------
(* Scaffolds and copies.                                                   *)

LEMMA ScaffoldSubTyped ==
    ASSUME NEW id, NEW kind \in Kinds PROVE IsSubState(ScaffoldSub(id, kind))
BY DocumentsAssumption DEF DocumentsAssumption, ScaffoldSub, IsSubState

LEMMA SingletonList == ASSUME NEW x PROVE IsList(<<x>>) /\ DOMAIN <<x>> = {1} /\ <<x>>[1] = x
<1>1. <<x>> \in Seq({x})
  OBVIOUS
<1>2. IsList(<<x>>)
  BY <1>1, ListOf
<1>3. DOMAIN <<x>> = {1} /\ <<x>>[1] = x
  OBVIOUS
<1> QED BY <1>2, <1>3

LEMMA ScaffoldMacroTyped == ASSUME NEW id PROVE IsMacro(ScaffoldMacro(id))
<1> DEFINE subs == <<ScaffoldSub(ChecklistId, "checklist")>>
<1>1. SubsTyped(subs)
  BY SingletonList, ScaffoldSubTyped DEF SubsTyped, Kinds
<1> HIDE DEF subs
<1>2. ScaffoldMacro(id) = [id |-> id, enabled |-> TRUE, max_iterations |-> 3, loop |-> FALSE,
                           subs |-> subs, hooks |-> <<>>]
  BY DEF ScaffoldMacro, subs
<1> QED BY <1>1, <1>2 DEF IsMacro, SubsTyped

LEMMA ScaffoldTyped ==
    ASSUME NEW name, NEW text PROVE IsDocument(ScaffoldProfile(name, text))
<1> DEFINE p == <<ScaffoldMacro(FirstId)>>
<1>1. MacrosTyped(p)
  BY SingletonList, ScaffoldMacroTyped DEF MacrosTyped
<1> HIDE DEF p
<1>2. ScaffoldProfile(name, text) = [name |-> name, protected |-> FALSE, text |-> text,
                                     contract |-> "none", pipeline |-> p]
  BY DEF ScaffoldProfile, p
<1> QED BY <1>1, <1>2 DEF IsDocument, MacrosTyped

\* A document keeps its fields when its pipeline is replaced.
LEMMA PipelineReplaced ==
    ASSUME NEW doc, IsDocument(doc), NEW p, MacrosTyped(p)
    PROVE  IsDocument([doc EXCEPT !.pipeline = p])
BY DEF IsDocument, MacrosTyped

LEMMA CopyTyped ==
    ASSUME NEW doc, IsDocument(doc), NEW name
    PROVE  IsDocument(Cloned(doc, name)) /\ IsDocument([doc EXCEPT !.name = name])
BY DEF IsDocument, Cloned

\* The first elements of a list, and one more.
LEMMA FirstList ==
    ASSUME NEW q, IsList(q), NEW k \in 0..Len(q), NEW S, \A i \in DOMAIN q : q[i] \in S
    PROVE  /\ SubSeq(q, 1, k) \in Seq(S)
           /\ \A x \in S : Append(SubSeq(q, 1, k), x) \in Seq(S)
<1>1. q \in Seq(S) /\ Len(q) \in Nat /\ DOMAIN q = 1..Len(q)
  <2>1. q \in Seq(Range(q)) /\ Range(q) \subseteq S
    BY DEF IsList, Range
  <2> QED BY <2>1, SeqMonotonic
<1>2. SubSeq(q, 1, k) \in Seq(S)
  BY <1>1, SubSeqProperties
<1> QED BY <1>2, AppendProperties

LEMMA FirstSubsTyped ==
    ASSUME NEW subs, SubsTyped(subs), NEW first \in FirstSubs(subs)
    PROVE  SubsTyped(first)
<1> DEFINE S == {s \in Range(subs) \cup {Bare(subs[k]) : k \in DOMAIN subs} : IsSubState(s)}
<1>1. IsList(subs) /\ Len(subs) \in Nat /\ DOMAIN subs = 1..Len(subs)
  BY DEF SubsTyped, IsList
<1>2. \A i \in DOMAIN subs : subs[i] \in S
  BY DEF SubsTyped, Range
<1>3. \A k \in DOMAIN subs : Bare(subs[k]) \in S
  BY DEF SubsTyped, IsSubState, Bare
<1>4. \A s \in S : IsSubState(s)
  OBVIOUS
<1> HIDE DEF S
<1>5. first \in Seq(S)
  <2>1. CASE \E k \in 0..Len(subs) : first = SubSeq(subs, 1, k)
    BY <1>1, <1>2, <2>1, FirstList
  <2>2. CASE \E k \in DOMAIN subs : first = Append(SubSeq(subs, 1, k - 1), Bare(subs[k]))
    <3>1. PICK k \in DOMAIN subs : first = Append(SubSeq(subs, 1, k - 1), Bare(subs[k]))
      BY <2>2
    <3>2. k - 1 \in 0..Len(subs) /\ Bare(subs[k]) \in S
      BY <1>1, <1>3
    <3> QED BY <1>1, <1>2, <3>1, <3>2, FirstList
  <2> QED BY <2>1, <2>2 DEF FirstSubs
<1> QED BY <1>4, <1>5, ListOf DEF SubsTyped

LEMMA FirstMacrosTyped ==
    ASSUME NEW p, MacrosTyped(p), NEW first \in FirstMacros(p)
    PROVE  MacrosTyped(first)
<1>1. IsList(p) /\ Len(p) \in Nat /\ DOMAIN p = 1..Len(p)
  BY DEF MacrosTyped, IsList
<1>2. PICK i \in DOMAIN p : \E subs \in FirstSubs(p[i].subs) :
        first = Append(SubSeq(p, 1, i - 1), [p[i] EXCEPT !.subs = subs, !.hooks = <<>>])
  BY DEF FirstMacros
<1>3. PICK subs \in FirstSubs(p[i].subs) :
        first = Append(SubSeq(p, 1, i - 1), [p[i] EXCEPT !.subs = subs, !.hooks = <<>>])
  BY <1>2
<1> DEFINE m == [p[i] EXCEPT !.subs = subs, !.hooks = <<>>]
           S == {x \in Range(p) \cup {m} : IsMacro(x)}
<1>4. IsMacro(p[i]) /\ SubsTyped(p[i].subs)
  BY DEF MacrosTyped, IsMacro, SubsTyped
<1>5. IsMacro(m)
  BY <1>4, FirstSubsTyped DEF IsMacro, SubsTyped
<1>6. m \in S /\ \A k \in DOMAIN p : p[k] \in S
  BY <1>5 DEF MacrosTyped, Range
<1>7. \A x \in S : IsMacro(x)
  OBVIOUS
<1>8. first = Append(SubSeq(p, 1, i - 1), m) /\ i - 1 \in 0..Len(p)
  BY <1>1, <1>3
<1> HIDE DEF m, S
<1>9. first \in Seq(S)
  BY <1>1, <1>6, <1>8, FirstList
<1> QED BY <1>7, <1>9, ListOf DEF MacrosTyped

\* The beginning of a file that parses holds a document.
LEMMA BeginningsTyped ==
    ASSUME NEW doc, IsDocument(doc), NEW d \in Beginnings(doc) PROVE IsDocument(d)
<1>1. PICK p \in FirstMacros(doc.pipeline) :
        d = [name |-> doc.name, protected |-> doc.protected, text |-> doc.text,
             contract |-> "none", pipeline |-> p]
  BY DEF Beginnings
<1>2. MacrosTyped(p)
  BY FirstMacrosTyped DEF IsDocument, MacrosTyped
<1> QED BY <1>1, <1>2 DEF IsDocument, MacrosTyped

LEMMA EmptyTyped == ASSUME NEW name, NEW text PROVE IsDocument(EmptyProfile(name, text))
<1> DEFINE doc == ScaffoldProfile(name, text)
           tail == ScaffoldMacro(FirstId).subs
           subs == <<ScaffoldSub(InjectId, "inject"), ScaffoldSub(ExecuteId, "execute")>> \o tail
           m == [ScaffoldMacro(FirstId) EXCEPT !.subs = subs]
<1>1. IsDocument(doc) /\ doc.pipeline = <<ScaffoldMacro(FirstId)>> /\ IsMacro(ScaffoldMacro(FirstId))
  BY ScaffoldTyped, ScaffoldMacroTyped DEF ScaffoldProfile
<1>2. SubsTyped(subs)
  <2> DEFINE Good == {ScaffoldSub(InjectId, "inject"), ScaffoldSub(ExecuteId, "execute"),
                      ScaffoldSub(ChecklistId, "checklist")}
  <2>1. \A s \in Good : IsSubState(s)
    BY ScaffoldSubTyped DEF Kinds
  <2>2. tail = <<ScaffoldSub(ChecklistId, "checklist")>>
    BY DEF ScaffoldMacro
  <2> HIDE DEF tail
  <2>3. tail \in Seq(Good)
    BY <2>2
  <2>4. <<ScaffoldSub(InjectId, "inject"), ScaffoldSub(ExecuteId, "execute")>> \in Seq(Good)
    OBVIOUS
  <2> HIDE DEF Good
  <2>5. subs \in Seq(Good)
    BY <2>3, <2>4, ConcatProperties
  <2> QED BY <2>1, <2>5, ListOf DEF SubsTyped
<1> HIDE DEF subs
<1>3. IsMacro(m)
  BY <1>1, <1>2 DEF IsMacro, SubsTyped
<1>4. EmptyProfile(name, text) = [doc EXCEPT !.pipeline = [doc.pipeline EXCEPT ![1] = m]]
  BY <1>1 DEF EmptyProfile, subs, ScaffoldProfile
<1>5. MacrosTyped([doc.pipeline EXCEPT ![1] = m])
  <2>1. IsList(doc.pipeline) /\ 1 \in DOMAIN doc.pipeline
    BY <1>1 DEF IsDocument
  <2> HIDE DEF m
  <2> QED BY <1>1, <1>3, <2>1, ReplacedList DEF MacrosTyped, IsDocument
<1> QED BY <1>1, <1>4, <1>5, PipelineReplaced

-----------------------------------------------------------------------------
(* The verbs, from a sub-state up.                                         *)

LEMMA SubEditedTyped ==
    ASSUME NEW s, IsSubState(s), NEW t \in SubEdited(s) PROVE IsSubState(t)
BY DEF SubEdited, InjectionEdited, IsSubState

LEMMA FoundInDomain == ASSUME NEW q PROVE Found(q) \subseteq DOMAIN q
BY DEF Found

LEMMA SubsEditedTyped ==
    ASSUME NEW subs, SubsTyped(subs), NEW q \in SubsEdited(subs) PROVE SubsTyped(q)
<1>1. CASE \E id \in SubIds, kind \in Kinds : q \in Inserted(subs, ScaffoldSub(id, kind))
  <2>1. PICK id \in SubIds, kind \in Kinds, i \in 1..(Len(subs) + 1) :
          q = InsertAt(subs, i, ScaffoldSub(id, kind))
    BY <1>1 DEF Inserted
  <2> QED BY <2>1, InsertedList, ScaffoldSubTyped DEF SubsTyped
<1>2. CASE q \in Removed(subs)
  <2>1. PICK i \in DOMAIN subs : q = RemoveAt(subs, i)
    BY <1>2, FoundInDomain DEF Removed
  <2> QED BY <2>1, RemovedList DEF SubsTyped
<1>3. CASE q \in Moved(subs)
  <2>1. PICK i \in DOMAIN subs, to \in DOMAIN subs : q = InsertAt(RemoveAt(subs, i), to, subs[i])
    BY <1>3, FoundInDomain DEF Moved
  <2> QED BY <2>1, MovedList DEF SubsTyped
<1>4. CASE \E k \in Found(subs) : \E s \in SubEdited(subs[k]) : q = [subs EXCEPT ![k] = s]
  <2>1. PICK k \in DOMAIN subs : \E s \in SubEdited(subs[k]) : q = [subs EXCEPT ![k] = s]
    BY <1>4, FoundInDomain
  <2>2. PICK s \in SubEdited(subs[k]) : q = [subs EXCEPT ![k] = s]
    BY <2>1
  <2>3. IsSubState(s)
    BY SubEditedTyped DEF SubsTyped
  <2> QED BY <2>2, <2>3, ReplacedList DEF SubsTyped
<1> QED BY <1>1, <1>2, <1>3, <1>4 DEF SubsEdited

LEMMA MacroEditedTyped ==
    ASSUME NEW m, IsMacro(m), NEW t \in MacroEdited(m) PROVE IsMacro(t)
<1>1. CASE \E subs \in SubsEdited(m.subs) : t = [m EXCEPT !.subs = subs]
  <2>1. PICK subs \in SubsEdited(m.subs) : t = [m EXCEPT !.subs = subs]
    BY <1>1
  <2>2. SubsTyped(subs)
    BY SubsEditedTyped DEF SubsTyped, IsMacro
  <2> QED BY <2>1, <2>2 DEF IsMacro, SubsTyped
<1>2. CASE \E on \in BOOLEAN : t = [m EXCEPT !.enabled = on] \/ t = [m EXCEPT !.loop = on]
  BY <1>2 DEF IsMacro
<1>3. CASE \E n \in Iterations : t = [m EXCEPT !.max_iterations = n]
  BY <1>3, VerbsAssumption DEF VerbsAssumption, IsMacro
<1> QED BY <1>1, <1>2, <1>3 DEF MacroEdited

LEMMA PipelineEditedTyped ==
    ASSUME NEW p, MacrosTyped(p), NEW q \in PipelineEdited(p) PROVE MacrosTyped(q)
<1>1. CASE \E id \in MacroIds : q \in Inserted(p, ScaffoldMacro(id))
  <2>1. PICK id \in MacroIds, i \in 1..(Len(p) + 1) : q = InsertAt(p, i, ScaffoldMacro(id))
    BY <1>1 DEF Inserted
  <2> QED BY <2>1, InsertedList, ScaffoldMacroTyped DEF MacrosTyped
<1>2. CASE q \in Removed(p)
  <2>1. PICK i \in DOMAIN p : q = RemoveAt(p, i)
    BY <1>2, FoundInDomain DEF Removed
  <2> QED BY <2>1, RemovedList DEF MacrosTyped
<1>3. CASE q \in Moved(p)
  <2>1. PICK i \in DOMAIN p, to \in DOMAIN p : q = InsertAt(RemoveAt(p, i), to, p[i])
    BY <1>3, FoundInDomain DEF Moved
  <2> QED BY <2>1, MovedList DEF MacrosTyped
<1>4. CASE \E i \in Found(p) : \E m \in MacroEdited(p[i]) : q = [p EXCEPT ![i] = m]
  <2>1. PICK i \in DOMAIN p : \E m \in MacroEdited(p[i]) : q = [p EXCEPT ![i] = m]
    BY <1>4, FoundInDomain
  <2>2. PICK m \in MacroEdited(p[i]) : q = [p EXCEPT ![i] = m]
    BY <2>1
  <2>3. IsMacro(m)
    BY MacroEditedTyped DEF MacrosTyped
  <2> QED BY <2>2, <2>3, ReplacedList DEF MacrosTyped
<1> QED BY <1>1, <1>2, <1>3, <1>4 DEF PipelineEdited

(* No verb of the editor, hook verbs aside, makes anything but a document. *)
THEOREM EditedTyped ==
    ASSUME NEW doc, IsDocument(doc), NEW d \in Edited(doc) PROVE IsDocument(d)
<1>1. CASE \E t \in Texts : d = [doc EXCEPT !.text = t]
  BY <1>1 DEF IsDocument
<1>2. CASE \E p \in PipelineEdited(doc.pipeline) : d = [doc EXCEPT !.pipeline = p]
  <2>1. PICK p \in PipelineEdited(doc.pipeline) : d = [doc EXCEPT !.pipeline = p]
    BY <1>2
  <2>2. MacrosTyped(p)
    BY PipelineEditedTyped DEF MacrosTyped, IsDocument
  <2> QED BY <2>1, <2>2, PipelineReplaced
<1> QED BY <1>1, <1>2 DEF Edited, TextEdited

LEMMA MacroHookEditedTyped ==
    ASSUME NEW m, IsMacro(m), NEW t \in MacroHookEdited(m) PROVE IsMacro(t)
<1>1. CASE \E hooks : t = [m EXCEPT !.hooks = hooks]
  BY <1>1 DEF IsMacro
<1>2. CASE \E k \in DOMAIN m.subs : \E hooks : t = [m EXCEPT !.subs[k].hooks = hooks]
  <2>1. PICK k, hooks : /\ k \in DOMAIN m.subs
                       /\ t = [m EXCEPT !.subs[k].hooks = hooks]
    BY <1>2
  <2> DEFINE s == [m.subs[k] EXCEPT !.hooks = hooks]
             subs == [m.subs EXCEPT ![k] = s]
  <2>2. IsSubState(s)
    BY <2>1 DEF IsMacro, IsSubState
  <2>3. t = [m EXCEPT !.subs = subs]
    BY <2>1
  <2> HIDE DEF s
  <2>4. SubsTyped(subs)
    BY <2>1, <2>2, ReplacedList DEF IsMacro, SubsTyped
  <2> HIDE DEF subs
  <2> QED BY <2>3, <2>4 DEF IsMacro, SubsTyped
<1> QED BY <1>1, <1>2, FoundInDomain DEF MacroHookEdited

(* Nor do the hook verbs.                                                  *)
THEOREM HookEditedTyped ==
    ASSUME NEW doc, IsDocument(doc), NEW d \in HookEdited(doc) PROVE IsDocument(d)
<1>1. PICK i \in DOMAIN doc.pipeline :
         \E m \in MacroHookEdited(doc.pipeline[i]) : d = [doc EXCEPT !.pipeline[i] = m]
  BY FoundInDomain DEF HookEdited
<1>2. PICK m \in MacroHookEdited(doc.pipeline[i]) : d = [doc EXCEPT !.pipeline[i] = m]
  BY <1>1
<1> DEFINE p == [doc.pipeline EXCEPT ![i] = m]
<1>3. IsMacro(m)
  BY MacroHookEditedTyped DEF IsDocument
<1>4. d = [doc EXCEPT !.pipeline = p]
  BY <1>2
<1>5. MacrosTyped(p)
  BY <1>3, ReplacedList DEF IsDocument, MacrosTyped
<1> HIDE DEF p
<1> QED BY <1>4, <1>5, PipelineReplaced

(* Nor do the manager's mutations, which nothing validates.                *)
THEOREM ManagerEditedTyped ==
    ASSUME NEW doc, IsDocument(doc), NEW d \in ManagerEdited(doc) PROVE IsDocument(d)
<1> DEFINE p == doc.pipeline
<1>1. MacrosTyped(p)
  BY DEF IsDocument, MacrosTyped
<1>2. PICK q : /\ d = [doc EXCEPT !.pipeline = q]
               /\ \/ \E m \in CallerStates : q \in Inserted(p, m)
                  \/ q \in Removed(p)
                  \/ \E i \in DOMAIN p, to \in DOMAIN p : q = InsertAt(RemoveAt(p, i), to, p[i])
  BY DEF ManagerEdited
<1> HIDE DEF p
<1>3. CASE \E m \in CallerStates : q \in Inserted(p, m)
  <2>1. PICK m \in CallerStates, i \in 1..(Len(p) + 1) : q = InsertAt(p, i, m)
    BY <1>3 DEF Inserted
  <2>2. IsMacro(m)
    BY VerbsAssumption DEF VerbsAssumption
  <2>3. MacrosTyped(q)
    BY <1>1, <2>1, <2>2, InsertedList DEF MacrosTyped
  <2> QED BY <1>2, <2>3, PipelineReplaced
<1>4. CASE q \in Removed(p)
  <2>1. PICK i \in DOMAIN p : q = RemoveAt(p, i)
    BY <1>4, FoundInDomain DEF Removed
  <2>2. MacrosTyped(q)
    BY <1>1, <2>1, RemovedList DEF MacrosTyped
  <2> QED BY <1>2, <2>2, PipelineReplaced
<1>5. CASE \E i \in DOMAIN p, to \in DOMAIN p : q = InsertAt(RemoveAt(p, i), to, p[i])
  <2>1. MacrosTyped(q)
    BY <1>1, <1>5, MovedList DEF MacrosTyped
  <2> QED BY <1>2, <2>1, PipelineReplaced
<1> QED BY <1>2, <1>3, <1>4, <1>5

-----------------------------------------------------------------------------

(***************************************************************************)
(* The inductive invariant.  A file that parses holds a document, which    *)
(* passed the validators of whoever wrote it; so does what a job is about  *)
(* to write.                                                               *)
(***************************************************************************)
Sound(content, writer) ==
    IsDoc(content) =>
        /\ IsDocument(content)
        /\ writer # "manager" => Valid(content)
        /\ writer = "hooks" => HooksOK(content)

Drafting == {"loaded", "compared", "drafted", "checked"} \cup InPlace

DraftSound(j) ==
    /\ j.phase \in Drafting /\ j.verb # "delete" =>
          IsDocument(j.draft) /\ Sound(j.draft, Origin(j.verb))
    /\ j.phase \in InPlace => j.verb = "save"

FilesInv ==
    /\ DOMAIN origin = Names
    /\ \A n \in Names : Sound(disk[n], origin[n])
    /\ \A e \in Editors : DraftSound(job[e])

LEMMA SoundNone == ASSUME NEW w PROVE Sound(None, w) /\ Sound(Torn, w)
BY DEF Sound, IsDoc

LEMMA IdleSound == DraftSound(Idle)
BY DEF DraftSound, Idle, Drafting, InPlace

\* Only the phase, the verb and the draft of a job matter.
LEMMA SameDraft ==
    ASSUME NEW j, NEW t, DraftSound(j), t.verb = j.verb, t.draft = j.draft,
           t.phase \in InPlace => j.verb = "save",
           j.phase \in Drafting
    PROVE  DraftSound(t)
BY DEF DraftSound

LEMMA TouchedSound ==
    ASSUME NEW j, Shaped(j), DraftSound(j), NEW n, NEW b
    PROVE  DraftSound(Touched(j, n, b))
<1> DEFINE t == [j EXCEPT !.raced = @ \cup {n}]
<1>1. t.phase = j.phase /\ t.verb = j.verb /\ t.draft = j.draft
  BY DEF Shaped, JobFields
<1>2. DraftSound(t)
  BY <1>1 DEF DraftSound
<1> QED BY <1>2, IdleSound DEF Touched

-----------------------------------------------------------------------------
(* The kinds of step.                                                      *)

LEMMA BeginSound ==
    ASSUME Inv, FilesInv, NEW e \in Editors, NEW j, Begin(e, j), DraftSound(j)
    PROVE  FilesInv'
BY DEF Inv, FilesInv, Begin

LEMMA ContinueSound ==
    ASSUME Inv, FilesInv, NEW e \in Editors, NEW j, Continue(e, j), DraftSound(j)
    PROVE  FilesInv'
BY DEF Inv, FilesInv, Continue

LEMMA WriteSound ==
    ASSUME Inv, FilesInv, NEW e \in Editors, NEW n \in Names, NEW content, NEW b, NEW j,
           Write(e, n, content, b, j), DraftSound(j),
           content # None => Sound(content, Origin(job[e].verb))
    PROVE  FilesInv'
<1>1. DOMAIN origin' = Names
  BY DEF FilesInv, Write
<1>2. ASSUME NEW m \in Names PROVE Sound(disk'[m], origin'[m])
  <2>1. CASE m = n
    <3>1. disk'[m] = content
      BY <2>1 DEF Inv, Write
    <3>2. CASE content = None
      BY <3>1, <3>2, SoundNone
    <3>3. CASE content # None
      <4>1. origin'[m] = Origin(job[e].verb)
        BY <2>1, <3>3 DEF FilesInv, Write
      <4> QED BY <3>1, <3>3, <4>1
    <3> QED BY <3>2, <3>3
  <2>2. CASE m # n
    <3>1. disk'[m] = disk[m] /\ origin'[m] = origin[m]
      BY <2>2 DEF Inv, FilesInv, Write
    <3> QED BY <3>1 DEF FilesInv
  <2> QED BY <2>1, <2>2
<1>3. ASSUME NEW x \in Editors PROVE DraftSound(job'[x])
  <2>1. CASE x = e
    BY <2>1 DEF Write
  <2>2. CASE x # e
    <3>1. job'[x] = Touched(job[x], n, b)
      BY <2>2 DEF Write
    <3> QED BY <3>1, TouchedSound DEF Inv, JobInv, FilesInv
  <2> QED BY <2>1, <2>2
<1> QED BY <1>1, <1>2, <1>3 DEF FilesInv

\* Marking a profile protected changes nothing a validator looks at.
LEMMA ProtectSound ==
    ASSUME Inv, FilesInv, NEW n \in Names, Protect(n) PROVE FilesInv'
<1> DEFINE d == disk[n]
           marked == [d EXCEPT !.protected = TRUE]
<1>1. IsDoc(d) /\ IsDocument(d) /\ Sound(d, origin[n])
  BY DEF Protect, Editable, FilesInv, Sound
<1>2. IsDocument(marked) /\ marked.pipeline = d.pipeline /\ marked.contract = d.contract
  BY <1>1 DEF IsDocument
<1>3. Sound(marked, origin[n])
  <2> HIDE DEF marked, d
  <2> QED BY <1>1, <1>2 DEF Sound, Valid, HooksOK
<1>4. disk' = [disk EXCEPT ![n] = marked] /\ origin' = origin
  BY DEF Protect
<1> HIDE DEF marked
<1>5. ASSUME NEW m \in Names PROVE Sound(disk'[m], origin'[m])
  BY <1>3, <1>4 DEF Inv, FilesInv
<1>6. ASSUME NEW x \in Editors PROVE DraftSound(job'[x])
  <2>1. job'[x] = Touched(job[x], n, TRUE)
    BY DEF Protect
  <2> QED BY <2>1, TouchedSound DEF Inv, JobInv, FilesInv
<1> QED BY <1>4, <1>5, <1>6 DEF FilesInv

-----------------------------------------------------------------------------
(* What a call is about to write when it begins.                           *)

LEMMA JobFieldsOf ==
    ASSUME NEW phase, NEW verb, NEW n, NEW new, NEW draft, NEW force
    PROVE  LET j == Job(phase, verb, n, new, draft, force)
           IN  j.phase = phase /\ j.verb = verb /\ j.draft = draft
BY DEF Job

LEMMA FreshSound ==
    ASSUME NEW phase \in {"loaded", "drafted"}, NEW verb, NEW n, NEW new, NEW draft, NEW force,
           verb # "delete" => IsDocument(draft) /\ Sound(draft, Origin(verb))
    PROVE  DraftSound(Job(phase, verb, n, new, draft, force))
BY JobFieldsOf DEF DraftSound, InPlace

\* What the manager drafts is a document, valid or not.
LEMMA ManagerDrafted ==
    ASSUME NEW e, ManagerLoad(e), \A n \in SafeNames : IsDoc(disk[n]) => IsDocument(disk[n])
    PROVE  \E d : IsDocument(d) /\ ManagerDraft(e, d)
<1>1. CASE \E n \in SafeNames : Editable(n) /\ \E d \in ManagerEdited(disk[n]) : ManagerDraft(e, d)
  BY <1>1, ManagerEditedTyped DEF Editable
<1>2. CASE \E n, new \in SafeNames : IsDoc(disk[n]) /\ ManagerDraft(e, Cloned(disk[n], new))
  BY <1>2, CopyTyped
<1>3. CASE \E n \in SafeNames, t \in Texts : ManagerDraft(e, EmptyProfile(n, t))
  BY <1>3, EmptyTyped
<1>4. CASE \E d \in CallerProfiles : ManagerDraft(e, d)
  BY <1>4, EditorAssumption DEF EditorAssumption
<1> QED BY <1>1, <1>2, <1>3, <1>4 DEF ManagerLoad

LEMMA BeginsSound ==
    ASSUME Inv, FilesInv, NEW e \in Editors,
           Load(e) \/ Create(e) \/ Clone(e) \/ LoadRename(e) \/ LoadDelete(e) \/ ManagerLoad(e)
    PROVE  FilesInv'
<1>0. \A n \in SafeNames : IsDoc(disk[n]) => IsDocument(disk[n])
  BY SafeNamesAreNames DEF FilesInv, Sound
<1>1. CASE Load(e)
  <2>1. PICK n \in SafeNames :
          /\ Editable(n)
          /\ \/ \E d \in Drafts(disk[n]) : Begin(e, Job("loaded", "edit", n, n, d, FALSE))
             \/ \E d \in HookDrafts(disk[n]) : Begin(e, Job("loaded", "hook", n, n, d, FALSE))
    BY <1>1 DEF Load
  <2>2. IsDocument(disk[n])
    BY <1>0, <2>1 DEF Editable
  <2>3. CASE \E d \in Drafts(disk[n]) : Begin(e, Job("loaded", "edit", n, n, d, FALSE))
    <3>1. PICK d \in Drafts(disk[n]) : Begin(e, Job("loaded", "edit", n, n, d, FALSE))
      BY <2>3
    <3>2. IsDocument(d) /\ Valid(d)
      BY <2>2, EditedTyped DEF Drafts
    <3>3. DraftSound(Job("loaded", "edit", n, n, d, FALSE))
      BY <3>2, FreshSound DEF Sound, Origin
    <3> QED BY <3>1, <3>3, BeginSound
  <2>4. CASE \E d \in HookDrafts(disk[n]) : Begin(e, Job("loaded", "hook", n, n, d, FALSE))
    <3>1. PICK d \in HookDrafts(disk[n]) : Begin(e, Job("loaded", "hook", n, n, d, FALSE))
      BY <2>4
    <3>2. IsDocument(d) /\ Valid(d) /\ HooksOK(d)
      BY <2>2, HookEditedTyped DEF HookDrafts
    <3>3. DraftSound(Job("loaded", "hook", n, n, d, FALSE))
      BY <3>2, FreshSound DEF Sound
    <3> QED BY <3>1, <3>3, BeginSound
  <2> QED BY <2>1, <2>3, <2>4
<1>2. CASE Create(e)
  <2>1. PICK n \in SafeNames, t \in Texts, force \in BOOLEAN :
          /\ Valid(ScaffoldProfile(n, t))
          /\ Begin(e, Job("drafted", "create", n, n, ScaffoldProfile(n, t), force))
    BY <1>2 DEF Create
  <2>2. DraftSound(Job("drafted", "create", n, n, ScaffoldProfile(n, t), force))
    BY <2>1, ScaffoldTyped, FreshSound DEF Sound, Origin
  <2> QED BY <2>1, <2>2, BeginSound
<1>3. CASE Clone(e)
  <2>1. PICK source \in SafeNames, new \in SafeNames, force \in BOOLEAN :
          /\ IsDoc(disk[source])
          /\ Valid(Cloned(disk[source], new))
          /\ Begin(e, Job("drafted", "clone", new, new, Cloned(disk[source], new), force))
    BY <1>3 DEF Clone
  <2>2. IsDocument(Cloned(disk[source], new))
    BY <1>0, <2>1, CopyTyped
  <2>3. DraftSound(Job("drafted", "clone", new, new, Cloned(disk[source], new), force))
    BY <2>1, <2>2, FreshSound DEF Sound, Origin
  <2> QED BY <2>1, <2>3, BeginSound
<1>4. CASE LoadRename(e)
  <2>1. PICK n, new, force, d :
          /\ n \in SafeNames /\ new \in SafeNames /\ force \in BOOLEAN
          /\ d = [disk[n] EXCEPT !.name = new]
          /\ Editable(n) /\ Valid(d)
          /\ Begin(e, Job("loaded", "rename", n, new, d, force))
    BY <1>4 DEF LoadRename
  <2>2. IsDocument(d)
    BY <1>0, <2>1, CopyTyped DEF Editable
  <2>3. DraftSound(Job("loaded", "rename", n, new, d, force))
    BY <2>1, <2>2, FreshSound DEF Sound, Origin
  <2> QED BY <2>1, <2>3, BeginSound
<1>5. CASE LoadDelete(e)
  <2>1. PICK n : Begin(e, Job("loaded", "delete", n, n, None, FALSE))
    BY <1>5 DEF LoadDelete
  <2>2. DraftSound(Job("loaded", "delete", n, n, None, FALSE))
    BY FreshSound
  <2> QED BY <2>1, <2>2, BeginSound
<1>6. CASE ManagerLoad(e)
  <2>1. PICK d : IsDocument(d) /\ ManagerDraft(e, d)
    BY <1>0, <1>6, ManagerDrafted
  <2>2. Begin(e, Job("drafted", "save", d.name, d.name, d, FALSE))
    BY <2>1 DEF ManagerDraft
  <2>3. DraftSound(Job("drafted", "save", d.name, d.name, d, FALSE))
    BY <2>1, FreshSound DEF Sound, Origin
  <2> QED BY <2>2, <2>3, BeginSound
<1> QED BY <1>1, <1>2, <1>3, <1>4, <1>5, <1>6

-----------------------------------------------------------------------------
(* The steps after the first.                                              *)

LEMMA ContinuesSound ==
    ASSUME Inv, FilesInv, NEW e \in Editors, Compare(e) \/ CheckTarget(e) \/ Abandon(e)
    PROVE  FilesInv'
<1> DEFINE j == job[e]
<1>1. Shaped(j) /\ DraftSound(j)
  BY DEF Inv, JobInv, FilesInv
<1>2. CASE Continue(e, Idle)
  BY <1>2, IdleSound, ContinueSound
<1>3. CASE Compare(e) /\ ~Continue(e, Idle)
  <2> DEFINE t == [j EXCEPT !.phase = "compared", !.raced = @ \ {j.name}]
  <2>1. j.phase = "loaded" /\ Continue(e, t)
    BY <1>3 DEF Compare
  <2>2. t.phase = "compared" /\ t.verb = j.verb /\ t.draft = j.draft
    BY <1>1 DEF Shaped, JobFields
  <2>3. DraftSound(t)
    BY <1>1, <2>1, <2>2, SameDraft DEF Drafting, InPlace
  <2> QED BY <2>1, <2>3, ContinueSound
<1>4. CASE CheckTarget(e) /\ ~Continue(e, Idle)
  <2> DEFINE t == [j EXCEPT !.phase = "checked", !.raced = {}]
  <2>1. j.phase = "drafted" /\ Continue(e, t)
    BY <1>4 DEF CheckTarget
  <2>2. t.phase = "checked" /\ t.verb = j.verb /\ t.draft = j.draft
    BY <1>1 DEF Shaped, JobFields
  <2>3. DraftSound(t)
    BY <1>1, <2>1, <2>2, SameDraft DEF Drafting, InPlace
  <2> QED BY <2>1, <2>3, ContinueSound
<1> QED BY <1>2, <1>3, <1>4 DEF Abandon

LEMMA WritesSound ==
    ASSUME Inv, FilesInv, NEW e \in Editors,
           \/ Replace(e) \/ Place(e) \/ PlaceRenamed(e) \/ RemoveFile(e)
           \/ Truncate(e) \/ FillSome(e) \/ Fill(e)
    PROVE  FilesInv'
<1> DEFINE j == job[e]
<1>1. Shaped(j) /\ DraftSound(j)
  BY DEF Inv, JobInv, FilesInv
<1>2. j.phase # "idle" => j.name \in Names /\ j.target \in Names
  BY <1>1 DEF Shaped
<1>3. CASE Replace(e)
  <2>1. j.phase = "compared" /\ j.verb # "delete" /\ Sound(j.draft, Origin(j.verb))
    BY <1>1, <1>3 DEF Replace, DraftSound, Drafting
  <2>2. Write(e, j.name, j.draft, TRUE, Idle)
    BY <1>3 DEF Replace
  <2> QED BY <1>2, <2>1, <2>2, IdleSound, WriteSound
<1>4. CASE Place(e)
  <2>1. j.phase = "checked" /\ j.verb # "delete" /\ Sound(j.draft, Origin(j.verb))
    BY <1>1, <1>4 DEF Place, DraftSound, Drafting
  <2>2. Write(e, j.target, j.draft, TRUE, Idle)
    BY <1>4 DEF Place
  <2> QED BY <1>2, <2>1, <2>2, IdleSound, WriteSound
<1>5. CASE PlaceRenamed(e)
  <2> DEFINE t == [j EXCEPT !.phase = "placed", !.raced = @ \ {j.target}]
  <2>1. j.phase = "compared" /\ j.verb = "rename" /\ Sound(j.draft, Origin(j.verb))
    BY <1>1, <1>5 DEF PlaceRenamed, DraftSound, Drafting
  <2>2. t.phase = "placed"
    BY <1>1 DEF Shaped, JobFields
  <2>3. DraftSound(t)
    BY <2>2 DEF DraftSound, Drafting, InPlace
  <2> HIDE DEF t
  <2>4. PICK next \in {Idle, t} : Write(e, j.target, j.draft, TRUE, next)
    BY <1>5 DEF PlaceRenamed, t
  <2> QED BY <1>2, <2>1, <2>3, <2>4, IdleSound, WriteSound
<1>6. CASE RemoveFile(e)
  <2>1. j.phase # "idle" /\ Write(e, j.name, None, TRUE, Idle)
    BY <1>6 DEF RemoveFile
  <2> QED BY <1>2, <2>1, IdleSound, WriteSound
<1>7. CASE Truncate(e)
  <2> DEFINE t == [j EXCEPT !.phase = "torn", !.raced = {}]
  <2>1. j.phase = "checked" /\ j.verb = "save" /\ Write(e, j.target, Torn, FALSE, t)
    BY <1>7 DEF Truncate
  <2>2. t.phase = "torn" /\ t.verb = j.verb /\ t.draft = j.draft
    BY <1>1 DEF Shaped, JobFields
  <2>3. DraftSound(t)
    BY <1>1, <2>1, <2>2, SameDraft DEF Drafting
  <2>4. Sound(Torn, Origin(j.verb))
    BY SoundNone
  <2> QED BY <1>2, <2>1, <2>3, <2>4, WriteSound
<1>8. j.phase \in InPlace => \A content \in {j.draft, Torn} \cup Beginnings(j.draft) :
                                   Sound(content, Origin(j.verb))
  <2> SUFFICES ASSUME j.phase \in InPlace,
                      NEW content \in {j.draft, Torn} \cup Beginnings(j.draft)
               PROVE  Sound(content, Origin(j.verb))
    OBVIOUS
  <2>1. j.verb = "save" /\ Sound(j.draft, Origin(j.verb)) /\ Origin(j.verb) = "manager"
    BY <1>1 DEF DraftSound, Drafting, Origin
  <2>2. IsDocument(j.draft)
    BY <1>1, <2>1 DEF DraftSound, Drafting
  <2>3. content \in Beginnings(j.draft) => IsDocument(content)
    BY <2>2, BeginningsTyped
  <2> QED BY <2>1, <2>3, SoundNone DEF Sound
<1>9. CASE Fill(e)
  <2>1. PICK content \in {j.draft, Torn} \cup Beginnings(j.draft) :
          Write(e, j.target, content, FALSE, Idle)
    BY <1>9 DEF Fill, Mixed
  <2>2. j.phase \in InPlace /\ j.phase # "idle"
    BY <1>9 DEF Fill, InPlace
  <2> QED BY <1>2, <1>8, <2>1, <2>2, IdleSound, WriteSound
<1>10. CASE FillSome(e)
  <2> DEFINE t == [j EXCEPT !.phase = "partial"]
  <2>1. PICK content \in {Torn} \cup Beginnings(j.draft) :
          Write(e, j.target, content, FALSE, t)
    BY <1>10 DEF FillSome, Mixed
  <2>2. j.phase \in InPlace /\ j.phase # "idle"
    BY <1>10 DEF FillSome, InPlace
  <2>3. t.verb = j.verb /\ t.draft = j.draft
    BY <1>1 DEF Shaped, JobFields
  <2>4. DraftSound(t)
    BY <1>1, <2>2, <2>3, SameDraft DEF Drafting, DraftSound
  <2> QED BY <1>2, <1>8, <2>1, <2>2, <2>4, WriteSound
<1> QED BY <1>3, <1>4, <1>5, <1>6, <1>7, <1>9, <1>10

LEMMA InitSound == ASSUME Init PROVE FilesInv
<1>1. \A n \in Names : Sound(disk[n], origin[n])
  <2>1. \A n \in Names : IsDoc(disk[n]) => IsDocument(disk[n]) /\ Valid(disk[n])
    <3>1. \A n \in Names : IF Safe(n) THEN IsDoc(disk[n]) => IsDocument(disk[n]) /\ Valid(disk[n])
                                      ELSE disk[n] = None
      BY EditorAssumption DEF EditorAssumption, Init
    <3> QED BY <3>1 DEF IsDoc
  <2>2. \A n \in Names : origin[n] = "editor"
    BY DEF Init
  <2> QED BY <2>1, <2>2 DEF Sound
<1> QED BY <1>1, IdleSound DEF Init, FilesInv

LEMMA StepSound == ASSUME Inv, FilesInv, [Next]_vars PROVE FilesInv'
<1>1. CASE UNCHANGED vars
  BY <1>1 DEF vars, FilesInv
<1>2. CASE \E n \in Names : Protect(n)
  BY <1>2, ProtectSound
<1>3. ASSUME NEW e \in Editors,
             \/ Load(e) \/ Compare(e) \/ Replace(e)
             \/ Create(e) \/ Clone(e) \/ CheckTarget(e) \/ Place(e)
             \/ LoadRename(e) \/ PlaceRenamed(e)
             \/ LoadDelete(e) \/ RemoveFile(e)
             \/ ManagerLoad(e) \/ Truncate(e) \/ FillSome(e) \/ Fill(e)
             \/ Abandon(e)
      PROVE  FilesInv'
  BY <1>3, BeginsSound, ContinuesSound, WritesSound
<1> QED BY <1>1, <1>2, <1>3 DEF Next

LEMMA FilesInvariant == Spec => []FilesInv
BY InitInv, StepInv, InitSound, StepSound, PTL DEF Spec

-----------------------------------------------------------------------------
(* Types: what a job compares with and writes are documents, under names   *)
(* that stay inside the directory.                                         *)

LEMMA IdleTyped == JobTyped(Idle)
BY DEF JobTyped, Idle, Phases, Verb

LEMMA TouchedTyped ==
    ASSUME NEW j, Shaped(j), JobTyped(j), NEW n, NEW b
    PROVE  JobTyped(Touched(j, n, b))
<1> DEFINE t == [j EXCEPT !.raced = @ \cup {n}]
<1>1. /\ t.phase = j.phase /\ t.verb = j.verb /\ t.name = j.name /\ t.target = j.target
      /\ t.base = j.base /\ t.draft = j.draft /\ t.raced = j.raced \cup {n}
  BY DEF Shaped, JobFields
<1> HIDE DEF t
<1>2. n \in {j.name, j.target} => JobTyped(t)
  BY <1>1 DEF JobTyped
<1> QED BY <1>2, IdleTyped DEF Touched, t

LEMMA LoadedTyped ==
    ASSUME NEW verb \in Verb, NEW n \in SafeNames, NEW new \in SafeNames, NEW draft, NEW force,
           IsDocument(disk[n]), verb # "delete" => IsDocument(draft)
    PROVE  JobTyped(Job("loaded", verb, n, new, draft, force))
<1> DEFINE j == Job("loaded", verb, n, new, draft, force)
<1>1. /\ j.phase = "loaded" /\ j.verb = verb /\ j.name = n /\ j.target = new
      /\ j.base = disk[n] /\ j.draft = draft /\ j.raced = {}
  BY DEF Job
<1> HIDE DEF j
<1>2. JobTyped(j)
  BY <1>1 DEF JobTyped, Phases
<1> QED BY <1>2 DEF j

LEMMA DraftedTyped ==
    ASSUME NEW verb \in Verb, NEW n \in SafeNames, NEW draft, NEW force, IsDocument(draft)
    PROVE  JobTyped(Job("drafted", verb, n, n, draft, force))
<1> DEFINE j == Job("drafted", verb, n, n, draft, force)
<1>1. /\ j.phase = "drafted" /\ j.verb = verb /\ j.name = n /\ j.target = n
      /\ j.draft = draft /\ j.raced = {}
  BY DEF Job
<1> HIDE DEF j
<1>2. JobTyped(j)
  BY <1>1 DEF JobTyped, Phases
<1> QED BY <1>2 DEF j

LEMMA BeginTyped ==
    ASSUME Inv, TypeOK, NEW e \in Editors, NEW j, CanBegin(e), Begin(e, j), JobTyped(j)
    PROVE  TypeOK'
<1>1. ops' \in 0..MaxOps
  BY EditorAssumption DEF EditorAssumption, CanBegin, Begin, TypeOK
<1>2. \A x \in Editors : JobTyped(job'[x])
  BY DEF Inv, Begin, TypeOK
<1> QED BY <1>1, <1>2 DEF Begin, TypeOK, JobTyped

LEMMA ContinueTyped ==
    ASSUME Inv, TypeOK, NEW e \in Editors, NEW j, Continue(e, j), JobTyped(j)
    PROVE  TypeOK'
<1>1. \A x \in Editors : JobTyped(job'[x])
  BY DEF Inv, Continue, TypeOK
<1> QED BY <1>1 DEF Continue, TypeOK

LEMMA WriteTyped ==
    ASSUME Inv, TypeOK, NEW e \in Editors, NEW n \in SafeNames, NEW content, NEW b, NEW j,
           Write(e, n, content, b, j), JobTyped(j),
           content \in {None, Torn} \/ IsDocument(content)
    PROVE  TypeOK'
<1>1. \A x \in Editors : JobTyped(job'[x])
  <2>1. ASSUME NEW x \in Editors, x # e PROVE JobTyped(job'[x])
    <3>1. job'[x] = Touched(job[x], n, b)
      BY <2>1 DEF Write
    <3> QED BY <3>1, TouchedTyped DEF Inv, JobInv, TypeOK
  <2>2. JobTyped(job'[e])
    BY DEF Write
  <2> QED BY <2>1, <2>2
<1>2. Origin(job[e].verb) \in {"editor", "hooks", "manager"}
  BY DEF Origin
<1>3. origin' \in [Names -> {"editor", "hooks", "manager"}]
  BY <1>2 DEF Write, TypeOK
<1>4. DOMAIN disk' = Names /\ \A m \in Names : disk'[m] = IF m = n THEN content ELSE disk[m]
  BY DEF Write, TypeOK
<1>5. ops' = ops
  BY DEF Write
<1>6. \A m \in Names \ SafeNames : disk'[m] = None
  BY <1>4 DEF TypeOK
<1>7. \A m \in Names : IsDoc(disk'[m]) => IsDocument(disk'[m])
  BY <1>4 DEF TypeOK, IsDoc
<1> QED BY <1>1, <1>3, <1>4, <1>5, <1>6, <1>7 DEF TypeOK

LEMMA BeginsTyped ==
    ASSUME Inv, TypeOK, NEW e \in Editors,
           Load(e) \/ Create(e) \/ Clone(e) \/ LoadRename(e) \/ LoadDelete(e) \/ ManagerLoad(e)
    PROVE  TypeOK'
<1>0. \A n \in SafeNames : IsDoc(disk[n]) => IsDocument(disk[n])
  BY SafeNamesAreNames DEF TypeOK
<1>1. CASE Load(e)
  <2>1. PICK n \in SafeNames, verb \in {"edit", "hook"} :
          \E d \in Drafts(disk[n]) \cup HookDrafts(disk[n]) :
            /\ CanBegin(e) /\ Editable(n)
            /\ Begin(e, Job("loaded", verb, n, n, d, FALSE))
    BY <1>1 DEF Load
  <2>d. PICK d \in Drafts(disk[n]) \cup HookDrafts(disk[n]) :
          /\ CanBegin(e) /\ Editable(n)
          /\ Begin(e, Job("loaded", verb, n, n, d, FALSE))
    BY <2>1
  <2>2. IsDocument(disk[n])
    BY <1>0, <2>d DEF Editable
  <2>3. IsDocument(d)
    BY <2>d, <2>2, EditedTyped, HookEditedTyped DEF Drafts, HookDrafts
  <2>4. verb \in Verb
    BY DEF Verb
  <2>5. JobTyped(Job("loaded", verb, n, n, d, FALSE))
    BY <2>2, <2>3, <2>4, LoadedTyped
  <2> QED BY <2>d, <2>5, BeginTyped
<1>2. CASE Create(e)
  <2>1. PICK n \in SafeNames, t \in Texts, force \in BOOLEAN :
          /\ CanBegin(e)
          /\ Begin(e, Job("drafted", "create", n, n, ScaffoldProfile(n, t), force))
    BY <1>2 DEF Create
  <2>2. JobTyped(Job("drafted", "create", n, n, ScaffoldProfile(n, t), force))
    BY ScaffoldTyped, DraftedTyped DEF Verb
  <2> QED BY <2>1, <2>2, BeginTyped
<1>3. CASE Clone(e)
  <2>1. PICK source \in SafeNames, new \in SafeNames, force \in BOOLEAN :
          /\ CanBegin(e) /\ IsDoc(disk[source])
          /\ Begin(e, Job("drafted", "clone", new, new, Cloned(disk[source], new), force))
    BY <1>3 DEF Clone
  <2>2. IsDocument(Cloned(disk[source], new))
    BY <1>0, <2>1, CopyTyped
  <2>3. JobTyped(Job("drafted", "clone", new, new, Cloned(disk[source], new), force))
    BY <2>2, DraftedTyped DEF Verb
  <2> QED BY <2>1, <2>3, BeginTyped
<1>4. CASE LoadRename(e)
  <2>1. PICK n, new, force, d :
          /\ n \in SafeNames /\ new \in SafeNames
          /\ CanBegin(e) /\ Editable(n) /\ d = [disk[n] EXCEPT !.name = new]
          /\ Begin(e, Job("loaded", "rename", n, new, d, force))
    BY <1>4 DEF LoadRename
  <2>2. IsDocument(disk[n]) /\ IsDocument(d)
    BY <1>0, <2>1, CopyTyped DEF Editable
  <2>3. JobTyped(Job("loaded", "rename", n, new, d, force))
    BY <2>1, <2>2, LoadedTyped DEF Verb
  <2> QED BY <2>1, <2>3, BeginTyped
<1>5. CASE LoadDelete(e)
  <2>1. PICK n \in SafeNames :
          /\ CanBegin(e) /\ Editable(n)
          /\ Begin(e, Job("loaded", "delete", n, n, None, FALSE))
    BY <1>5 DEF LoadDelete
  <2>2. JobTyped(Job("loaded", "delete", n, n, None, FALSE))
    BY <1>0, <2>1, LoadedTyped DEF Verb, Editable
  <2> QED BY <2>1, <2>2, BeginTyped
<1>6. CASE ManagerLoad(e)
  <2>1. PICK d : IsDocument(d) /\ ManagerDraft(e, d)
    BY <1>0, <1>6, ManagerDrafted
  <2>2. d.name \in SafeNames /\ Begin(e, Job("drafted", "save", d.name, d.name, d, FALSE))
    BY <2>1 DEF ManagerDraft
  <2>3. JobTyped(Job("drafted", "save", d.name, d.name, d, FALSE))
    BY <2>1, <2>2, DraftedTyped DEF Verb
  <2>4. CanBegin(e)
    BY <1>6 DEF ManagerLoad
  <2> QED BY <2>2, <2>3, <2>4, BeginTyped
<1> QED BY <1>1, <1>2, <1>3, <1>4, <1>5, <1>6

\* A job that goes on keeps what it loaded and what it is about to write.
LEMMA NextTyped ==
    ASSUME NEW j, Shaped(j), JobTyped(j),
           NEW phase, NEW raced \in SUBSET j.raced,
           \/ phase = "compared" /\ j.phase = "loaded"
           \/ phase = "placed" /\ j.phase = "compared"
           \/ phase = "checked" /\ j.phase = "drafted"
           \/ phase = "torn" /\ j.phase = "checked"
           \/ phase = "partial" /\ j.phase = "torn"
    PROVE  JobTyped([j EXCEPT !.phase = phase, !.raced = raced])
<1> DEFINE t == [j EXCEPT !.phase = phase, !.raced = raced]
<1>1. /\ t.phase = phase /\ t.verb = j.verb /\ t.name = j.name /\ t.target = j.target
      /\ t.base = j.base /\ t.draft = j.draft /\ t.raced = raced
  BY DEF Shaped, JobFields
<1> HIDE DEF t
<1>2. JobTyped(t)
  BY <1>1 DEF JobTyped, Phases
<1> QED BY <1>2 DEF t

LEMMA GoesOnTyped ==
    ASSUME Inv, TypeOK, NEW e \in Editors, Compare(e) \/ CheckTarget(e) \/ Abandon(e)
    PROVE  TypeOK'
<1> DEFINE j == job[e]
<1>1. Shaped(j) /\ JobTyped(j)
  BY DEF Inv, JobInv, TypeOK
<1>2. CASE Continue(e, Idle)
  BY <1>2, IdleTyped, ContinueTyped
<1>3. CASE Compare(e) /\ ~Continue(e, Idle)
  <2>1. j.phase = "loaded" /\ Continue(e, [j EXCEPT !.phase = "compared", !.raced = j.raced \ {j.name}])
    BY <1>3 DEF Compare
  <2>2. JobTyped([j EXCEPT !.phase = "compared", !.raced = j.raced \ {j.name}])
    BY <1>1, <2>1, NextTyped
  <2> QED BY <2>1, <2>2, ContinueTyped
<1>4. CASE CheckTarget(e) /\ ~Continue(e, Idle)
  <2>1. j.phase = "drafted" /\ Continue(e, [j EXCEPT !.phase = "checked", !.raced = {}])
    BY <1>4 DEF CheckTarget
  <2>2. JobTyped([j EXCEPT !.phase = "checked", !.raced = {}])
    BY <1>1, <2>1, NextTyped
  <2> QED BY <2>1, <2>2, ContinueTyped
<1> QED BY <1>2, <1>3, <1>4 DEF Abandon

LEMMA WritesTyped ==
    ASSUME Inv, TypeOK, FilesInv, NEW e \in Editors,
           \/ Replace(e) \/ Place(e) \/ PlaceRenamed(e) \/ RemoveFile(e)
           \/ Truncate(e) \/ FillSome(e) \/ Fill(e)
    PROVE  TypeOK'
<1> DEFINE j == job[e]
<1>1. Shaped(j) /\ JobTyped(j) /\ DraftSound(j)
  BY DEF Inv, JobInv, TypeOK, FilesInv
<1>2. j.phase # "idle" => j.name \in SafeNames /\ j.target \in SafeNames
  BY <1>1 DEF JobTyped
<1>3. CASE Replace(e)
  <2>1. IsDocument(j.draft) /\ j.name \in SafeNames /\ Write(e, j.name, j.draft, TRUE, Idle)
    BY <1>1, <1>3 DEF Replace, JobTyped
  <2> QED BY <2>1, IdleTyped, WriteTyped
<1>4. CASE Place(e)
  <2>1. IsDocument(j.draft) /\ j.target \in SafeNames /\ Write(e, j.target, j.draft, TRUE, Idle)
    BY <1>1, <1>4 DEF Place, JobTyped
  <2> QED BY <2>1, IdleTyped, WriteTyped
<1>5. CASE PlaceRenamed(e)
  <2> DEFINE t == [j EXCEPT !.phase = "placed", !.raced = j.raced \ {j.target}]
  <2>1. j.phase = "compared" /\ IsDocument(j.draft) /\ j.target \in SafeNames
    BY <1>1, <1>5 DEF PlaceRenamed, JobTyped
  <2>2. JobTyped(t)
    BY <1>1, <2>1, NextTyped
  <2> HIDE DEF t
  <2>3. PICK next \in {Idle, t} : Write(e, j.target, j.draft, TRUE, next)
    BY <1>5 DEF PlaceRenamed, t
  <2> QED BY <2>1, <2>2, <2>3, IdleTyped, WriteTyped
<1>6. CASE RemoveFile(e)
  <2>1. j.phase # "idle" /\ Write(e, j.name, None, TRUE, Idle)
    BY <1>6 DEF RemoveFile
  <2> QED BY <1>2, <2>1, IdleTyped, WriteTyped
<1>7. CASE Truncate(e)
  <2>1. /\ j.phase = "checked"
        /\ Write(e, j.target, Torn, FALSE, [j EXCEPT !.phase = "torn", !.raced = {}])
    BY <1>7 DEF Truncate
  <2>2. JobTyped([j EXCEPT !.phase = "torn", !.raced = {}])
    BY <1>1, <2>1, NextTyped
  <2> QED BY <1>2, <2>1, <2>2, WriteTyped
<1>8. j.phase \in InPlace =>
        /\ j.target \in SafeNames
        /\ \A content \in {j.draft, Torn} \cup Beginnings(j.draft) :
              content \in {None, Torn} \/ IsDocument(content)
  <2> SUFFICES ASSUME j.phase \in InPlace
               PROVE  /\ j.target \in SafeNames
                      /\ \A content \in {j.draft, Torn} \cup Beginnings(j.draft) :
                            content \in {None, Torn} \/ IsDocument(content)
    OBVIOUS
  <2>1. IsDocument(j.draft) /\ j.target \in SafeNames
    BY <1>1 DEF JobTyped, DraftSound, InPlace
  <2> QED BY <2>1, BeginningsTyped
<1>9. CASE Fill(e)
  <2>1. j.phase \in InPlace
    BY <1>9 DEF Fill
  <2>2. PICK content \in {j.draft, Torn} \cup Beginnings(j.draft) :
          Write(e, j.target, content, FALSE, Idle)
    BY <1>9 DEF Fill, Mixed
  <2> QED BY <1>8, <2>1, <2>2, IdleTyped, WriteTyped
<1>10. CASE FillSome(e)
  <2>1. j.phase = "torn" /\ j.phase \in InPlace
    BY <1>10 DEF FillSome, InPlace
  <2>2. PICK content \in {j.draft, Torn} \cup Beginnings(j.draft) :
          Write(e, j.target, content, FALSE, [j EXCEPT !.phase = "partial"])
    BY <1>10 DEF FillSome, Mixed
  <2>3. JobTyped([j EXCEPT !.phase = "partial", !.raced = j.raced])
    BY <1>1, <2>1, NextTyped
  <2>4. [j EXCEPT !.phase = "partial"] = [j EXCEPT !.phase = "partial", !.raced = j.raced]
    BY <1>1 DEF Shaped, JobFields
  <2> QED BY <1>8, <2>1, <2>2, <2>3, <2>4, WriteTyped
<1> QED BY <1>3, <1>4, <1>5, <1>6, <1>7, <1>9, <1>10

LEMMA ProtectTyped == ASSUME Inv, TypeOK, NEW n \in Names, Protect(n) PROVE TypeOK'
<1> DEFINE d == disk[n]
           marked == [d EXCEPT !.protected = TRUE]
<1>1. IsDoc(d) /\ IsDocument(d)
  BY DEF Protect, Editable, TypeOK
<1>2. IsDocument(marked)
  BY <1>1 DEF IsDocument
<1>3. disk' = [disk EXCEPT ![n] = marked] /\ origin' = origin /\ ops' \in 0..MaxOps
  BY EditorAssumption DEF EditorAssumption, Protect, TypeOK
<1> HIDE DEF marked
<1>4. n \in SafeNames
  BY <1>1 DEF TypeOK, IsDoc
<1>5. \A x \in Editors : JobTyped(job'[x])
  <2>1. \A x \in Editors : job'[x] = Touched(job[x], n, TRUE)
    BY DEF Protect
  <2>2. ASSUME NEW x \in Editors PROVE JobTyped(Touched(job[x], n, TRUE))
    BY TouchedTyped DEF Inv, JobInv, TypeOK
  <2> QED BY <2>1, <2>2
<1>6. DOMAIN disk' = Names /\ \A m \in Names : disk'[m] = IF m = n THEN marked ELSE disk[m]
  BY <1>3 DEF TypeOK
<1>7. \A m \in Names \ SafeNames : disk'[m] = None
  BY <1>4, <1>6 DEF TypeOK
<1>8. \A m \in Names : IsDoc(disk'[m]) => IsDocument(disk'[m])
  BY <1>2, <1>6 DEF TypeOK
<1> QED BY <1>3, <1>5, <1>6, <1>7, <1>8 DEF TypeOK

LEMMA InitTyped == ASSUME Init PROVE TypeOK
<1>1. \A n \in Names : IF Safe(n) THEN IsDoc(disk[n]) => IsDocument(disk[n]) ELSE disk[n] = None
  BY EditorAssumption DEF EditorAssumption, Init
<1>2. \A n \in Names : IsDoc(disk[n]) => IsDocument(disk[n])
  BY <1>1 DEF IsDoc
<1>3. \A n \in Names \ SafeNames : disk[n] = None
  BY <1>1 DEF SafeNames
<1>4. ops \in 0..MaxOps /\ DOMAIN disk = Names
  BY EditorAssumption DEF EditorAssumption, Init
<1> QED BY <1>2, <1>3, <1>4, IdleTyped DEF Init, TypeOK

LEMMA StepTyped == ASSUME Inv, FilesInv, TypeOK, [Next]_vars PROVE TypeOK'
<1>1. CASE UNCHANGED vars
  BY <1>1 DEF vars, TypeOK
<1>2. CASE \E n \in Names : Protect(n)
  BY <1>2, ProtectTyped
<1>3. ASSUME NEW e \in Editors,
             \/ Load(e) \/ Compare(e) \/ Replace(e)
             \/ Create(e) \/ Clone(e) \/ CheckTarget(e) \/ Place(e)
             \/ LoadRename(e) \/ PlaceRenamed(e)
             \/ LoadDelete(e) \/ RemoveFile(e)
             \/ ManagerLoad(e) \/ Truncate(e) \/ FillSome(e) \/ Fill(e)
             \/ Abandon(e)
      PROVE  TypeOK'
  BY <1>3, BeginsTyped, GoesOnTyped, WritesTyped
<1> QED BY <1>1, <1>2, <1>3 DEF Next

(* No process ever writes what is not a document, or to a name that leads  *)
(* out of the profiles directory, whatever the verbs make of the documents *)
(* they find: a file that was a document is one until somebody's write is  *)
(* cut short.                                                              *)
THEOREM EditorTyped == Spec => []TypeOK
<1>1. Init => Inv /\ FilesInv /\ TypeOK
  BY InitInv, InitSound, InitTyped
<1>2. Inv /\ FilesInv /\ TypeOK /\ [Next]_vars => (Inv /\ FilesInv /\ TypeOK)'
  BY StepInv, StepSound, StepTyped
<1> QED BY <1>1, <1>2, PTL DEF Spec

-----------------------------------------------------------------------------
(* The properties.                                                         *)

(* Whatever verbs are called in whatever order by however many processes,  *)
(* a profile whose last writer was the editor is one the engine can step   *)
(* through, though neither is asked about the other.                       *)
THEOREM EditorFilesRun == Spec => []EveryFileRuns
<1>1. FilesInv => EveryFileRuns
  BY ValidRuns DEF FilesInv, Sound, EveryFileRuns
<1> QED BY <1>1, FilesInvariant, PTL

\* The hook rules, read for one sub-state.
LEMMA HooksAttest ==
    ASSUME NEW s, IsSubState(s), CriteriaOK(s), SubHooksOK(s)
    PROVE  LET runs == {h \in Range(s.hooks) : VerifyBound(h)}
               attested == UNION {EffectiveDef(h).verify_criteria : h \in runs}
           IN  runs # {} =>
                 /\ s.kind = "checklist"
                 /\ s.criteria \subseteq attested
                 /\ attested \subseteq s.criteria \cup UNION {h.candidates : h \in runs}
<1> DEFINE runs == VerifyHooks(s.hooks)
           readable == (IF s.criteria = None THEN {} ELSE s.criteria) \cup ScratchKeys(s.hooks)
           attested == UNION {EffectiveDef(h).verify_criteria : h \in runs}
<1>1. ASSUME NEW h \in runs
      PROVE  s.kind = "checklist" /\ EffectiveDef(h).verify_criteria \subseteq readable
  <2>1. PICK i \in DOMAIN s.hooks : h = s.hooks[i]
    BY DEF VerifyHooks, Range
  <2>2. HookRefOK(h, s.kind = "checklist", readable)
    BY <2>1 DEF SubHooksOK
  <2> QED BY <2>2 DEF HookRefOK, VerifyHooks
<1>2. SUFFICES ASSUME runs # {}
               PROVE  /\ s.kind = "checklist"
                      /\ s.criteria \subseteq attested
                      /\ attested \subseteq s.criteria \cup UNION {h.candidates : h \in runs}
  BY DEF VerifyHooks
<1>3. s.kind = "checklist"
  BY <1>1, <1>2
<1>4. s.criteria # None
  BY <1>3 DEF CriteriaOK
<1>5. s.criteria \subseteq attested
  BY <1>2, <1>3, <1>4 DEF SubHooksOK, CriteriaCovered
<1>6. readable = s.criteria \cup UNION {h.candidates : h \in runs}
  BY <1>4 DEF ScratchKeys
<1>7. attested \subseteq readable
  BY <1>1
<1> QED BY <1>3, <1>5, <1>6, <1>7

(* A hook verb leaves no criterion of a verified checklist to the agent's  *)
(* word, for every library, document and set of references.                *)
THEOREM HookedCriteriaAttested == Spec => []CriteriaAttested
<1>1. ASSUME FilesInv, NEW n \in Names, IsDoc(disk[n]), origin[n] = "hooks",
             NEW i \in DOMAIN disk[n].pipeline, NEW k \in DOMAIN disk[n].pipeline[i].subs
      PROVE  /\ IsSubState(disk[n].pipeline[i].subs[k])
             /\ CriteriaOK(disk[n].pipeline[i].subs[k])
             /\ SubHooksOK(disk[n].pipeline[i].subs[k])
  <2>1. IsDocument(disk[n]) /\ Valid(disk[n]) /\ HooksOK(disk[n])
    BY <1>1 DEF FilesInv, Sound
  <2>2. IsMacro(disk[n].pipeline[i]) /\ MacroOK(disk[n].pipeline[i])
    BY <2>1 DEF IsDocument, Valid, PipelineOK
  <2>3. IsSubState(disk[n].pipeline[i].subs[k]) /\ CriteriaOK(disk[n].pipeline[i].subs[k])
    BY <2>2 DEF IsMacro, MacroOK
  <2>4. SubHooksOK(disk[n].pipeline[i].subs[k])
    BY <2>1 DEF HooksOK
  <2> QED BY <2>3, <2>4
<1>2. FilesInv => CriteriaAttested
  BY <1>1, HooksAttest DEF CriteriaAttested
<1> QED BY <1>2, FilesInvariant, PTL

=============================================================================
