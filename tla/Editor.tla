------------------------------- MODULE Editor -------------------------------
(***************************************************************************)
(* The profiles directory and the processes that write it: the profile     *)
(* editor (ProfileEditor), the older ProfileManager, and a person with a   *)
(* text editor.  Nothing locks the directory.  Each call is a job cut at   *)
(* its system calls: what it reads, what it checks, and what it writes are *)
(* separate steps, and between two of them another process may take any of *)
(* its own, or the process may die or get an I/O error (Abandon).          *)
(*                                                                         *)
(* An editor's write is one step: the temporary file it fills has a name   *)
(* nobody reads, and the rename over the target is atomic.  The manager    *)
(* writes in place: the file is empty (Torn), then holds a beginning of    *)
(* the profile, before it holds all of it.                                 *)
(* A call that fails before it has anything to write changes nothing and   *)
(* is not an action; neither is preview, which never writes.               *)
(***************************************************************************)
EXTENDS Verbs

CONSTANTS
    Editors,          \* processes
    Torn,             \* a file that does not parse
    CallerProfiles,   \* profiles callers hand to ProfileManager::save_profile
    InitialDisk,      \* what the directory may hold at first
    MaxOps            \* calls and hand edits in a behaviour

VARIABLES
    disk,     \* what each name's file holds: None, Torn or a document
    origin,   \* who wrote it last: "editor", "hooks" or "manager"
    job,      \* the call each process is in
    ops       \* calls and hand edits so far

vars == <<disk, origin, job, ops>>

IsDoc(content) == content \notin {None, Torn}

\* The directory starts out as verbs of the editor have left it: they read
\* and write by safe names only, and write what passed the validator.
EditorAssumption ==
    /\ MaxOps \in Nat
    /\ \A p \in CallerProfiles : IsDocument(p)
    /\ \A d \in InitialDisk :
         /\ DOMAIN d = Names
         /\ \A n \in Names : IF Safe(n) THEN IsDoc(d[n]) => IsDocument(d[n]) /\ Valid(d[n])
                                        ELSE d[n] = None

ASSUME EditorAssumption

Editable(n) == IsDoc(disk[n]) /\ ~disk[n].protected
SafeNames == {n \in Names : Safe(n)}

(***************************************************************************)
(* A job.  base is what it loaded from name's file and will compare; draft *)
(* is what it will write to target's.  raced holds the files among the two *)
(* that another process wrote since the job last checked them.             *)
(***************************************************************************)
Idle == [phase |-> "idle", verb |-> "none", name |-> None, target |-> None,
         base |-> None, draft |-> None, force |-> FALSE, raced |-> {}]

Job(phase, verb, name, target, draft, force) ==
    [phase |-> phase, verb |-> verb, name |-> name, target |-> target,
     base |-> IF phase = "loaded" THEN disk[name] ELSE None,
     draft |-> draft, force |-> force, raced |-> {}]

Phases == {"idle", "loaded", "compared", "drafted", "checked", "placed", "torn",
           "partial"}
InPlace == {"torn", "partial"}
Verb == {"none", "edit", "hook", "rename", "delete", "create", "clone", "save"}

Origin(verb) == CASE verb = "hook" -> "hooks" [] verb = "save" -> "manager" [] OTHER -> "editor"

Init ==
    /\ disk \in InitialDisk
    /\ origin = [n \in Names |-> "editor"]
    /\ job = [e \in Editors |-> Idle]
    /\ ops = 0

-----------------------------------------------------------------------------
(* Steps a call is made of.                                                *)

CanBegin(e) == job[e].phase = "idle" /\ ops < MaxOps

Begin(e, j) ==
    /\ ops' = ops + 1
    /\ job' = [job EXCEPT ![e] = j]
    /\ UNCHANGED <<disk, origin>>

Continue(e, j) ==
    /\ job' = [job EXCEPT ![e] = j]
    /\ UNCHANGED <<disk, origin, ops>>

\* The file of n is written or removed.  When the name is given another file
\* (a rename over it, a removal), a manager that was filling the old one
\* fills a file no name leads to: its call is over.
Touched(j, n, anotherFile) ==
    IF n \notin {j.name, j.target} THEN j
    ELSE IF anotherFile /\ j.phase \in InPlace THEN Idle
    ELSE [j EXCEPT !.raced = @ \cup {n}]

Write(e, n, content, anotherFile, j) ==
    /\ disk' = [disk EXCEPT ![n] = content]
    /\ origin' = [origin EXCEPT ![n] = IF content = None THEN "editor" ELSE Origin(job[e].verb)]
    /\ job' = [x \in Editors |-> IF x = e THEN j ELSE Touched(job[x], n, anotherFile)]
    /\ UNCHANGED ops

-----------------------------------------------------------------------------
(* The verbs that change one profile: load, mutate, validate; compare;     *)
(* replace.                                                                *)

\* Mutant: the protection of the loaded profile is not looked at.
LoadMutant(e) ==
    CanBegin(e) /\ \E n \in SafeNames : IsDoc(disk[n]) /\
        \E d \in Drafts(disk[n]) : Begin(e, Job("loaded", "edit", n, n, d, FALSE))

\* edit, and edit_with_hook_validation.
Load(e) ==
    CanBegin(e) /\ \E n \in SafeNames : Editable(n) /\
        \/ \E d \in Drafts(disk[n]) : Begin(e, Job("loaded", "edit", n, n, d, FALSE))
        \/ \E d \in HookDrafts(disk[n]) : Begin(e, Job("loaded", "hook", n, n, d, FALSE))

\* Mutant: the loaded bytes are not compared with the file's.
CompareMutant(e) ==
    /\ job[e].phase = "loaded" /\ job[e].verb # "delete"
    /\ Continue(e, [job[e] EXCEPT !.phase = "compared", !.raced = @ \ {job[e].name}])

\* The file is read again; a difference is a Conflict.
Compare(e) ==
    /\ job[e].phase = "loaded" /\ job[e].verb # "delete"
    /\ Continue(e, IF disk[job[e].name] = job[e].base
                   THEN [job[e] EXCEPT !.phase = "compared", !.raced = @ \ {job[e].name}]
                   ELSE Idle)

\* atomic_write.
Replace(e) ==
    /\ job[e].phase = "compared" /\ job[e].verb \in {"edit", "hook"}
    /\ Write(e, job[e].name, job[e].draft, TRUE, Idle)

-----------------------------------------------------------------------------
(* Create, clone, rename, delete.                                          *)

Create(e) ==
    CanBegin(e) /\ \E n \in SafeNames, t \in Texts, force \in BOOLEAN :
        /\ Valid(ScaffoldProfile(n, t))
        /\ Begin(e, Job("drafted", "create", n, n, ScaffoldProfile(n, t), force))

\* The source may be protected.
Clone(e) ==
    CanBegin(e) /\ \E source, new \in SafeNames, force \in BOOLEAN :
        /\ IsDoc(disk[source])
        /\ Valid(Cloned(disk[source], new))
        /\ Begin(e, Job("drafted", "clone", new, new, Cloned(disk[source], new), force))

\* Mutant: force is not asked for.
CheckTargetMutant(e) ==
    /\ job[e].phase = "drafted"
    /\ LET n == job[e].target
       IN  Continue(e, IF disk[n] = None \/ Editable(n)
                       THEN [job[e] EXCEPT !.phase = "checked", !.raced = {}]
                       ELSE Idle)

\* A file that is there may be overwritten only by force, and only when it
\* parses and is not protected.  The manager needs no force.
CheckTarget(e) ==
    /\ job[e].phase = "drafted"
    /\ LET n == job[e].target
           overwrite == (job[e].force \/ job[e].verb = "save") /\ Editable(n)
       IN  Continue(e, IF disk[n] = None \/ overwrite
                       THEN [job[e] EXCEPT !.phase = "checked", !.raced = {}]
                       ELSE Idle)

\* atomic_write: neither compares what is there with what was checked.
Place(e) ==
    /\ job[e].phase = "checked" /\ job[e].verb \in {"create", "clone"}
    /\ Write(e, job[e].target, job[e].draft, TRUE, Idle)

\* The source must be unprotected; the target is looked at without force
\* only, and whether it is protected is not.
LoadRename(e) ==
    CanBegin(e) /\ \E n, new \in SafeNames, force \in BOOLEAN :
        LET d == [disk[n] EXCEPT !.name = new]
        IN  /\ Editable(n)
            /\ n = new \/ force \/ disk[new] = None
            /\ Valid(d)
            /\ Begin(e, Job("loaded", "rename", n, new, d, force))

\* Mutant: the old file goes first.
PlaceRenamedMutant(e) ==
    /\ job[e].phase = "compared" /\ job[e].verb = "rename"
    /\ Write(e, job[e].name, None, TRUE, [job[e] EXCEPT !.phase = "placed", !.raced = {}])

\* The new file is written, then the old one removed.
PlaceRenamed(e) ==
    /\ job[e].phase = "compared" /\ job[e].verb = "rename"
    /\ Write(e, job[e].target, job[e].draft, TRUE,
             IF job[e].name = job[e].target THEN Idle
             ELSE [job[e] EXCEPT !.phase = "placed", !.raced = @ \ {job[e].target}])

LoadDelete(e) ==
    CanBegin(e) /\ \E n \in SafeNames :
        Editable(n) /\ Begin(e, Job("loaded", "delete", n, n, None, FALSE))

\* remove_file, for delete and for the old file of a rename: whatever is
\* there now, an error when nothing is.
RemoveFile(e) ==
    /\ \/ job[e].phase = "loaded" /\ job[e].verb = "delete"
       \/ job[e].phase = "placed"
    /\ disk[job[e].name] # None
    /\ Write(e, job[e].name, None, TRUE, Idle)

-----------------------------------------------------------------------------
(* ProfileManager: no validation, no comparison, written in place, to the  *)
(* file the profile's own name leads to.                                   *)

\* Mutant: the profile's name is not looked at.
ManagerDraftMutant(e, draft) ==
    /\ ~draft.protected
    /\ Begin(e, Job("drafted", "save", draft.name, draft.name, draft, FALSE))

ManagerDraft(e, draft) ==
    /\ ~draft.protected
    /\ draft.name \in SafeNames
    /\ Begin(e, Job("drafted", "save", draft.name, draft.name, draft, FALSE))

\* add_state, remove_state, move_state; clone_profile; create_empty_profile;
\* save_profile.  Its delete_profile is LoadDelete.
ManagerLoad(e) ==
    /\ CanBegin(e)
    /\ \/ \E n \in SafeNames : /\ Editable(n)
                               /\ \E d \in ManagerEdited(disk[n]) : ManagerDraft(e, d)
       \/ \E n, new \in SafeNames : IsDoc(disk[n]) /\ ManagerDraft(e, Cloned(disk[n], new))
       \/ \E n \in SafeNames, t \in Texts : ManagerDraft(e, EmptyProfile(n, t))
       \/ \E d \in CallerProfiles : ManagerDraft(e, d)

Truncate(e) ==
    /\ job[e].phase = "checked" /\ job[e].verb = "save"
    /\ Write(e, job[e].target, Torn, FALSE, [job[e] EXCEPT !.phase = "torn", !.raced = {}])

\* Two managers filling one file may leave a mixture.
Mixed(e) == IF job[e].raced = {} THEN {} ELSE {Torn} \cup Beginnings(job[e].draft)

\* A write that has got so far; it may get no further.
FillSome(e) ==
    /\ job[e].phase = "torn"
    /\ \E content \in Beginnings(job[e].draft) \cup Mixed(e) :
         Write(e, job[e].target, content, FALSE, [job[e] EXCEPT !.phase = "partial"])

Fill(e) ==
    /\ job[e].phase \in InPlace
    /\ \E content \in {job[e].draft} \cup Mixed(e) :
         Write(e, job[e].target, content, FALSE, Idle)

-----------------------------------------------------------------------------
(* The environment.                                                        *)

\* A person marks a profile protected: no verb does.
Protect(n) ==
    /\ Editable(n)
    /\ ops < MaxOps
    /\ ops' = ops + 1
    /\ disk' = [disk EXCEPT ![n].protected = TRUE]
    /\ job' = [e \in Editors |-> Touched(job[e], n, TRUE)]
    /\ UNCHANGED origin

\* The process dies, or a system call fails: the call is over and what it
\* did so far stays.
Abandon(e) == job[e].phase # "idle" /\ Continue(e, Idle)

Next ==
    \/ \E e \in Editors :
         \/ Load(e) \/ Compare(e) \/ Replace(e)
         \/ Create(e) \/ Clone(e) \/ CheckTarget(e) \/ Place(e)
         \/ LoadRename(e) \/ PlaceRenamed(e)
         \/ LoadDelete(e) \/ RemoveFile(e)
         \/ ManagerLoad(e) \/ Truncate(e) \/ FillSome(e) \/ Fill(e)
         \/ Abandon(e)
    \/ \E n \in Names : Protect(n)

Spec == Init /\ [][Next]_vars

-----------------------------------------------------------------------------
(* Properties.                                                             *)

JobTyped(j) ==
    /\ j.phase \in Phases /\ j.verb \in Verb /\ j.raced \subseteq {j.name, j.target}
    /\ j.phase # "idle" => j.name \in SafeNames /\ j.target \in SafeNames
    /\ j.phase \in {"loaded", "compared", "placed"} => IsDocument(j.base)
    /\ j.phase # "idle" /\ j.verb # "delete" => IsDocument(j.draft)

(* Files hold nothing, garbage or a document, jobs what their phase says:  *)
(* a job about to compare has a document to compare with, one that writes  *)
(* has a document to write.                                                *)
TypeOK ==
    /\ DOMAIN disk = Names /\ \A n \in Names \ SafeNames : disk[n] = None
    /\ \A n \in Names : IsDoc(disk[n]) => IsDocument(disk[n])
    /\ origin \in [Names -> {"editor", "hooks", "manager"}]
    /\ ops \in 0..MaxOps
    /\ \A e \in Editors : JobTyped(job[e])

(* Every profile the editor wrote is one the engine can step through: its  *)
(* enabled macros form a runnable pipeline, whatever was disabled, moved   *)
(* or removed and whoever wrote in between.  (validate_profile checks the  *)
(* document, the engine steps over what with_enabled_macros_only leaves.)  *)
EveryFileRuns ==
    \A n \in Names :
        IsDoc(disk[n]) /\ origin[n] # "manager" => Runnable(Stepped(disk[n].pipeline))

(* After a hook verb, a checklist one of whose hooks verifies has none of  *)
(* its criteria passed on the agent's word alone, and no hook attests a    *)
(* key nobody reads: neither a criterion nor a candidate of a hook that    *)
(* runs at verification.                                                   *)
CriteriaAttested ==
    \A n \in Names : IsDoc(disk[n]) /\ origin[n] = "hooks" =>
        \A i \in DOMAIN disk[n].pipeline : \A k \in DOMAIN disk[n].pipeline[i].subs :
            LET s == disk[n].pipeline[i].subs[k]
                runs == {h \in Range(s.hooks) : VerifyBound(h)}
                attested == UNION {EffectiveDef(h).verify_criteria : h \in runs}
            IN  runs # {} =>
                  /\ s.kind = "checklist"
                  /\ s.criteria \subseteq attested
                  /\ attested \subseteq s.criteria \cup UNION {h.candidates : h \in runs}

(* A call that compared overwrites or removes what it loaded, unless       *)
(* another process wrote between the comparison and the write (the         *)
(* comparison and the rename are two calls); a delete likewise since its   *)
(* load.  Every lost update has such a write to explain it.                *)
LossesExplained ==
    \A e \in Editors : LET j == job[e] IN
        \/ j.phase \in {"compared", "placed"}
        \/ j.phase = "loaded" /\ j.verb = "delete"
        => j.name \in j.raced \/ disk[j.name] = j.base

(* Without force, create, clone and rename never write over a file that    *)
(* was there when they looked: if there is one now, somebody wrote it      *)
(* since.                                                                  *)
NoClobber ==
    \A e \in Editors : LET j == job[e] IN
        /\ ~j.force
        /\ \/ j.phase = "checked" /\ j.verb \in {"create", "clone"}
           \/ j.phase \in {"loaded", "compared"} /\ j.verb = "rename" /\ j.name # j.target
        => j.target \in j.raced \/ disk[j.target] = None

(* A rename, wherever it is interrupted, leaves the profile it loaded      *)
(* under one of the two names, unless another process wrote them.          *)
RenameKeeps ==
    \A e \in Editors : LET j == job[e] IN
        j.verb = "rename" /\ j.phase \in {"compared", "placed"} =>
            \/ {j.name, j.target} \cap j.raced # {}
            \/ disk[j.name] = j.base
            \/ disk[j.target] = j.draft

\* The calls whose step wrote the file of n.
Wrote(e, n) ==
    job'[e].phase # job[e].phase /\ n \in {job[e].name, job[e].target}

(* A protected profile is written over or removed only by a rename onto it *)
(* or by a call that checked before it was protected.                      *)
ProtectionRaces ==
    [][\A n \in Names : IsDoc(disk[n]) /\ disk[n].protected /\ disk'[n] # disk[n] =>
          \E e \in Editors : /\ Wrote(e, n)
                             /\ \/ n \in job[e].raced
                                \/ job[e].verb = "rename" /\ n = job[e].target]_vars

=============================================================================
