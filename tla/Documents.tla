----------------------------- MODULE Documents -----------------------------
(***************************************************************************)
(* Profiles as they are stored and edited: every macro and sub-state with  *)
(* its id, disabled ones included, the hooks and library entries they      *)
(* refer to, and the pipeline the engine makes of one.                     *)
(*                                                                         *)
(* All free text (names, descriptions, prompts, icons, dates, settings,    *)
(* versions, where a profile was cloned from) is one value per document:   *)
(* nothing but "the bytes differ" depends on it.  Lists of criteria and of *)
(* verify checks are sets, since only membership is ever asked of them.    *)
(***************************************************************************)
EXTENDS Shape, SequencesExt

CONSTANTS
    None,              \* an optional field that is not set
    Names,             \* profile names
    UnsafeNames,       \* names with a path separator or ".."
    Texts,             \* values of the free text
    Placeholder,       \* the criterion of a scaffold
    FirstId,           \* the macro id of a scaffolded profile, "phase1"
    ChecklistId,       \* the sub-state id of a scaffolded checklist
    InjectId,          \* the other sub-state ids of the manager's scaffold
    ExecuteId,
    LibraryEntries,    \* [skill, protocol |-> names of files that exist]
    HookLibrary        \* hook id -> definition

-----------------------------------------------------------------------------
(* Hooks.  A reference names a library hook or carries a definition; what  *)
(* matters of a definition is when it runs and what it may do.  A          *)
(* reference is [id, version, candidates, inline]; candidates are the keys *)
(* its scratch candidates may set.                                         *)

HookEvents == {"pre_macro_enter", "pre_substate_enter", "verify",
               "post_substate_exit", "post_macro_exit", "on_reject", "on_loop_back"}

EventClass(event) ==
    CASE event = "verify" -> "verify"
      [] event \in {"pre_macro_enter", "pre_substate_enter"} -> "pre_drive"
      [] OTHER -> "advisory"

HookDef == [version : Nat, kind : {"validate", "mutate"}, events : SUBSET HookEvents,
            verify_criteria : SUBSET Keys,
            bounded : BOOLEAN,      \* timeout_ms > 0 and output_cap_bytes > 0
            absolute : BOOLEAN]     \* a token of the command starts with "/"

DocumentsAssumption ==
    /\ Placeholder \in Keys
    /\ ChecklistId \notin {InjectId, ExecuteId}
    /\ DOMAIN LibraryEntries = {"skill", "protocol"}
    /\ \A id \in DOMAIN HookLibrary : HookLibrary[id] \in HookDef

ASSUME DocumentsAssumption

-----------------------------------------------------------------------------
(* The prompt library.                                                     *)

Safe(name) == name \notin UnsafeNames

\* A skill or a protocol resolves when its file is there and its name
\* cannot lead out of the library.
Resolves(kind, name) == Safe(name) /\ name \in LibraryEntries[kind]

ResolvesHook(id) == Safe(id) /\ id \in DOMAIN HookLibrary

-----------------------------------------------------------------------------
(* Documents: what a file that parses holds.  approver stands for the      *)
(* approver key of a gate, contract for the output contract.               *)

IsList(q) == q \in Seq(Range(q))

IsSubState(s) ==
    /\ DOMAIN s = {"id", "kind", "enabled", "criteria", "verify", "skill", "protocol",
                   "approver", "hooks"}
    /\ s.kind \in Kinds
    /\ s.enabled \in BOOLEAN
    /\ s.criteria = None \/ s.criteria \subseteq Keys

IsMacro(m) ==
    /\ DOMAIN m = {"id", "enabled", "max_iterations", "loop", "subs", "hooks"}
    /\ m.enabled \in BOOLEAN
    /\ m.max_iterations \in Nat
    /\ m.loop \in BOOLEAN
    /\ IsList(m.subs) /\ \A k \in DOMAIN m.subs : IsSubState(m.subs[k])

IsDocument(doc) ==
    /\ DOMAIN doc = {"name", "protected", "text", "contract", "pipeline"}
    /\ IsList(doc.pipeline) /\ \A i \in DOMAIN doc.pipeline : IsMacro(doc.pipeline[i])

-----------------------------------------------------------------------------
(* What the engine steps over.                                             *)

ChecklistsOf(m) == {k \in DOMAIN m.subs : m.subs[k].kind = "checklist"}

\* The criteria of the first checklist; none when there is no checklist.
ChecklistCriteria(m) ==
    LET first == {k \in ChecklistsOf(m) : \A j \in ChecklistsOf(m) : k <= j}
    IN  UNION {m.subs[k].criteria : k \in {j \in first : m.subs[j].criteria # None}}

\* The enabled execute sub-states; the loop goes back to the first of them.
LoopTargets(m) == {k \in DOMAIN m.subs : m.subs[k].kind = "execute" /\ m.subs[k].enabled}

\* The k-th of a finite set of numbers.
Nth(S, k) == CHOOSE i \in S : Cardinality({j \in S : j <= i}) = k

\* with_enabled_macros_only, of which only the pipeline changes.
Normalized(p) ==
    LET on == {i \in DOMAIN p : p[i].enabled}
    IN  [k \in 1..Cardinality(on) |-> p[Nth(on, k)]]

\* A macro and a pipeline as module Shape has them.
SteppedMacro(m) ==
    [subs |-> [k \in DOMAIN m.subs |->
                  [kind |-> m.subs[k].kind, enabled |-> m.subs[k].enabled]],
     criteria |-> ChecklistCriteria(m),
     max_iterations |-> m.max_iterations,
     loop |-> m.loop]

Stepped(p) == [i \in DOMAIN Normalized(p) |-> SteppedMacro(Normalized(p)[i])]

-----------------------------------------------------------------------------
(* Scaffolds: what a new profile, macro or sub-state starts as.            *)

ScaffoldSub(id, kind) ==
    [id |-> id, kind |-> kind, enabled |-> TRUE,
     criteria |-> IF kind = "checklist" THEN {Placeholder} ELSE None,
     verify |-> {}, skill |-> None, protocol |-> None,
     approver |-> "absent", hooks |-> <<>>]

ScaffoldMacro(id) ==
    [id |-> id, enabled |-> TRUE, max_iterations |-> 3, loop |-> FALSE,
     subs |-> <<ScaffoldSub(ChecklistId, "checklist")>>, hooks |-> <<>>]

ScaffoldProfile(name, text) ==
    [name |-> name, protected |-> FALSE, text |-> text, contract |-> "none",
     pipeline |-> <<ScaffoldMacro(FirstId)>>]

\* The manager's own scaffold (ProfileManager::create_empty_profile).
EmptyProfile(name, text) ==
    [ScaffoldProfile(name, text) EXCEPT !.pipeline[1].subs =
        <<ScaffoldSub(InjectId, "inject"), ScaffoldSub(ExecuteId, "execute")>> \o @]

-----------------------------------------------------------------------------
(* What the beginning of a file parses as, cut behind the fields of a      *)
(* macro or a sub-state: fields that are not reached have their defaults.  *)
(* The sub-states come last in a macro but for its hooks, the contract     *)
(* comes behind the pipeline.                                              *)

\* A sub-state cut behind the last of its required fields.
Bare(s) ==
    [s EXCEPT !.enabled = TRUE, !.criteria = None, !.verify = {}, !.skill = None,
              !.protocol = None, !.approver = "absent", !.hooks = <<>>]

\* The first sub-states, the last of them whole or bare.
FirstSubs(subs) ==
    {SubSeq(subs, 1, k) : k \in 0..Len(subs)}
    \cup {Append(SubSeq(subs, 1, k - 1), Bare(subs[k])) : k \in DOMAIN subs}

FirstMacros(p) ==
    UNION {{Append(SubSeq(p, 1, i - 1), [p[i] EXCEPT !.subs = subs, !.hooks = <<>>]) :
               subs \in FirstSubs(p[i].subs)} : i \in DOMAIN p}

Beginnings(doc) ==
    {[name |-> doc.name, protected |-> doc.protected, text |-> doc.text,
      contract |-> "none", pipeline |-> p] : p \in FirstMacros(doc.pipeline)}

-----------------------------------------------------------------------------
\* Profile::clone: the copy has its own name and is never protected.
Cloned(doc, name) == [doc EXCEPT !.name = name, !.protected = FALSE]

=============================================================================
