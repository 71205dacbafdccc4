----------------------------- MODULE Validator -----------------------------
(***************************************************************************)
(* The two validators of a profile.  Valid is validate_profile, which the  *)
(* editor runs before it writes and the engine before it starts; HooksOK   *)
(* is validate_hooks, which only the hook verbs of the editor run here     *)
(* (the driver runs it too; the engine never does).  Both report every     *)
(* violation; only whether there is one matters, so each rule is a         *)
(* conjunct.                                                               *)
(***************************************************************************)
EXTENDS Documents

CONSTANT ColonIds   \* ids that contain ':'

DistinctIds(seq) == \A i, j \in DOMAIN seq : seq[i].id = seq[j].id => i = j

\* Rule 3: exactly one checklist, last, not disabled.
SingleTrailingChecklist(m) ==
    /\ ChecklistsOf(m) = {Len(m.subs)}
    /\ m.subs[Len(m.subs)].enabled

\* Rule 4.
CriteriaOK(s) ==
    IF s.kind = "checklist" THEN s.criteria \notin {None, {}} ELSE s.criteria = None

\* Rule 5.
InjectionOK(s) ==
    /\ s.skill = None \/ Resolves("skill", s.skill)
    /\ s.protocol = None \/ Resolves("protocol", s.protocol)

\* Rule 8.
VerifyOK(s) == s.verify \subseteq (IF s.criteria = None THEN {} ELSE s.criteria)

\* Rule 11.
ApprovalOK(s) ==
    IF s.kind = "human_approval" THEN s.approver = "valid" ELSE s.approver = "absent"

MacroOK(m) ==
    /\ m.id \notin ColonIds
    /\ m.subs # <<>>
    /\ DistinctIds(m.subs)
    /\ SingleTrailingChecklist(m)
    /\ \A k \in DOMAIN m.subs :
         /\ m.subs[k].id \notin ColonIds
         /\ CriteriaOK(m.subs[k])
         /\ InjectionOK(m.subs[k])
         /\ VerifyOK(m.subs[k])
         /\ ApprovalOK(m.subs[k])

\* Mutant: looks at the last macro of the file, enabled or not.
LoopStateMutant(p) ==
    \A i \in DOMAIN p : p[i].loop => LoopTargets(p[i]) # {} /\ p[i].id # Last(p).id

\* Rules 9 and 10, on the enabled macros only.  The final macro is told by
\* its id, as in the code.
LoopStateOK(p) ==
    LET enabled == Normalized(p)
    IN  \A i \in DOMAIN enabled :
            enabled[i].loop => /\ LoopTargets(enabled[i]) # {}
                               /\ enabled[i].id # Last(enabled).id

PipelineOK(p) ==
    /\ p # <<>>
    /\ DistinctIds(p)
    /\ \A i \in DOMAIN p : MacroOK(p[i])
    /\ Normalized(p) # <<>>
    /\ LoopStateOK(p)

\* Rule 6 is about the output contract: its schema and destination.
Valid(doc) == PipelineOK(doc.pipeline) /\ doc.contract # "unusable"

-----------------------------------------------------------------------------
(* Hook rules.                                                             *)

\* The definition a reference stands for, None when it is malformed (both or
\* neither of id and inline) or does not resolve.
EffectiveDef(h) ==
    IF (h.id # None) = (h.inline # None) THEN None
    ELSE IF h.inline # None THEN h.inline
    ELSE IF ResolvesHook(h.id) THEN HookLibrary[h.id]
    ELSE None

VerifyBound(h) == EffectiveDef(h) # None /\ "verify" \in EffectiveDef(h).events

VerifyHooks(hooks) == {h \in Range(hooks) : VerifyBound(h)}

\* Mutant: any hook's candidates keep a dead target alive.
ScratchKeysMutant(hooks) == UNION {h.candidates : h \in Range(hooks)}

\* The candidates a verify hook of the same sub-state reads.
ScratchKeys(hooks) == UNION {h.candidates : h \in VerifyHooks(hooks)}

\* H1 to H8 for one reference.  checklist: attached to a checklist sub-state;
\* readable: its criteria and the scratch keys of the hooks beside it.
HookRefOK(h, checklist, readable) ==
    LET def == EffectiveDef(h)
    IN  /\ def # None                                                \* H1, H2
        /\ h.id # None => h.version = def.version                    \* H4
        /\ IF VerifyBound(h)
           THEN checklist /\ def.verify_criteria # {}                \* H3, H7
                /\ def.verify_criteria \subseteq readable
           ELSE def.verify_criteria = {}
        /\ def.kind = "validate" =>
               \A event \in def.events : EventClass(event) = "pre_drive"   \* H5
        /\ def.bounded                                               \* H6
        /\ ~def.absolute                                             \* H8

\* H-RC: with a verify hook, every criterion is attested by one.
CriteriaCovered(s) ==
    VerifyHooks(s.hooks) # {} =>
        s.criteria \subseteq UNION {EffectiveDef(h).verify_criteria : h \in VerifyHooks(s.hooks)}

SubHooksOK(s) ==
    LET checklist == s.kind = "checklist"
        readable == (IF s.criteria = None THEN {} ELSE s.criteria) \cup ScratchKeys(s.hooks)
    IN  /\ \A i \in DOMAIN s.hooks : HookRefOK(s.hooks[i], checklist, readable)
        /\ checklist /\ s.criteria # None => CriteriaCovered(s)

HooksOK(doc) ==
    \A i \in DOMAIN doc.pipeline :
        LET m == doc.pipeline[i]
        IN  /\ \A k \in DOMAIN m.hooks : HookRefOK(m.hooks[k], FALSE, {})
            /\ \A k \in DOMAIN m.subs : SubHooksOK(m.subs[k])

=============================================================================
