------------------------------- MODULE Verbs -------------------------------
(***************************************************************************)
(* The mutations of the profile editor, each as the set of documents it    *)
(* can make of one.  A verb whose target does not exist makes none: it     *)
(* returns an error and writes nothing.  Whether a result may be written   *)
(* is the validators' business.                                            *)
(***************************************************************************)
EXTENDS Validator

CONSTANTS
    MacroIds,      \* ids callers give new macros
    SubIds,        \* and new sub-states
    Iterations,    \* values of max_iterations callers set
    HookRefs,      \* references callers attach
    CallerStates   \* macros callers hand to the manager

VerbsAssumption ==
    /\ Iterations \subseteq Nat
    /\ \A m \in CallerStates : IsMacro(m)

ASSUME VerbsAssumption

\* The macros or sub-states an id leads to: the first with that id.
Found(seq) == {i \in DOMAIN seq : \A j \in 1..(i - 1) : seq[j].id # seq[i].id}

\* Every place of a list an element can be inserted at, and every element
\* moved to every place.
Inserted(seq, elem) == {InsertAt(seq, i, elem) : i \in 1..(Len(seq) + 1)}
Removed(seq) == {RemoveAt(seq, i) : i \in Found(seq)}
Moved(seq) ==
    UNION {{InsertAt(RemoveAt(seq, i), to, seq[i]) : to \in DOMAIN seq} : i \in Found(seq)}

\* attach_skill and attach_protocol, which resolve what they attach, and the
\* verbs that detach it.
InjectionEdited(s) ==
    {[s EXCEPT !.skill = name] :
        name \in {None} \cup {x \in LibraryEntries.skill : Resolves("skill", x)}}
    \cup {[s EXCEPT !.protocol = name] :
             name \in {None} \cup {x \in LibraryEntries.protocol : Resolves("protocol", x)}}

\* set_criteria (checklists only), set_verify, set_sub_enabled, and the verbs
\* on its injection.
SubEdited(s) ==
    {[s EXCEPT !.enabled = on] : on \in BOOLEAN}
    \cup {[s EXCEPT !.criteria = c] : c \in IF s.kind = "checklist" THEN SUBSET Keys ELSE {}}
    \cup {[s EXCEPT !.verify = v] : v \in SUBSET Keys}
    \cup InjectionEdited(s)

\* The lists add_sub, remove_sub, move_sub and the verbs on one sub-state
\* make of a macro's.  add_sub scaffolds any kind at any place; the default
\* place is one of them.
SubsEdited(subs) ==
    (UNION {Inserted(subs, ScaffoldSub(id, kind)) : id \in SubIds, kind \in Kinds})
    \cup Removed(subs)
    \cup Moved(subs)
    \cup UNION {{[subs EXCEPT ![k] = s] : s \in SubEdited(subs[k])} : k \in Found(subs)}

\* set_macro_enabled, set_macro_max_iterations, set_macro_loop, and the verbs
\* on its sub-states.
MacroEdited(m) ==
    {[m EXCEPT !.enabled = on] : on \in BOOLEAN}
    \cup {[m EXCEPT !.max_iterations = n] : n \in Iterations}
    \cup {[m EXCEPT !.loop = on] : on \in BOOLEAN}
    \cup {[m EXCEPT !.subs = subs] : subs \in SubsEdited(m.subs)}

PipelineEdited(p) ==
    (UNION {Inserted(p, ScaffoldMacro(id)) : id \in MacroIds})
    \cup Removed(p)
    \cup Moved(p)
    \cup UNION {{[p EXCEPT ![i] = m] : m \in MacroEdited(p[i])} : i \in Found(p)}

\* set_description, set_settings, set_prompt, set_context and the verbs that
\* set a name or a description.
TextEdited(doc) == {[doc EXCEPT !.text = t] : t \in Texts}

\* What the verbs of the editor make of a document, hook verbs aside.
Edited(doc) ==
    TextEdited(doc) \cup {[doc EXCEPT !.pipeline = p] : p \in PipelineEdited(doc.pipeline)}

\* Attach pushes a reference; detach removes one by index.
HooksEdited(hooks) ==
    {Append(hooks, h) : h \in HookRefs} \cup {RemoveAt(hooks, i) : i \in DOMAIN hooks}

MacroHookEdited(m) ==
    {[m EXCEPT !.hooks = hooks] : hooks \in HooksEdited(m.hooks)}
    \cup UNION {{[m EXCEPT !.subs[k].hooks = hooks] : hooks \in HooksEdited(m.subs[k].hooks)} :
                  k \in Found(m.subs)}

HookEdited(doc) ==
    UNION {{[doc EXCEPT !.pipeline[i] = m] : m \in MacroHookEdited(doc.pipeline[i])} :
             i \in Found(doc.pipeline)}

\* What a verb is about to write: a mutation that passed its validators.
Drafts(doc) == {d \in Edited(doc) : Valid(d)}
HookDrafts(doc) == {d \in HookEdited(doc) : Valid(d) /\ HooksOK(d)}

-----------------------------------------------------------------------------
(* The manager's own mutations, which are not validated: a state of the    *)
(* caller's making inserted anywhere, the first with an id removed, or     *)
(* one moved by index.                                                     *)

ManagerEdited(doc) ==
    {[doc EXCEPT !.pipeline = p] :
        p \in (UNION {Inserted(doc.pipeline, m) : m \in CallerStates})
              \cup Removed(doc.pipeline)
              \cup {InsertAt(RemoveAt(doc.pipeline, i), to, doc.pipeline[i]) :
                      i \in DOMAIN doc.pipeline, to \in DOMAIN doc.pipeline}}

=============================================================================
