------------------------------ MODULE MCEditor ------------------------------
(* A small profiles directory, prompt library and set of callers.          *)
EXTENDS Editor

CONSTANTS e1, e2

\* work loops from its checklist to its execute step; ship ends the pipeline.
Work == [ScaffoldMacro("work") EXCEPT
            !.loop = TRUE,
            !.subs = <<ScaffoldSub("do", "execute")>> \o @]

Attests(keys) == [version |-> 1, kind |-> "mutate", events |-> {"verify"},
                  verify_criteria |-> keys, bounded |-> TRUE, absolute |-> FALSE]

Advises == [Attests({}) EXCEPT !.events = {"on_reject"}]

Inline(def, candidates) == [id |-> None, version |-> None, candidates |-> candidates, inline |-> def]
ById(id, version) == [id |-> id, version |-> version, candidates |-> {}, inline |-> None]

\* A hook attesting the scaffold's criterion by library id, one attesting
\* another key too, one that only carries that key as a candidate, and a
\* stale version pin.
SmallHookLibrary == [h \in {"h"} |-> Attests({"k1"})]
SmallHookRefs == {ById("h", 1), ById("h", 2),
                  Inline(Attests({"k1", "k2"}), {}),
                  Inline(Advises, {"k2"})}

SmallEntries == [skill |-> {"tdd"}, protocol |-> {}]

\* A macro handed to the manager that no validator would let pass.
SmallCallerStates == {[ScaffoldMacro("work") EXCEPT !.subs = <<>>]}

\* Profiles the manager is asked to save: one that says it is protected, one
\* whose name leads out of the directory.
SmallCallerProfiles == {[ScaffoldProfile("a", "t0") EXCEPT !.protected = TRUE],
                        ScaffoldProfile("../x", "t0")}

Profile2(name, protected) ==
    [name |-> name, protected |-> protected, text |-> "t0", contract |-> "usable",
     pipeline |-> <<Work, [ScaffoldMacro("ship") EXCEPT
        !.subs[1].hooks = <<Inline(Attests({"k1", "k2"}), {"k2"})>>]>>]

\* What no later edit depends on: iterations, hooks of a macro, skills.
Plain(m) ==
    /\ m.max_iterations # 0 /\ m.hooks = <<>>
    /\ \A k \in DOMAIN m.subs : m.subs[k].skill = None

\* One profile to edit, as it was made or with one edit behind it that later
\* edits may depend on, one protected, one name free.
MadeOnce ==
    LET p == Profile2("a", FALSE)
    IN  {d \in {p} \cup Drafts(p) \cup HookDrafts(p) :
            \A i \in DOMAIN d.pipeline : Plain(d.pipeline[i])}

SmallDisks == {[n \in Names |-> CASE n = "a" -> p
                                  [] n = "b" -> Profile2("b", TRUE)
                                  [] OTHER -> None] : p \in MadeOnce}

Symmetry == Permutations(Editors)

=============================================================================
