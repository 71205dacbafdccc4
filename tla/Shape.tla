------------------------------- MODULE Shape -------------------------------
(***************************************************************************)
(* The pipeline of a profile, as everything that steps over one sees it:   *)
(* macro-states, each a list of sub-states ending in a checklist.          *)
(***************************************************************************)
EXTENDS Naturals, Sequences, FiniteSets

CONSTANT Keys   \* evidence keys a submission may carry

Kinds == {"inject", "execute", "review", "checklist", "human_approval"}

SubState == [kind : Kinds, enabled : BOOLEAN]

Macro == [subs : Seq(SubState), criteria : SUBSET Keys,
          max_iterations : Nat, loop : BOOLEAN]

(***************************************************************************)
(* What validate_profile guarantees of the pipeline p of every profile the *)
(* engine accepts: rules 1, 3, 4, 9 and 10 of the validator.  Module       *)
(* Validator has the rules themselves; that they imply this is checked.    *)
(***************************************************************************)
Runnable(p) ==
    /\ p \in Seq(Macro)
    /\ p # <<>>
    /\ \A m \in DOMAIN p :
         LET subs == p[m].subs  last == Len(subs)
         IN  /\ subs # <<>>
             /\ \A k \in DOMAIN subs : subs[k].kind = "checklist" <=> k = last
             /\ subs[last].enabled
             /\ p[m].criteria # {}
             /\ p[m].loop => /\ m # Len(p)
                             /\ \E k \in DOMAIN subs :
                                  subs[k].kind = "execute" /\ subs[k].enabled

=============================================================================
