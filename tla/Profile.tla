------------------------------ MODULE Profile ------------------------------
(***************************************************************************)
(* The profile a session is driven through: the pipeline of macro-states,  *)
(* each a list of sub-states ending in a checklist, and the navigation     *)
(* helpers every component computes positions with.                        *)
(*                                                                         *)
(* Macros and sub-states are named by their index.  Ids are unique in      *)
(* their list (validator rule 2), so an index is as good a name; equal     *)
(* indices in two macros stand for sub-states that share an id, which the  *)
(* validator allows.  Pipeline is the pipeline the engine steps over: the  *)
(* enabled macros only (Profile::with_enabled_macros_only).                *)
(***************************************************************************)
EXTENDS Shape

CONSTANT Pipeline   \* sequence of macros

Macros == DOMAIN Pipeline
Subs(m) == DOMAIN Pipeline[m].subs
Trailing(m) == Len(Pipeline[m].subs)

Kind(m, k) == Pipeline[m].subs[k].kind
EnabledSubs(m) == {k \in Subs(m) : Pipeline[m].subs[k].enabled}
ExecuteSubs(m) == {k \in EnabledSubs(m) : Kind(m, k) = "execute"}

Positions == [macro : Macros, sub : Nat]

\* The engine steps over validated profiles only.
ASSUME ProfileAssumption == Runnable(Pipeline)

-----------------------------------------------------------------------------
(* Navigation.                                                             *)

Least(S) == CHOOSE i \in S : \A j \in S : i <= j

FirstEnabled(m) == Least(EnabledSubs(m))

FirstExecute(m) == Least(ExecuteSubs(m))

\* Mutant: straight to the checklist.
NextEnabledMutant(m, k) == Trailing(m)

\* The sub-state a session moves to from k; the trailing checklist when
\* nothing enabled is left in between.
NextEnabled(m, k) ==
    LET later == {j \in EnabledSubs(m) : j > k}
    IN  IF later # {} THEN Least(later) ELSE Trailing(m)

IsFinal(m) == m = Len(Pipeline)

-----------------------------------------------------------------------------
(* Evidence: what each key of a submission holds.  A blank value (null,    *)
(* whitespace, an empty array or object) is carried but not present.       *)

Evidence == [Keys -> {"absent", "blank", "present"}]

MissingCriteria(m, evidence) ==
    {c \in Pipeline[m].criteria : evidence[c] # "present"}

CarriedKeys(evidence) == {c \in Keys : evidence[c] # "absent"}

=============================================================================
