---------------------------- MODULE ForcedOrder ----------------------------
(***************************************************************************)
(* What the enforcer promises of a session: its steps are taken in order,  *)
(* one at a time, none skipped; the only way back is from a step to its    *)
(* loop target; and a gate is left forward only with the consent of a      *)
(* human, given since the session came to it and good for one passage.     *)
(*                                                                         *)
(* Steps are the enabled sub-states of the pipeline, numbered through.     *)
(***************************************************************************)
EXTENDS Naturals

CONSTANTS
    Steps,   \* number of steps
    Gates,   \* the steps a human must consent to
    Target   \* Target[i], for the steps i that may go back, is where to

VARIABLES
    step,      \* 0: not started; 1..Steps: under way; Steps + 1: completed
    failed,    \* a breaker has ended the session
    consent    \* the human has consented to the gate the session is at

orderVars == <<step, failed, consent>>

UnderWay == step \in 1..Steps /\ ~failed

OrderInit == step = 0 /\ failed = FALSE /\ consent = FALSE

Begin == step = 0 /\ step' = 1 /\ UNCHANGED <<failed, consent>>

Forward ==
    /\ UnderWay
    /\ step \in Gates => consent
    /\ step' = step + 1
    /\ consent' = FALSE
    /\ UNCHANGED failed

Back ==
    /\ UnderWay
    /\ step \in DOMAIN Target
    /\ step' = Target[step]
    /\ UNCHANGED <<failed, consent>>

Consent ==
    /\ step \in Gates /\ ~consent
    /\ consent' = TRUE
    /\ UNCHANGED <<step, failed>>

\* A restart may lose a consent, which is then to be given again; nothing
\* ever makes one up.
Lapse == consent /\ consent' = FALSE /\ UNCHANGED <<step, failed>>

Fail == UnderWay /\ failed' = TRUE /\ UNCHANGED <<step, consent>>

OrderNext == Begin \/ Forward \/ Back \/ Consent \/ Lapse \/ Fail

OrderSpec == OrderInit /\ [][OrderNext]_orderVars

=============================================================================
