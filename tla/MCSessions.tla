----------------------------- MODULE MCSessions -----------------------------
(***************************************************************************)
(* Master sessions, and the step-up of a session with the Security pane.   *)
(* The two have no variable in common; a behaviour is one of the first or  *)
(* one of the second.                                                      *)
(***************************************************************************)
EXTENDS SsoSessions, StepUp

VARIABLE part

Init ==
    /\ part \in {"sessions", "stepup"}
    /\ SessionInit
    /\ StepUpInit
    /\ part = "sessions" =>
         /\ totpOf = [a \in Authenticators |-> None]
         /\ passkeyOf = [p \in Passkeys |-> None]
         /\ \A u \in Users : stamp[u].method = "password"

Next ==
    /\ UNCHANGED part
    /\ \/ part = "sessions" /\ SessionNext /\ UNCHANGED stepUpVars
       \/ part = "stepup" /\ StepUpNext /\ UNCHANGED sessionVars

vars == <<part, sessionVars, stepUpVars>>

Spec == Init /\ [][Next]_vars /\ SessionFairness
=============================================================================
