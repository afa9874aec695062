-------------------------------- MODULE Alert --------------------------------
(***************************************************************************)
(* A fading alert with a close button.  Until it has faded out it can be   *)
(* closed again, and each click waits for the end on its own.              *)
(***************************************************************************)
EXTENDS Transitions

VARIABLES
    attached,   \* the alert is in the document
    listening,  \* the page's closed.bs.alert handler is on it
    told        \* how often that handler was called

AlertElement == <<"alert", 0>>
alertVars == <<attached, listening, told>>

AlertTypeOK == {attached, listening} \subseteq BOOLEAN /\ told \in Nat

AlertPendingOK == PendingTypeOK({AlertElement}, Handlers({0}, {"removeElement"}, {0}))

AlertInit == attached = TRUE /\ listening = TRUE /\ told = 0

Close ==
    /\ Few /\ attached
    /\ waiting' = With(AlertElement, Handler(0, "removeElement", 0, 1))
    /\ UNCHANGED <<running, alertVars>>

\* Variant: the alert is only detached, its handlers stay.
DetachElement ==
    /\ Runs("removeElement")
    /\ attached' = FALSE
    /\ told' = told + (IF listening THEN 1 ELSE 0)
    /\ UNCHANGED <<waiting, listening>>
\* detach, tell the page, remove the element's handlers
RemoveElement ==
    /\ Runs("removeElement")
    /\ attached' = FALSE
    /\ told' = told + (IF listening THEN 1 ELSE 0)
    /\ listening' = FALSE
    /\ waiting' = Without(AlertElement)

AlertTimers ==
    \/ (Ends({"alert"}) \/ Tick) /\ UNCHANGED alertVars
    \/ RemoveElement

AlertNext == Close \/ AlertTimers

(***************************************************************************)
(* The page is told once that an alert was closed, however often its close *)
(* button is clicked while it fades; and it is told only of one that left. *)
(***************************************************************************)
ToldOnceClosed == told <= 1 /\ (told = 1 => ~attached)
==============================================================================
