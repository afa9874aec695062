------------------------------ MODULE Tooltip ------------------------------
(***************************************************************************)
(* The fading tooltip of one element: it is wanted while the mouse is over *)
(* the element or the element has the focus (or was clicked); showing and  *)
(* hiding may each wait for a delay, and then take a transition.           *)
(***************************************************************************)
EXTENDS Transitions

CONSTANTS
    Triggers,  \* options.trigger, of "hover", "focus" and "click"
    Delays     \* whether options.delay is set: the values it may have

ASSUME TooltipAssumption ==
    /\ Triggers \subseteq {"hover", "focus", "click"}
    /\ Delays \subseteq BOOLEAN

VARIABLES
    delay,       \* options.delay
    enabled,
    inState,     \* the triggers that are on
    hoverState,  \* "in", "out" or "none"
    timeout,     \* what the delay timer will do: "show", "hide" or "none"
    tip,         \* "none" before the first show; "detached" or "attached"
    tipIn,       \* the tip has the class in
    destroyed

Tip == <<"tip", 0>>
tooltipVars ==
    <<delay, enabled, inState, hoverState, timeout, tip, tipIn, destroyed>>

TooltipTypeOK ==
    /\ delay \in Delays
    /\ {enabled, tipIn, destroyed} \subseteq BOOLEAN
    /\ inState \subseteq Triggers
    /\ hoverState \in {"in", "out", "none"}
    /\ timeout \in {"show", "hide", "none"}
    /\ tip \in {"none", "detached", "attached"}

TooltipPendingOK ==
    PendingTypeOK({Tip}, Handlers({0}, {"shown", "hidden", "destroy"}, {0}))

TooltipInit ==
    /\ delay \in Delays
    /\ enabled = TRUE
    /\ inState = {}
    /\ hoverState = "none" /\ timeout = "none"
    /\ tip = "none" /\ tipIn = FALSE
    /\ destroyed = FALSE

\* show: the tip is put into the document at once and fades in.
ShowTip ==
    IF enabled
    THEN /\ tip' = "attached" /\ tipIn' = TRUE
         /\ waiting' = With(Tip, Handler(0, "shown", 0, 1))
    ELSE UNCHANGED <<tip, tipIn, waiting>>

\* hide(callback): detaching waits for the fade; a tip never shown has none.
HideTip(cb) ==
    /\ tipIn' = FALSE
    /\ hoverState' = "none"
    /\ waiting' = IF tip = "none" THEN waiting ELSE With(Tip, Handler(0, cb, 0, 1))
    /\ UNCHANGED tip

\* enter(self), the trigger noted already
Enter ==
    /\ hoverState' = "in"
    /\ IF tipIn \/ hoverState = "in"
       THEN UNCHANGED <<timeout, tip, tipIn, waiting>>
       ELSE IF delay
       THEN timeout' = "show" /\ UNCHANGED <<tip, tipIn, waiting>>
       ELSE timeout' = "none" /\ ShowTip

\* Variant: a tip whose transition or delay is under way is not hidden.
LeaveShownOnly(on) ==
    IF on # {} \/ hoverState = "in"
    THEN UNCHANGED <<hoverState, timeout, tip, tipIn, waiting>>
    ELSE /\ IF delay
            THEN /\ timeout' = "hide" /\ hoverState' = "out"
                 /\ UNCHANGED <<tip, tipIn, waiting>>
            ELSE timeout' = "none" /\ HideTip("hidden")
\* leave(self), with the triggers that are still on
Leave(on) ==
    IF on # {}
    THEN UNCHANGED <<hoverState, timeout, tip, tipIn, waiting>>
    ELSE /\ IF delay
            THEN /\ timeout' = "hide" /\ hoverState' = "out"
                 /\ UNCHANGED <<tip, tipIn, waiting>>
            ELSE timeout' = "none" /\ HideTip("hidden")

Event == Few /\ ~destroyed /\ UNCHANGED running
options == <<delay, enabled, destroyed>>

\* mouseenter, focusin
EnterEvent(t) ==
    /\ Event /\ t # "click"
    /\ inState' = inState \cup {t}
    /\ Enter
    /\ UNCHANGED options

\* mouseleave, focusout
LeaveEvent(t) ==
    /\ Event /\ t # "click"
    /\ inState' = inState \ {t}
    /\ Leave(inState')
    /\ UNCHANGED options

\* toggle(e)
ClickEvent ==
    /\ Event /\ "click" \in Triggers
    /\ inState' = IF "click" \in inState THEN inState \ {"click"}
                                         ELSE inState \cup {"click"}
    /\ IF inState' # {} THEN Enter ELSE Leave(inState')
    /\ UNCHANGED options

\* Scripts: hide, enable and disable, destroy.
HideCall ==
    /\ Event /\ HideTip("hidden") /\ UNCHANGED <<options, inState, timeout>>

ToggleEnabled ==
    /\ Event /\ enabled' = ~enabled
    /\ UNCHANGED <<waiting, delay, inState, hoverState, timeout, tip, tipIn,
                   destroyed>>

Destroy ==
    /\ Event
    /\ timeout' = "none"
    /\ HideTip("destroy")
    /\ destroyed' = (tip = "none")
    /\ UNCHANGED <<delay, enabled, inState>>

\* The delay is over; by then $element may be gone and the call fails.
Timeout ==
    /\ Free /\ timeout # "none"
    /\ timeout' = "none"
    /\ \/ /\ timeout = "show" /\ hoverState = "in" /\ ~destroyed
          /\ ShowTip /\ UNCHANGED hoverState
       \/ /\ timeout = "hide" /\ hoverState = "out" /\ ~destroyed
          /\ HideTip("hidden")
       \/ /\ \/ destroyed
             \/ timeout = "show" /\ hoverState # "in"
             \/ timeout = "hide" /\ hoverState # "out"
          /\ UNCHANGED <<waiting, hoverState, tip, tipIn>>
    /\ UNCHANGED <<running, options, inState>>

\* complete of show; without $element it fails, and the handlers after it in
\* the same dispatch are not run.
ShownDone ==
    /\ ~Free /\ Head(running).cb = "shown"
    /\ running' = IF destroyed THEN <<>> ELSE Tail(running)
    /\ IF hoverState = "out" /\ ~destroyed /\ inState = {}
       THEN Leave(inState)
       ELSE /\ hoverState' = IF destroyed THEN hoverState ELSE "none"
            /\ UNCHANGED <<timeout, tip, tipIn, waiting>>
    /\ UNCHANGED <<options, inState>>

\* complete of hide
HiddenDone ==
    /\ Runs("hidden")
    /\ tip' = IF hoverState # "in" THEN "detached" ELSE tip
    /\ UNCHANGED <<waiting, options, inState, hoverState, timeout, tipIn>>

\* complete of hide, then destroy's callback, which fails a second time.
DestroyDone ==
    /\ ~Free /\ Head(running).cb = "destroy"
    /\ running' = IF destroyed THEN <<>> ELSE Tail(running)
    /\ tip' = "detached"
    /\ destroyed' = TRUE
    /\ UNCHANGED <<waiting, delay, enabled, inState, hoverState, timeout, tipIn>>

TooltipTimers ==
    \/ (Ends(IF tip = "attached" THEN {"tip"} ELSE {}) \/ Tick)
       /\ UNCHANGED tooltipVars
    \/ ShownDone \/ HiddenDone \/ DestroyDone

TooltipNext ==
    \/ \E t \in Triggers : EnterEvent(t) \/ LeaveEvent(t)
    \/ ClickEvent \/ HideCall \/ ToggleEnabled \/ Destroy
    \/ Timeout
    \/ TooltipTimers

(***************************************************************************)
(* No tip stays behind: when no timer and no transition is pending, a tip  *)
(* in the document belongs to an element that is there and wants it.       *)
(***************************************************************************)
NoTipLeftBehind ==
    AtRest /\ timeout = "none" /\ tip = "attached" =>
        ~destroyed /\ inState # {}
============================================================================
