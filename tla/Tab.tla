--------------------------------- MODULE Tab ---------------------------------
(***************************************************************************)
(* A row of tabs with fading panes.  The tab itself is switched at once,   *)
(* the pane when the one that leaves has faded out; meanwhile another tab  *)
(* may be clicked.                                                         *)
(***************************************************************************)
EXTENDS Transitions

CONSTANT Tabs  \* 1..n; tab i shows pane i

ASSUME TabAssumption == 1 \in Tabs /\ Tabs \subseteq Nat

VARIABLES
    tab,     \* the tab whose list item is active
    panes,   \* the panes that are active
    leaving  \* $active, the panes that the click being answered found active

Panes == <<"panes", 0>>  \* $active
tabVars == <<tab, panes, leaving>>

TabTypeOK == tab \in Tabs /\ panes \subseteq Tabs /\ leaving \subseteq Tabs

TabPendingOK == PendingTypeOK({Panes}, Handlers({0}, {"next"}, Tabs))

TabInit == tab = 1 /\ panes = {1} /\ leaving = {}

\* Variant: while a pane fades out, a further click gets no handler.
OneFade(t) ==
    IF DOMAIN waiting = {} THEN With(Panes, Handler(0, "next", t, 1)) ELSE waiting
\* activate(target, container, callback).  One statement takes the class in from
\* every pane of $active, so their fades, of one length, end in one frame and no
\* click comes between: their ends are one end here.  Each of them runs next with
\* the same target, which changes nothing after the first.
Fade(t) == With(Panes, Handler(0, "next", t, 1))

\* show: the list item is activated at once, the pane after the fade.
TabShow(t) ==
    /\ Few
    /\ t # tab
    /\ tab' = t
    /\ leaving' = panes
    /\ waiting' = Fade(t)
    /\ UNCHANGED <<running, panes>>

\* next: what was active then is not any more, the target is.
NextPane ==
    /\ Runs("next")
    /\ panes' = (panes \ leaving) \cup {Head(running).arg}
    /\ UNCHANGED <<waiting, tab, leaving>>

TabTimers ==
    \/ (Ends({"panes"}) \/ Tick) /\ UNCHANGED tabVars
    \/ NextPane

TabNext == (\E t \in Tabs : TabShow(t)) \/ TabTimers

(***************************************************************************)
(* Once every fade has ended, the pane of the active tab is shown, in      *)
(* whatever order and however fast the tabs were clicked.  (Panes clicked  *)
(* on the way may be shown beside it: the code does not prevent that.)     *)
(***************************************************************************)
ActiveTabHasItsPane == AtRest => tab \in panes
==============================================================================
