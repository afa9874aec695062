------------------------------ MODULE WebPage ------------------------------
(***************************************************************************)
(* The widgets of bootstrap.js on the web pages.  They share the page's    *)
(* event loop (waiting and running) and no other state, so a behaviour     *)
(* exercises one of them.  No page script cancels a widget's events.       *)
(***************************************************************************)
EXTENDS Modal, Carousel, Collapse, Tooltip, Tab, Alert

CONSTANT Pages  \* the widgets exercised

VARIABLE page   \* the one this behaviour exercises

allVars == <<page, pending, modalVars, carouselVars, collapseVars,
             tooltipVars, tabVars, alertVars>>

TypeOK ==
    /\ page \in Pages
    /\ ModalTypeOK /\ CarouselTypeOK /\ CollapseTypeOK
    /\ TooltipTypeOK /\ TabTypeOK /\ AlertTypeOK
    /\ page = "modal" => ModalPendingOK
    /\ page = "carousel" => CarouselPendingOK
    /\ page = "accordion" => CollapsePendingOK
    /\ page = "tooltip" => TooltipPendingOK
    /\ page = "tabs" => TabPendingOK
    /\ page = "alert" => AlertPendingOK

Init ==
    /\ page \in Pages
    /\ TransitionsInit
    /\ ModalInit /\ CarouselInit /\ CollapseInit
    /\ TooltipInit /\ TabInit /\ AlertInit
    \* The options of a widget that is not exercised do not matter.
    /\ page # "accordion" => loaded = {}
    /\ page # "tooltip" => ~delay

Only(name, others) == page = name /\ UNCHANGED <<page, others>>

Next ==
    \/ /\ Only("modal", <<carouselVars, collapseVars, tooltipVars,
                          tabVars, alertVars>>)
       /\ ModalNext
    \/ /\ Only("carousel", <<modalVars, collapseVars, tooltipVars,
                             tabVars, alertVars>>)
       /\ CarouselNext
    \/ /\ Only("accordion", <<modalVars, carouselVars, tooltipVars,
                              tabVars, alertVars>>)
       /\ CollapseNext
    \/ /\ Only("tooltip", <<modalVars, carouselVars, collapseVars,
                            tabVars, alertVars>>)
       /\ TooltipNext
    \/ /\ Only("tabs", <<modalVars, carouselVars, collapseVars,
                         tooltipVars, alertVars>>)
       /\ TabNext
    \/ /\ Only("alert", <<modalVars, carouselVars, collapseVars,
                          tooltipVars, tabVars>>)
       /\ AlertNext

\* The browser runs the handlers and fires the timers that are due.
CarouselSteps ==
    /\ Only("carousel", <<modalVars, collapseVars, tooltipVars, tabVars,
                          alertVars>>)
    /\ CarouselTimers

Spec == Init /\ [][Next]_allVars /\ WF_allVars(CarouselSteps)
============================================================================
