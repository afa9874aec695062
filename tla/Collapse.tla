------------------------------ MODULE Collapse ------------------------------
(***************************************************************************)
(* The panels of one accordion, opened and closed by clicks on their       *)
(* headers.  A panel gets its Collapse object with the first click on it,  *)
(* and its header tells the object of the accordion.  A panel that the     *)
(* markup opened has no object; when another panel that opens hides it, it *)
(* gets one that knows of no accordion.                                    *)
(***************************************************************************)
EXTENDS Transitions, FiniteSets

CONSTANTS
    Panels,      \* 1..n, in document order
    LoadedOpen   \* the sets of panels that the markup may open

ASSUME CollapseAssumption ==
    /\ IsFiniteSet(Panels) /\ Panels = 1..Cardinality(Panels)
    /\ LoadedOpen \subseteq SUBSET Panels

VARIABLES
    loaded,  \* the panels the markup opened
    look,    \* a panel's classes: collapse, "collapsing", collapse in
    data,    \* its object: none, or with transitioning 0 or 1
    lone     \* the panels whose object has no $parent

collapseVars == <<loaded, look, data, lone>>

Panel(p) == <<"panel", p>>

CollapseTypeOK ==
    /\ loaded \in LoadedOpen
    /\ look \in [Panels -> {"closed", "collapsing", "open"}]
    /\ data \in [Panels -> {"none", "idle", "busy"}]
    /\ lone \subseteq Panels

CollapsePendingOK ==
    PendingTypeOK({Panel(p) : p \in Panels},
                  Handlers(Panels, {"shown", "hidden"}, BOOLEAN))

CollapseInit ==
    /\ loaded \in LoadedOpen
    /\ look = [p \in Panels |-> IF p \in loaded THEN "open" ELSE "closed"]
    /\ data = [p \in Panels |-> "none"]
    /\ lone = {}

Actives == {p \in Panels : look[p] # "closed"}
First == CHOOSE p \in Actives : \A q \in Actives : p <= q

\* actives, as the object of p sees them
Siblings(p) == IF p \in lone THEN {} ELSE Actives

\* A panel that starts to move; arg tells whether its object is attached, so
\* that the flag the end clears is the one the next click reads.
Moves(p, cb, attached) == Handler(p, cb, attached, 1)

\* Forgetting the object: the end will clear a flag nobody reads.
Orphaned(hs) == [i \in DOMAIN hs |-> [hs[i] EXCEPT !.arg = FALSE]]

\* Plugin.call(actives, 'hide')
Hidden(P) == {p \in P : look[p] = "open" /\ data[p] # "busy"}
WithHidden(q, P) == IF q \in Hidden(P)
                    THEN Append(On(Panel(q)), Moves(q, "hidden", TRUE))
                    ELSE On(Panel(q))

\* Variant: the panel opens although another one is still moving.
OpenAnyway(p) == data[p] # "busy" /\ look[p] # "open"
CanShowPanel(p) ==
    /\ data[p] # "busy" /\ look[p] # "open"
    /\ Siblings(p) # {} => data[First] # "busy"

\* show: the other panels are hidden first, which gives an object without an
\* accordion to those that have none.  If the first of them had none, all of
\* them lose their objects.
ShowPanel(p) ==
    LET forget == IF Siblings(p) # {} /\ data[First] = "none" THEN Siblings(p) ELSE {}
        hide == Hidden(Siblings(p))
        attached == p \notin forget \/ data[p] = "none"
    IN  /\ CanShowPanel(p)
        /\ look' = [q \in Panels |-> IF q \in hide \cup {p} THEN "collapsing" ELSE look[q]]
        /\ data' = [q \in Panels |->
              IF q = p THEN IF attached THEN "busy" ELSE "none"
              ELSE IF q \in forget THEN "none"
              ELSE IF q \in hide THEN "busy"
              ELSE IF q \in Siblings(p) /\ data[q] = "none" THEN "idle"
              ELSE data[q]]
        /\ lone' = (lone \cup {q \in Siblings(p) \ {p} : data[q] = "none"}) \ forget
        /\ waiting' = [e \in DOMAIN waiting \cup {Panel(q) : q \in hide \cup {p}} |->
              LET q == e[2]
                  was == WithHidden(q, Siblings(p))
                  hidden == IF q \in forget THEN Orphaned(was) ELSE was
              IN  IF q = p THEN Append(hidden, Moves(p, "shown", attached)) ELSE hidden]

\* Nothing is done, but the panel has its object from now on.
NotShown(p) ==
    /\ ~CanShowPanel(p)
    /\ data' = [data EXCEPT ![p] = IF @ = "none" THEN "idle" ELSE @]
    /\ UNCHANGED <<look, lone, waiting>>

HidePanel(p) ==
    /\ data[p] # "busy" /\ look[p] = "open"
    /\ look' = [look EXCEPT ![p] = "collapsing"]
    /\ data' = [data EXCEPT ![p] = "busy"]
    /\ UNCHANGED lone
    /\ waiting' = With(Panel(p), Moves(p, "hidden", TRUE))

\* A click on a header: new Collapse with toggle, or toggle.
Toggle(p) ==
    /\ Few
    /\ \/ look[p] = "open" /\ HidePanel(p)
       \/ look[p] # "open" /\ (ShowPanel(p) \/ NotShown(p))
    /\ UNCHANGED <<running, loaded>>

\* complete, of show and of hide
Complete(cb, now) ==
    /\ Runs(cb)
    /\ LET h == Head(running) IN
          /\ look' = [look EXCEPT ![h.n] = now]
          /\ data' = IF h.arg THEN [data EXCEPT ![h.n] = "idle"] ELSE data
    /\ UNCHANGED <<waiting, loaded, lone>>

CollapseTimers ==
    \/ (Ends({"panel"}) \/ Tick) /\ UNCHANGED collapseVars
    \/ Complete("shown", "open") \/ Complete("hidden", "closed")

CollapseNext == (\E p \in Panels : Toggle(p)) \/ CollapseTimers

Opening(p) ==
    \E i \in DOMAIN On(Panel(p)) : On(Panel(p))[i].cb = "shown"

(***************************************************************************)
(* At most one panel of an accordion is open or opening, however fast the  *)
(* headers are clicked.  Where the markup opens a panel the code does not  *)
(* keep that: see lone.                                                    *)
(***************************************************************************)
OnePanelOpen ==
    loaded = {} =>
        Cardinality({p \in Panels : look[p] = "open" \/ Opening(p)}) <= 1

(***************************************************************************)
(* A panel never gets stuck: when nothing is pending none is halfway and   *)
(* none is marked as moving, though objects are dropped while they move.   *)
(***************************************************************************)
PanelsSettle ==
    AtRest => \A p \in Panels : look[p] # "collapsing" /\ data[p] # "busy"
=============================================================================
