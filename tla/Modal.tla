------------------------------- MODULE Modal -------------------------------
(***************************************************************************)
(* One fading modal dialog and the document body it covers.  Showing waits *)
(* for the backdrop to fade in before the dialog is displayed; hiding      *)
(* waits for the dialog, then for the backdrop.  A call may come while     *)
(* either is under way.                                                    *)
(***************************************************************************)
EXTENDS Transitions, FiniteSets

CONSTANTS
    Overflows,  \* the page is taller than the window: it has a scrollbar
    MaxShows    \* bound: how often the dialog is shown

ASSUME ModalAssumption == Overflows \in BOOLEAN /\ MaxShows \in Nat

VARIABLES
    isShown,
    displayed,    \* the element is displayed
    inClass,      \* and has the class in
    backdrop,     \* this.$backdrop, 0 for null
    backdrops,    \* the backdrop elements in the document
    modalOpen,    \* the body has the class modal-open
    bodyPad,      \* right padding of the body, in scrollbar widths
    originalPad,  \* this.originalBodyPad
    listeners,    \* handlers that are on while the dialog is shown
    overlap,      \* history: shown again while it was still being hidden
    shows

modalVars == <<isShown, displayed, inClass, backdrop, backdrops, modalOpen,
               bodyPad, originalPad, listeners, overlap, shows>>

\* Variant: the backdrop takes longer than the dialog.
SlowBackdrop == 3
BACKDROP_TRANSITION_DURATION == 1
TRANSITION_DURATION == 2

Element == <<"element", 0>>  \* $element
Dialog == <<"dialog", 0>>    \* $dialog
Backdrop(b) == <<"backdrop", b>>

Listeners == {"escape", "resize", "dismiss", "focusin"}

ModalTypeOK ==
    /\ {isShown, displayed, inClass, modalOpen, overlap} \subseteq BOOLEAN
    /\ backdrop \in {0} \cup backdrops
    /\ backdrops \subseteq Nat
    /\ {bodyPad, originalPad} \subseteq Nat
    /\ listeners \subseteq Listeners
    /\ shows \in 0..MaxShows

ModalPendingOK ==
    PendingTypeOK({Element, Dialog} \cup {"backdrop"} \X Nat,
                  Handlers({0}, {"display", "shown", "hideModal", "removeBackdrop", "reset"},
                           {0}))

ModalInit ==
    /\ isShown = FALSE /\ displayed = FALSE /\ inClass = FALSE
    /\ backdrop = 0 /\ backdrops = {}
    /\ modalOpen = FALSE
    /\ bodyPad = 0 /\ originalPad = 0
    /\ listeners = {}
    /\ overlap = FALSE
    /\ shows = 0

\* A new backdrop replaces the one this.$backdrop holds, which stays in the
\* document; cb runs when the new one has faded in.
AddBackdrop(cb) ==
    LET b == CHOOSE n \in 1..(Cardinality(backdrops) + 1) : n \notin backdrops
    IN  /\ backdrop' = b
        /\ backdrops' = backdrops \cup {b}
        /\ waiting' = With(Backdrop(b), Handler(0, cb, 0, BACKDROP_TRANSITION_DURATION))

\* checkScrollbar, setScrollbar: a body with modal-open has no scrollbar.
SetScrollbar ==
    /\ originalPad' = bodyPad
    /\ bodyPad' = IF Overflows /\ ~modalOpen THEN bodyPad + 1 ELSE bodyPad

BeingHidden ==
    \E e \in DOMAIN waiting : \E i \in DOMAIN waiting[e] :
        waiting[e][i].cb \in {"hideModal", "removeBackdrop"}

ModalShow ==
    /\ Free /\ ~isShown /\ shows < MaxShows
    /\ isShown' = TRUE
    /\ SetScrollbar
    /\ modalOpen' = TRUE
    /\ listeners' = listeners \cup {"escape", "resize", "dismiss"}
    /\ AddBackdrop("display")
    /\ overlap' = (overlap \/ BeingHidden)
    /\ shows' = shows + 1
    /\ UNCHANGED <<running, displayed, inClass>>

\* The backdrop is in: the dialog is displayed and slides in.
Display ==
    /\ Runs("display")
    /\ displayed' = TRUE /\ inClass' = TRUE
    /\ listeners' = listeners \cup {"focusin"}
    /\ waiting' = With(Dialog, Handler(0, "shown", 0, TRANSITION_DURATION))
    /\ UNCHANGED <<isShown, backdrop, backdrops, modalOpen, bodyPad,
                   originalPad, overlap, shows>>

\* The page is told; nothing else changes.
Shown == Runs("shown") /\ UNCHANGED <<waiting, modalVars>>

\* Called by a script, Escape, a dismiss button or a click on the backdrop.
ModalHide ==
    /\ Free /\ isShown
    /\ isShown' = FALSE
    /\ inClass' = FALSE
    /\ listeners' = {}
    /\ waiting' = With(Element, Handler(0, "hideModal", 0, TRANSITION_DURATION))
    /\ UNCHANGED <<running, displayed, backdrop, backdrops, modalOpen, bodyPad,
                   originalPad, overlap, shows>>

ModalToggle == ModalShow \/ ModalHide

ResetBody == modalOpen' = FALSE /\ bodyPad' = originalPad

HideModal ==
    /\ Runs("hideModal")
    /\ displayed' = FALSE
    /\ \/ /\ isShown
          /\ AddBackdrop("reset")
          /\ UNCHANGED <<modalOpen, bodyPad>>
       \/ /\ ~isShown /\ backdrop # 0
          /\ waiting' = With(Backdrop(backdrop), Handler(0, "removeBackdrop", 0,
                                                        BACKDROP_TRANSITION_DURATION))
          /\ UNCHANGED <<backdrop, backdrops, modalOpen, bodyPad>>
       \/ /\ ~isShown /\ backdrop = 0
          /\ ResetBody
          /\ UNCHANGED <<waiting, backdrop, backdrops>>
    /\ UNCHANGED <<isShown, inClass, originalPad, listeners, overlap, shows>>

\* Removes whatever this.$backdrop is by now, with its handlers.
RemoveBackdrop ==
    /\ Runs("removeBackdrop")
    /\ backdrops' = backdrops \ {backdrop}
    /\ waiting' = Without(Backdrop(backdrop))
    /\ backdrop' = 0
    /\ ResetBody
    /\ UNCHANGED <<isShown, displayed, inClass, originalPad, listeners,
                   overlap, shows>>

\* The body is reset under a dialog that was shown meanwhile.
Reset ==
    /\ Runs("reset")
    /\ ResetBody
    /\ UNCHANGED <<waiting, isShown, displayed, inClass, backdrop, backdrops,
                   originalPad, listeners, overlap, shows>>

\* An element that is not displayed has no transition to end.
ModalRendered == {"backdrop"} \cup IF displayed THEN {"element", "dialog"}
                                                ELSE {}

ModalTimers ==
    \/ (Ends(ModalRendered) \/ Tick) /\ UNCHANGED modalVars
    \/ Display \/ Shown \/ HideModal \/ RemoveBackdrop \/ Reset

ModalNext == ModalToggle \/ ModalTimers

(***************************************************************************)
(* When nothing is pending, the dialog, its backdrop, the body and the     *)
(* listeners agree with the last call, however early the hide came after   *)
(* the show; the one thing left out is a dialog shown again before it was  *)
(* hidden, which the code does not put right.  (A hide that comes before   *)
(* the dialog is displayed leaves its focusin handler behind.)             *)
(***************************************************************************)
ModalSettles ==
    AtRest /\ ~overlap =>
        IF isShown
        THEN /\ displayed /\ inClass /\ modalOpen
             /\ backdrops = {backdrop}
             /\ listeners = Listeners
        ELSE /\ ~displayed /\ ~modalOpen
             /\ backdrops = {}
             /\ bodyPad = 0
             /\ listeners \subseteq {"focusin"}
============================================================================
