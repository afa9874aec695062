------------------------------ MODULE Carousel ------------------------------
(***************************************************************************)
(* One sliding carousel: the visitor's clicks, keys and mouse, scripts     *)
(* that call it, its interval timer, and the slide under way.              *)
(***************************************************************************)
EXTENDS Transitions, FiniteSets

CONSTANTS
    Count,        \* items: 0..(Count - 1)
    Wraps,        \* options.wrap
    HasInterval,  \* options.interval is not false
    MaxClicks     \* bound: calls that slide or jump

ASSUME CarouselAssumption ==
    /\ Count \in Nat \ {0} /\ MaxClicks \in Nat
    /\ {Wraps, HasInterval} \subseteq BOOLEAN

VARIABLES
    actives,    \* the items that have the class active
    indicator,  \* the indicator that has it
    sliding,
    paused,
    interval,   \* the interval timer is running
    jumps,      \* positions that wait for slid.bs.carousel, in order
    clicks

carouselVars == <<actives, indicator, sliding, paused, interval, jumps, clicks>>

Items == 0..(Count - 1)
Item(i) == <<"item", i>>
SlidTimer == <<"timeout", 0>>  \* setTimeout, which needs no element

CarouselTypeOK ==
    /\ actives \subseteq Items
    /\ indicator \in Items
    /\ {sliding, paused, interval} \subseteq BOOLEAN
    /\ jumps \in Seq(Items)
    /\ clicks \in 0..MaxClicks

CarouselPendingOK ==
    PendingTypeOK({Item(i) : i \in Items} \cup {SlidTimer},
                  Handlers(Items, {"slide", "slid", "to"}, Items))

\* As the page is loaded with data-ride="carousel": it cycles.
CarouselInit ==
    /\ actives = {0} /\ indicator = 0
    /\ sliding = FALSE
    /\ paused = FALSE /\ interval = HasInterval
    /\ jumps = <<>>
    /\ clicks = 0

Active == CHOOSE i \in actives : \A j \in actives : i <= j

\* Variant: the item after the last one is not the first.
NoWrap(type) ==
    IF type = "prev"
    THEN IF Active = 0 /\ ~Wraps THEN Active ELSE (Active - 1) % Count
    ELSE IF Active = Count - 1 /\ ~Wraps THEN Active ELSE Active + 1
\* The next or the previous item, round the corner where options.wrap is on.
getItemForDirection(type) ==
    IF type = "prev"
    THEN IF Active = 0 /\ ~Wraps THEN Active ELSE (Active - 1) % Count
    ELSE IF Active = Count - 1 /\ ~Wraps THEN Active ELSE (Active + 1) % Count

\* pause(e), where e tells whether an event called it.
Pause(e) ==
    /\ paused' = (paused \/ ~e)
    /\ interval' = FALSE

\* Variant: the mouse leaving restarts a carousel that a script paused.
AlwaysRestart(e) ==
    /\ paused' = (paused /\ e)
    /\ interval' = HasInterval
Cycle(e) ==
    /\ paused' = (paused /\ e)
    /\ interval' = (HasInterval /\ ~paused')

\* Variant: a slide restarts the interval whether it was running or not.
SlideRestarts(i) ==
    IF i \in actives
    THEN /\ sliding' = FALSE
         /\ UNCHANGED <<actives, indicator, paused, interval, jumps, waiting>>
    ELSE /\ sliding' = TRUE
         /\ Cycle(FALSE)
         /\ indicator' = i
         /\ waiting' = With(Item(Active), Handler(Active, "slide", i, 1))
         /\ UNCHANGED <<actives, jumps>>
\* slide(type, $items.eq(i)).  isCycling, an interval that runs, is paused and
\* then cycled, which is what cycling it does.
Slide(i) ==
    IF i \in actives
    THEN /\ sliding' = FALSE
         /\ UNCHANGED <<actives, indicator, paused, interval, jumps, waiting>>
    ELSE /\ sliding' = TRUE
         /\ IF interval THEN Cycle(FALSE) ELSE UNCHANGED <<paused, interval>>
         /\ indicator' = i
         /\ waiting' = With(Item(Active), Handler(Active, "slide", i, 1))
         /\ UNCHANGED <<actives, jumps>>

\* Variant: a jump during a slide replaces the one that waits.
LastJumpOnly(i) ==
    \/ /\ sliding
       /\ jumps' = <<i>>
       /\ UNCHANGED <<actives, indicator, sliding, paused, interval, waiting>>
    \/ /\ ~sliding /\ Active = i
       /\ Cycle(FALSE)
       /\ UNCHANGED <<actives, indicator, sliding, jumps, waiting>>
    \/ ~sliding /\ Active # i /\ Slide(i)
\* to(i); a jump during a slide waits for slid, and to the item that is
\* shown it is pause().cycle().
To(i) ==
    \/ /\ sliding
       /\ jumps' = Append(jumps, i)
       /\ UNCHANGED <<actives, indicator, sliding, paused, interval, waiting>>
    \/ /\ ~sliding /\ Active = i
       /\ Cycle(FALSE)
       /\ UNCHANGED <<actives, indicator, sliding, jumps, waiting>>
    \/ ~sliding /\ Active # i /\ Slide(i)

\* Variant: next and prev do not look whether a slide is under way.
SlideOver(type) == Slide(getItemForDirection(type))
\* next, prev
Step(type) == ~sliding /\ Slide(getItemForDirection(type))

keydown == \E type \in {"next", "prev"} : Step(type)

\* An arrow key, a control or an indicator, or a script.
Click ==
    /\ Free /\ clicks < MaxClicks /\ clicks' = clicks + 1
    /\ keydown \/ \E i \in Items : To(i)
    /\ UNCHANGED running

\* Calls by scripts, and the mouse where options.pause is "hover".
PauseCall == Pause(FALSE)
CycleCall == Cycle(FALSE)
MouseEnter == Pause(TRUE)
MouseLeave == Cycle(TRUE)

\* setInterval; five seconds after it was started no slide is under way.
IntervalFires ==
    /\ AtRest /\ interval
    /\ Step("next")
    /\ UNCHANGED <<running, clicks>>

Clocks ==
    /\ Free
    /\ PauseCall \/ CycleCall \/ MouseEnter \/ MouseLeave
    /\ UNCHANGED <<pending, actives, indicator, sliding, jumps, clicks>>

\* The item has slid out: the next one is active, and slid is due.
SlideEnd ==
    /\ Runs("slide")
    /\ LET h == Head(running) IN
          /\ actives' = (actives \cup {h.arg}) \ {h.n}
          /\ waiting' = With(SlidTimer, Handler(0, "slid", h.arg, 0))
    /\ sliding' = FALSE
    /\ UNCHANGED <<indicator, paused, interval, jumps, clicks>>

\* slid.bs.carousel: the jumps that wait for it are made.
Slid ==
    /\ ~Free /\ Head(running).cb = "slid"
    /\ running' = Tail(running) \o
          [k \in DOMAIN jumps |-> Handler(0, "to", jumps[k], 0)]
    /\ jumps' = <<>>
    /\ UNCHANGED <<waiting, actives, indicator, sliding, paused, interval,
                   clicks>>

JumpNow == Runs("to") /\ To(Head(running).arg) /\ UNCHANGED clicks

CarouselTimers ==
    \/ (Ends({"item"}) \/ Tick) /\ UNCHANGED carouselVars
    \/ SlideEnd \/ Slid \/ JumpNow

CarouselNext == Click \/ Clocks \/ IntervalFires \/ CarouselTimers

(***************************************************************************)
(* Exactly one item is shown, and the indicator points at it, or, during a *)
(* slide, at the item that the pending end of that slide will show,        *)
(* whatever is clicked meanwhile.                                          *)
(***************************************************************************)
SlidesTo(i, hs) == \E k \in DOMAIN hs : hs[k].cb = "slide" /\ hs[k].arg = i
OneItemShown ==
    /\ Cardinality(actives) = 1
    /\ ~sliding => actives = {indicator}
    /\ sliding => \E a \in actives :
          SlidesTo(indicator, On(Item(a))) \/ SlidesTo(indicator, running)

(***************************************************************************)
(* A carousel that a script has paused does not start again by itself: the *)
(* mouse leaving it starts no interval, and a slide takes the pause back   *)
(* neither when it starts nor when it ends.                                *)
(***************************************************************************)
PausedStaysPut ==
    [][/\ paused' => ~interval'
       /\ paused /\ ~paused' => UNCHANGED <<actives, sliding, waiting>>
      ]_<<pending, carouselVars>>

(***************************************************************************)
(* A jump that was asked for during a slide is made: the position gets     *)
(* shown and no slide is under way, even when several wait for the same    *)
(* slide.                                                                  *)
(***************************************************************************)
EveryJumpIsMade ==
    \A i \in Items :
        (\E k \in DOMAIN jumps : jumps[k] = i) ~> (i \in actives /\ ~sliding)
=============================================================================
