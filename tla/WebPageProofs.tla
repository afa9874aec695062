---------------------------- MODULE WebPageProofs ----------------------------
(***************************************************************************)
(* Theorems about the widgets of the web pages, for every number of items, *)
(* panels and tabs and every number of clicks.                             *)
(***************************************************************************)
EXTENDS WebPage, FiniteSetTheorems, WellFoundedInduction, TLAPS

-----------------------------------------------------------------------------
(***************************************************************************)
(* Handlers that wait.                                                     *)
(***************************************************************************)
LEMMA OnWith ==
    ASSUME NEW e, NEW h, waiting' = With(e, h)
    PROVE  /\ DOMAIN waiting' = DOMAIN waiting \cup {e}
           /\ \A d : On(d)' = IF d = e THEN Append(On(e), h) ELSE On(d)
BY DEF With, On

LEMMA OnWithout ==
    ASSUME NEW e, waiting' = Without(e)
    PROVE  /\ DOMAIN waiting' = DOMAIN waiting \ {e}
           /\ \A d : On(d)' = IF d = e THEN <<>> ELSE On(d)
BY DEF Without, On

\* The end of a transition moves one element's handlers to the dispatcher.
LEMMA OnEnds ==
    ASSUME NEW STATE rendered, Ends(rendered)
    PROVE  /\ running = <<>>
           /\ \E e : /\ e \in DOMAIN waiting
                     /\ running' = On(e)
                     /\ DOMAIN waiting' = DOMAIN waiting \ {e}
                     /\ \A d : On(d)' = IF d = e THEN <<>> ELSE On(d)
<1>1. PICK e \in DOMAIN waiting : EndOf(e)
  BY DEF Ends
<1>2. /\ DOMAIN waiting' = DOMAIN waiting \ {e}
      /\ \A d : On(d)' = IF d = e THEN <<>> ELSE On(d)
  BY <1>1, OnWithout DEF EndOf
<1>3. running' = On(e)
  BY <1>1 DEF EndOf, On
<1>. QED BY <1>2, <1>3 DEF Ends, Free

\* What a tick leaves of a handler: all but the time it has left.
Same(g, h) == g.n = h.n /\ g.cb = h.cb /\ g.arg = h.arg

LEMMA OnTick ==
    ASSUME NEW E, NEW ns, NEW cbs, NEW args,
           PendingTypeOK(E, Handlers(ns, cbs, args)), Tick
    PROVE  /\ running = <<>> /\ running' = <<>>
           /\ DOMAIN waiting' = DOMAIN waiting
           /\ \A d : /\ On(d) \in Seq(Handlers(ns, cbs, args))
                     /\ On(d)' \in Seq(Handlers(ns, cbs, args))
                     /\ Len(On(d)') = Len(On(d))
                     /\ \A i \in 1..Len(On(d)) :
                            /\ Same(On(d)[i], On(d)'[i])
                            /\ On(d)'[i].left = On(d)[i].left - 1
<1>. DEFINE H == Handlers(ns, cbs, args)
<1>1. DOMAIN waiting' = DOMAIN waiting /\ running = <<>> /\ running' = <<>>
  BY DEF Tick, Free
<1>2. ASSUME NEW d \in DOMAIN waiting
      PROVE  /\ waiting'[d] \in Seq(H) /\ Len(waiting'[d]) = Len(waiting[d])
             /\ \A i \in 1..Len(waiting[d]) :
                    /\ Same(waiting[d][i], waiting'[d][i])
                    /\ waiting'[d][i].left = waiting[d][i].left - 1
  <2>1. waiting[d] \in Seq(H)
    BY DEF PendingTypeOK
  <2>2. waiting'[d] = [i \in DOMAIN waiting[d] |->
                          [waiting[d][i] EXCEPT !.left = waiting[d][i].left - 1]]
    BY DEF Tick
  <2>3. ASSUME NEW i \in 1..Len(waiting[d])
        PROVE  /\ waiting'[d][i] \in H /\ Same(waiting[d][i], waiting'[d][i])
               /\ waiting'[d][i].left = waiting[d][i].left - 1
    <3>1. waiting[d][i] \in H /\ waiting[d][i].left > 0
      BY <2>1 DEF Tick
    <3>2. waiting'[d][i] = [waiting[d][i] EXCEPT !.left = waiting[d][i].left - 1]
      BY <2>1, <2>2
    <3>. QED BY <3>1, <3>2 DEF Handlers, Same
  <2>4. waiting'[d] \in [1..Len(waiting[d]) -> H]
    <3>. HIDE DEF H
    <3>1. DOMAIN waiting[d] = 1..Len(waiting[d])
      BY <2>1
    <3>2. waiting'[d] = [i \in 1..Len(waiting[d]) |-> waiting'[d][i]]
      BY <2>2, <3>1
    <3>. QED BY <2>3, <3>2
  <2>5. waiting'[d] \in Seq(H) /\ Len(waiting'[d]) = Len(waiting[d])
    BY <2>1, <2>4
  <2>. QED BY <2>3, <2>5
<1>3. <<>> \in Seq(H) /\ Len(<<>>) = 0
  OBVIOUS
<1>. QED BY <1>1, <1>2, <1>3 DEF On, PendingTypeOK

(***************************************************************************)
(* Types of handlers.                                                      *)
(***************************************************************************)
LEMMA OnType ==
    ASSUME NEW E, NEW H, PendingTypeOK(E, H), NEW e
    PROVE  On(e) \in Seq(H) /\ (On(e) # <<>> <=> e \in DOMAIN waiting)
BY DEF PendingTypeOK, On

LEMMA PendingWith ==
    ASSUME NEW E, NEW H, PendingTypeOK(E, H), NEW e \in E, NEW h \in H,
           waiting' = With(e, h), running' \in Seq(H)
    PROVE  PendingTypeOK(E, H)'
<1>1. On(e) \in Seq(H)
  BY OnType
<1>2. Append(On(e), h) \in Seq(H) \ {<<>>}
  BY <1>1
<1>. QED BY <1>2 DEF PendingTypeOK, With

LEMMA PendingWithout ==
    ASSUME NEW E, NEW H, PendingTypeOK(E, H), NEW e,
           waiting' = Without(e), running' \in Seq(H)
    PROVE  PendingTypeOK(E, H)'
BY DEF PendingTypeOK, Without

LEMMA PendingEnds ==
    ASSUME NEW E, NEW H, PendingTypeOK(E, H), NEW STATE rendered, Ends(rendered)
    PROVE  PendingTypeOK(E, H)'
BY PendingWithout DEF Ends, EndOf, PendingTypeOK

LEMMA PendingTick ==
    ASSUME NEW E, NEW ns, NEW cbs, NEW args,
           PendingTypeOK(E, Handlers(ns, cbs, args)), Tick
    PROVE  PendingTypeOK(E, Handlers(ns, cbs, args))'
<1>1. \A d \in DOMAIN waiting : On(d) = waiting[d]
  BY DEF On
<1>2. \A d \in DOMAIN waiting' : waiting'[d] = On(d)'
  BY DEF On
<1>3. ASSUME NEW d \in DOMAIN waiting'
      PROVE  waiting'[d] \in Seq(Handlers(ns, cbs, args)) \ {<<>>}
  <2>1. d \in DOMAIN waiting /\ Len(waiting'[d]) = Len(waiting[d])
        /\ waiting'[d] \in Seq(Handlers(ns, cbs, args))
    BY <1>1, <1>2, OnTick
  <2>2. waiting[d] # <<>> /\ waiting[d] \in Seq(Handlers(ns, cbs, args))
    BY <2>1 DEF PendingTypeOK
  <2>. QED BY <2>1, <2>2
<1>. QED BY <1>3, OnTick DEF PendingTypeOK

LEMMA NotEmpty ==
    ASSUME NEW S, NEW s \in Seq(S), s # <<>>
    PROVE  Len(s) \in Nat /\ Len(s) # 0
OBVIOUS

LEMMA EmptyIs ==
    ASSUME NEW S, NEW s \in Seq(S), Len(s) = 0
    PROVE  s = <<>>
OBVIOUS

LEMMA PendingRuns ==
    ASSUME NEW E, NEW H, PendingTypeOK(E, H), running # <<>>
    PROVE  /\ Head(running) \in H /\ Head(running) = running[1]
           /\ Tail(running) \in Seq(H)
BY DEF PendingTypeOK

-----------------------------------------------------------------------------
(***************************************************************************)
(* The alert.                                                              *)
(***************************************************************************)
\* The page's handler is taken off with the call it gets.
AlertInv == AlertTypeOK /\ AlertPendingOK /\ ToldOnceClosed /\ (listening => told = 0)

LEMMA AlertStart == TransitionsInit /\ AlertInit => AlertInv
BY DEF TransitionsInit, AlertInit, AlertInv, AlertTypeOK, AlertPendingOK, PendingTypeOK,
       ToldOnceClosed

LEMMA AlertStep == AlertInv /\ AlertNext => AlertInv'
<1>. SUFFICES ASSUME AlertInv, AlertNext
              PROVE  AlertInv'
  OBVIOUS
<1>. DEFINE H == Handlers({0}, {"removeElement"}, {0})
<1>. USE DEF AlertInv, AlertTypeOK, ToldOnceClosed
<1>1. PendingTypeOK({AlertElement}, H) /\ running \in Seq(H)
  BY DEF AlertPendingOK, PendingTypeOK
<1>2. CASE Close
  <2>1. Handler(0, "removeElement", 0, 1) \in H
    BY DEF Handler, Handlers
  <2>2. AlertPendingOK'
    <3>. HIDE DEF H
    <3>1. waiting' = With(AlertElement, Handler(0, "removeElement", 0, 1))
          /\ running' \in Seq(H)
      BY <1>1, <1>2 DEF Close
    <3>. QED BY <1>1, <2>1, <3>1, PendingWith DEF AlertPendingOK, H
  <2>. QED BY <1>2, <2>2 DEF Close, alertVars
<1>3. CASE (Ends({"alert"}) \/ Tick) /\ UNCHANGED alertVars
  BY <1>1, <1>3, PendingEnds, PendingTick DEF alertVars, AlertPendingOK
<1>4. CASE RemoveElement
  <2>. HIDE DEF H
  <2>2. running' \in Seq(H) /\ waiting' = Without(AlertElement)
    BY <1>1, <1>4, PendingRuns DEF RemoveElement, Runs, Free
  <2>1. AlertPendingOK'
    <3>1. PendingTypeOK({AlertElement}, H)'
      BY <1>1, <2>2, PendingWithout
    <3>. QED BY <3>1 DEF AlertPendingOK, H
  <2>3. listening \in BOOLEAN /\ attached \in BOOLEAN
    OBVIOUS
  <2>4. told' = told + (IF listening THEN 1 ELSE 0) /\ attached' = FALSE /\ listening' = FALSE
    BY <1>4 DEF RemoveElement
  <2>5. told' \in Nat /\ told' <= 1
    BY <2>3, <2>4
  <2>. QED BY <2>1, <2>4, <2>5
<1>. QED BY <1>2, <1>3, <1>4 DEF AlertNext, AlertTimers

-----------------------------------------------------------------------------
(***************************************************************************)
(* The tabs.  The last fade that is under way, or being ended, was asked   *)
(* for with the active tab.                                                *)
(***************************************************************************)
LastIs(s, t) == s[Len(s)].arg = t
LastFade ==
    IF On(Panes) # <<>> THEN LastIs(On(Panes), tab)
    ELSE IF running # <<>> THEN LastIs(running, tab)
    ELSE tab \in panes

TabInv == TabTypeOK /\ TabPendingOK /\ LastFade

LEMMA TabStart == TransitionsInit /\ TabInit => TabInv
BY TabAssumption
   DEF TabAssumption, TransitionsInit, TabInit, TabInv, TabTypeOK, TabPendingOK,
       PendingTypeOK, LastFade, On

LEMMA TabStep == TabInv /\ TabNext => TabInv'
<1>. SUFFICES ASSUME TabInv, TabNext
              PROVE  TabInv'
  OBVIOUS
<1>. DEFINE H == Handlers({0}, {"next"}, Tabs)
<1>. USE DEF TabInv, TabTypeOK
<1>1. /\ PendingTypeOK({Panes}, H) /\ running \in Seq(H) /\ On(Panes) \in Seq(H)
      /\ \A e \in DOMAIN waiting : e = Panes
  BY OnType DEF TabPendingOK, PendingTypeOK
<1>. HIDE DEF H
<1>2. ASSUME NEW t \in Tabs, TabShow(t)
      PROVE  TabInv'
  <2>. DEFINE h == Handler(0, "next", t, 1)
  <2>1. h \in H /\ h.arg = t
    BY DEF Handler, Handlers, H
  <2>. HIDE DEF h
  <2>2. /\ waiting' = With(Panes, h) /\ running' = running
        /\ tab' = t /\ panes' = panes /\ leaving' = panes
    BY <1>2 DEF TabShow, Fade, h
  <2>3. TabPendingOK'
    BY <1>1, <2>1, <2>2, PendingWith DEF TabPendingOK, H
  <2>4. On(Panes)' = Append(On(Panes), h)
    BY <2>2, OnWith
  <2>. QED BY <1>1, <2>1, <2>2, <2>3, <2>4 DEF LastFade, LastIs
<1>3. CASE Ends({"panes"}) /\ UNCHANGED tabVars
  <2>1. TabPendingOK'
    BY <1>1, <1>3, PendingEnds DEF TabPendingOK, H
  <2>2. /\ running' = On(Panes) /\ On(Panes)' = <<>> /\ On(Panes) # <<>>
    BY <1>1, <1>3, OnEnds, OnType
  <2>. QED BY <1>3, <2>1, <2>2 DEF LastFade, tabVars
<1>4. CASE Tick /\ UNCHANGED tabVars
  <2>1. TabPendingOK'
    BY <1>1, <1>4, PendingTick DEF TabPendingOK, H
  <2>2. /\ running' = running /\ Len(On(Panes)') = Len(On(Panes)) /\ On(Panes)' \in Seq(H)
        /\ \A i \in 1..Len(On(Panes)) : On(Panes)'[i].arg = On(Panes)[i].arg
    BY <1>1, <1>4, OnTick DEF Same, H
  <2>. QED BY <1>1, <1>4, <2>1, <2>2 DEF LastFade, LastIs, tabVars
<1>5. CASE NextPane
  <2>1. /\ running # <<>> /\ Head(running) \in H /\ Head(running) = running[1]
        /\ running' = Tail(running) /\ running' \in Seq(H)
    BY <1>1, <1>5, PendingRuns DEF NextPane, Runs, Free
  <2>2. /\ panes' = (panes \ leaving) \cup {running[1].arg} /\ running[1].arg \in Tabs
        /\ UNCHANGED <<waiting, tab, leaving>>
    BY <1>5, <2>1 DEF NextPane, Handlers, H
  <2>3. TabPendingOK' /\ On(Panes)' = On(Panes)
    BY <1>1, <2>1, <2>2 DEF TabPendingOK, PendingTypeOK, On, H
  <2>4. running' # <<>> => LastIs(running', tab) = LastIs(running, tab)
    BY <1>1, <2>1 DEF LastIs
  <2>5. running' = <<>> => Len(running) = 1
    <3>1. Len(Tail(running)) = Len(running) - 1 /\ Len(running) \in Nat
      BY <1>1, <2>1
    <3>2. Len(<<>>) = 0
      OBVIOUS
    <3>3. Len(running) # 0
      BY <1>1, <2>1
    <3>4. running' = <<>> => Len(running') = 0
      BY <3>2
    <3>. QED BY <2>1, <3>1, <3>3, <3>4
  <2>. QED BY <2>2, <2>3, <2>1, <2>4, <2>5 DEF LastFade, LastIs
<1>. QED BY <1>2, <1>3, <1>4, <1>5 DEF TabNext, TabTimers

LEMMA TabImplies == TabInv => ActiveTabHasItsPane
BY DEF TabInv, LastFade, ActiveTabHasItsPane, AtRest, On

-----------------------------------------------------------------------------
(***************************************************************************)
(* The carousel.  It rests, or one slide waits for its end, or that end is *)
(* being handled; scripts, jumps and clicks meet it in the first two.      *)
(***************************************************************************)
NoSlide(s) == \A k \in 1..Len(s) : s[k].cb # "slide"
OneSlide(s, a) ==
    Len(s) = 1 /\ s[1].cb = "slide" /\ s[1].n = a /\ s[1].arg = indicator

Rests ==
    /\ ~sliding /\ actives = {indicator}
    /\ NoSlide(running) /\ DOMAIN waiting \subseteq {SlidTimer}
SlidesFrom(a) == sliding /\ actives = {a} /\ a # indicator
Awaits(a) ==
    /\ SlidesFrom(a) /\ OneSlide(On(Item(a)), a)
    /\ NoSlide(running) /\ DOMAIN waiting \subseteq {Item(a), SlidTimer}
Arrives(a) ==
    /\ SlidesFrom(a) /\ OneSlide(running, a)
    /\ DOMAIN waiting \subseteq {SlidTimer}

\* The invariant under PausedStaysPut.
NotPaused == paused => ~interval

CarouselTypes ==
    /\ CarouselTypeOK /\ CarouselPendingOK
    /\ NotPaused
    /\ NoSlide(On(SlidTimer))

CarouselInv ==
    CarouselTypes /\ (Rests \/ \E a \in Items : Awaits(a) \/ Arrives(a))

SlideHandlers == Handlers(Items, {"slide", "slid", "to"}, Items)
SlideElements == {Item(i) : i \in Items} \cup {SlidTimer}

LEMMA CarouselStart == TransitionsInit /\ CarouselInit => CarouselInv
<1>. SUFFICES ASSUME TransitionsInit, CarouselInit
              PROVE  CarouselInv
  OBVIOUS
<1>1. 0 \in Items /\ 0 \in 0..MaxClicks /\ HasInterval \in BOOLEAN
  BY CarouselAssumption DEF CarouselAssumption, Items
<1>2. CarouselPendingOK /\ NoSlide(On(SlidTimer)) /\ NoSlide(running) /\ DOMAIN waiting = {}
  BY DEF TransitionsInit, CarouselPendingOK, PendingTypeOK, NoSlide, On
<1>3. CarouselTypeOK
  <2>1. <<>> \in Seq(Items)
    OBVIOUS
  <2>2. {sliding, paused, interval} \subseteq BOOLEAN
    BY <1>1 DEF CarouselInit
  <2>. QED BY <1>1, <2>1, <2>2 DEF CarouselInit, CarouselTypeOK
<1>. QED BY <1>1, <1>2, <1>3
         DEF CarouselInit, CarouselInv, CarouselTypes, Rests, NotPaused

LEMMA CarouselImplies == CarouselInv => OneItemShown
<1>. SUFFICES ASSUME CarouselInv
              PROVE  OneItemShown
  OBVIOUS
<1>1. \A a : Cardinality({a}) = 1
  BY FS_Singleton
<1>2. ASSUME NEW s, NEW a, OneSlide(s, a), s \in Seq(SlideHandlers)
      PROVE  SlidesTo(indicator, s)
  <2>1. 1 \in DOMAIN s
    BY <1>2 DEF OneSlide
  <2>. QED BY <1>2, <2>1 DEF OneSlide, SlidesTo
<1>3. running \in Seq(SlideHandlers) /\ \A a : On(Item(a)) \in Seq(SlideHandlers)
  BY OnType DEF CarouselInv, CarouselTypes, CarouselPendingOK, PendingTypeOK, SlideHandlers
<1>4. CASE Rests
  BY <1>1, <1>4 DEF Rests, OneItemShown
<1>5. ASSUME NEW a \in Items, Awaits(a) \/ Arrives(a)
      PROVE  OneItemShown
  <2>1. SlidesTo(indicator, On(Item(a))) \/ SlidesTo(indicator, running)
    BY <1>2, <1>3, <1>5 DEF Awaits, Arrives
  <2>2. sliding /\ actives = {a}
    BY <1>5 DEF Awaits, Arrives, SlidesFrom
  <2>. QED BY <1>1, <2>1, <2>2 DEF OneItemShown
<1>. QED BY <1>4, <1>5 DEF CarouselInv

\* A slide leaves a paused carousel paused, for no interval runs.
LEMMA PausedStep ==
    ASSUME NotPaused, NotPaused', CarouselNext
    PROVE  /\ paused' => ~interval'
           /\ paused /\ ~paused' => UNCHANGED <<actives, sliding, waiting>>
<1>1. paused' => ~interval'
  BY DEF NotPaused
<1>2. ASSUME NEW i, Slide(i), paused
      PROVE  paused'
  BY <1>2 DEF Slide, NotPaused
<1>3. ASSUME NEW i, To(i), paused, ~paused'
      PROVE  UNCHANGED <<actives, sliding, waiting>>
  BY <1>2, <1>3 DEF To
<1>4. CASE Click \/ JumpNow \/ IntervalFires
  BY <1>1, <1>2, <1>3, <1>4 DEF Click, keydown, Step, JumpNow, IntervalFires
<1>5. CASE Clocks
  BY <1>1, <1>5 DEF Clocks, pending
<1>6. CASE (Ends({"item"}) \/ Tick) /\ UNCHANGED carouselVars
  BY <1>1, <1>6 DEF carouselVars
<1>7. CASE SlideEnd \/ Slid
  BY <1>1, <1>7 DEF SlideEnd, Slid
<1>. QED BY <1>4, <1>5, <1>6, <1>7 DEF CarouselNext, CarouselTimers

\* The one active item; and the items that next and prev go to.
LEMMA ActiveIs == ASSUME NEW a \in Items, actives = {a} PROVE Active = a
BY DEF Active, Items

LEMMA Directions ==
    ASSUME Active \in Items, NEW type
    PROVE  getItemForDirection(type) \in Items
<1>1. Count \in Nat \ {0}
  BY CarouselAssumption DEF CarouselAssumption
<1>2. \A x \in Int : x % Count \in 0..(Count - 1)
  BY <1>1
<1>3. Active - 1 \in Int /\ Active + 1 \in Int
  BY <1>1 DEF Items
<1>. QED BY <1>2, <1>3 DEF getItemForDirection, Items

\* What is left to a call once running has been dealt with.
Called ==
    /\ running' \in Seq(SlideHandlers) /\ NoSlide(running)'
    /\ clicks' \in 0..MaxClicks

LEMMA SlideStep ==
    ASSUME CarouselTypes, Rests, Called, NEW i \in Items, Slide(i)
    PROVE  CarouselInv'
<1>. USE DEF CarouselTypes, CarouselTypeOK
<1>1. CASE i \in actives
  <2>1. UNCHANGED <<waiting, actives, indicator, paused, interval, jumps>> /\ sliding' = FALSE
    BY <1>1 DEF Slide
  <2>2. CarouselPendingOK' /\ NoSlide(On(SlidTimer))'
    BY <2>1 DEF CarouselPendingOK, PendingTypeOK, Called, SlideHandlers, NoSlide, On
  <2>. QED BY <2>1, <2>2 DEF CarouselInv, Rests, Called, NotPaused
<1>2. CASE i \notin actives
  <2>. PICK a : a = indicator
    OBVIOUS
  <2>. DEFINE h == Handler(a, "slide", i, 1)
  <2>1. Active = a /\ a \in Items
    BY ActiveIs DEF Rests
  <2>2. /\ sliding' = TRUE /\ indicator' = i /\ waiting' = With(Item(a), h)
        /\ paused' \in BOOLEAN /\ interval' \in BOOLEAN /\ NotPaused'
        /\ UNCHANGED <<actives, jumps>>
    BY <1>2, <2>1, CarouselAssumption DEF Slide, Cycle, NotPaused, CarouselAssumption
  <2>3. h \in SlideHandlers /\ h.cb = "slide" /\ h.n = a /\ h.arg = i
    BY <2>1 DEF Handler, Handlers, SlideHandlers
  <2>4. Item(a) \in SlideElements /\ Item(a) # SlidTimer
    BY <2>1 DEF SlideElements, Item, SlidTimer
  <2>. HIDE DEF h
  <2>5. PendingTypeOK(SlideElements, SlideHandlers)
    BY DEF CarouselPendingOK, SlideElements, SlideHandlers
  <2>6. PendingTypeOK(SlideElements, SlideHandlers)'
    BY <2>2, <2>3, <2>4, <2>5, PendingWith DEF Called
  <2>7. CarouselPendingOK'
    BY <2>6 DEF CarouselPendingOK, SlideElements, SlideHandlers
  <2>8. On(Item(a)) = <<>>
    BY <2>4 DEF Rests, On
  <2>9. /\ DOMAIN waiting' = DOMAIN waiting \cup {Item(a)}
        /\ On(Item(a))' = Append(<<>>, h) /\ On(SlidTimer)' = On(SlidTimer)
    BY <2>2, <2>4, <2>8, OnWith
  <2>10. On(Item(a))' = <<h>>
    BY <2>9
  <2>11. Awaits(a)'
    <3>1. OneSlide(On(Item(a)), a)'
      BY <2>2, <2>3, <2>10 DEF OneSlide, Item
    <3>2. SlidesFrom(a)'
      BY <1>2, <2>2 DEF SlidesFrom, Rests
    <3>. QED BY <2>9, <3>1, <3>2 DEF Awaits, Rests, Called, Item, SlidTimer
  <2>. QED BY <2>1, <2>2, <2>7, <2>9, <2>11
           DEF CarouselInv, Called, NotPaused, NoSlide
<1>. QED BY <1>1, <1>2

LEMMA ToStep ==
    ASSUME CarouselTypes, Rests \/ \E a \in Items : Awaits(a), Called,
           NEW i \in Items, To(i)
    PROVE  CarouselInv'
<1>. USE DEF CarouselTypes, CarouselTypeOK
<1>1. CASE ~sliding /\ Active # i
  BY <1>1, SlideStep DEF To, Awaits, SlidesFrom
<1>2. CASE sliding \/ Active = i
  <2>1. UNCHANGED <<actives, indicator, sliding, waiting>> /\ jumps' \in Seq(Items)
    <3>1. jumps \in Seq(Items) /\ Append(jumps, i) \in Seq(Items)
      OBVIOUS
    <3>. QED BY <1>2, <3>1 DEF To
  <2>2. paused' \in BOOLEAN /\ interval' \in BOOLEAN /\ NotPaused'
    BY <1>2, CarouselAssumption DEF To, Cycle, NotPaused, CarouselAssumption
  <2>3. CarouselPendingOK' /\ \A d : On(d)' = On(d)
    BY <2>1 DEF CarouselPendingOK, PendingTypeOK, Called, SlideHandlers, On
  <2>. QED BY <2>1, <2>2, <2>3
           DEF CarouselInv, Called, Rests, Awaits, SlidesFrom, OneSlide, NoSlide, Item
<1>. QED BY <1>1, <1>2 DEF To

\* What happens to the handlers alone leaves the classes and the timer.
LEMMA CarouselQuiet ==
    ASSUME CarouselTypes, UNCHANGED carouselVars
    PROVE  CarouselTypeOK' /\ NotPaused' /\ Items' = Items
BY DEF CarouselTypes, CarouselTypeOK, NotPaused, carouselVars, Items

LEMMA CarouselStep == CarouselInv /\ CarouselNext => CarouselInv'
<1>. SUFFICES ASSUME CarouselInv, CarouselNext
              PROVE  CarouselInv'
  OBVIOUS
<1>. DEFINE H == SlideHandlers
            E == SlideElements
<1>1. /\ CarouselTypes /\ CarouselTypeOK /\ NotPaused /\ NoSlide(On(SlidTimer))
      /\ PendingTypeOK(E, H) /\ running \in Seq(H)
      /\ \A d : On(d) \in Seq(H) /\ (On(d) # <<>> <=> d \in DOMAIN waiting)
  BY OnType DEF CarouselInv, CarouselTypes, CarouselPendingOK, PendingTypeOK, SlideHandlers,
                SlideElements
<1>2. ASSUME NEW x, x \in SlideHandlers PROVE x.n \in Items /\ x.arg \in Items
  BY <1>2 DEF SlideHandlers, Handlers
<1>3. ASSUME PendingTypeOK(E, H)' PROVE CarouselPendingOK'
  BY <1>3 DEF CarouselPendingOK, SlideElements, SlideHandlers
<1>. HIDE DEF H, E
<1>4. CASE Click
  <2>1. running = <<>> /\ Called
    <3>1. running = <<>> /\ running' = running /\ clicks' \in 0..MaxClicks
      BY <1>1, <1>4, CarouselAssumption DEF CarouselAssumption, Click, Free, CarouselTypeOK
    <3>. QED BY <1>1, <3>1 DEF Called, NoSlide, H
  <2>2. Rests \/ \E a \in Items : Awaits(a)
    BY <2>1 DEF CarouselInv, Arrives, OneSlide
  <2>3. CASE \E type \in {"next", "prev"} : Step(type)
    <3>1. Rests /\ Active \in Items
      BY <2>2, <2>3, <1>1, ActiveIs DEF Step, Awaits, SlidesFrom, Rests, CarouselTypeOK
    <3>. QED BY <1>1, <2>1, <2>3, <3>1, Directions, SlideStep DEF Step
  <2>4. CASE \E i \in Items : To(i)
    BY <1>1, <2>1, <2>2, <2>4, ToStep
  <2>. QED BY <1>4, <2>3, <2>4 DEF Click, keydown
<1>5. CASE Clocks
  <2>1. UNCHANGED <<pending, actives, indicator, sliding, jumps, clicks>>
    BY <1>5 DEF Clocks
  <2>2. paused' \in BOOLEAN /\ interval' \in BOOLEAN /\ NotPaused'
    BY <1>1, <1>5, CarouselAssumption
       DEF Clocks, PauseCall, CycleCall, MouseEnter, MouseLeave, Pause, Cycle,
           NotPaused, CarouselAssumption, CarouselTypeOK
  <2>3. CarouselPendingOK' /\ \A d : On(d)' = On(d)
    BY <1>1, <2>1 DEF CarouselTypes, CarouselPendingOK, PendingTypeOK, pending, On
  <2>. QED BY <1>1, <2>1, <2>2, <2>3
           DEF CarouselInv, CarouselTypes, CarouselTypeOK, pending, Rests, Awaits, Arrives,
               SlidesFrom, OneSlide, NoSlide, Item
<1>6. CASE IntervalFires
  <2>1. running = <<>> /\ Called
    BY <1>1, <1>6 DEF IntervalFires, AtRest, Called, NoSlide, H, CarouselTypeOK
  <2>2. Rests /\ Active \in Items
    BY <1>1, <1>6, <2>1, ActiveIs
       DEF IntervalFires, Step, CarouselInv, Awaits, Arrives, SlidesFrom, Rests, CarouselTypeOK
  <2>. QED BY <1>1, <1>6, <2>1, <2>2, Directions, SlideStep DEF IntervalFires, Step
<1>7. CASE Ends({"item"}) /\ UNCHANGED carouselVars
  <2>1. PICK e \in DOMAIN waiting :
            /\ running = <<>> /\ running' = On(e)
            /\ DOMAIN waiting' = DOMAIN waiting \ {e}
            /\ \A d : On(d)' = IF d = e THEN <<>> ELSE On(d)
    BY <1>7, OnEnds
  <2>2. PendingTypeOK(E, H)'
    BY <1>1, <1>7, PendingEnds
  <2>3. CarouselTypes'
    BY <1>1, <1>3, <1>7, <2>1, <2>2, CarouselQuiet DEF CarouselTypes, NoSlide
  <2>4. UNCHANGED <<actives, indicator, sliding>>
    BY <1>7 DEF carouselVars
  <2>5. CASE Rests
    BY <1>1, <2>1, <2>3, <2>4, <2>5 DEF Rests, CarouselInv, NoSlide
  <2>6. ASSUME NEW a \in Items, Awaits(a)
        PROVE  CarouselInv'
    <3>1. Item(a) # SlidTimer
      BY DEF Item, SlidTimer
    <3>2. CASE e = Item(a)
      <4>1. Arrives(a)'
        BY <2>1, <2>4, <2>6, <3>2 DEF Awaits, Arrives, SlidesFrom, OneSlide
      <4>. QED BY <2>3, <4>1 DEF CarouselInv, Items
    <3>3. CASE e = SlidTimer
      <4>1. Awaits(a)'
        BY <1>1, <2>1, <2>4, <2>6, <3>1, <3>3
           DEF Awaits, SlidesFrom, OneSlide, NoSlide, Item
      <4>. QED BY <2>3, <4>1 DEF CarouselInv, Items
    <3>. QED BY <2>6, <3>2, <3>3 DEF Awaits
  <2>. QED BY <2>1, <2>5, <2>6 DEF CarouselInv, Arrives, OneSlide
<1>8. CASE Tick /\ UNCHANGED carouselVars
  <2>1. /\ running = <<>> /\ running' = <<>> /\ DOMAIN waiting' = DOMAIN waiting
        /\ \A d : /\ On(d) \in Seq(H) /\ On(d)' \in Seq(H) /\ Len(On(d)') = Len(On(d))
                  /\ \A k \in 1..Len(On(d)) : Same(On(d)[k], On(d)'[k])
    BY <1>1, <1>8, OnTick DEF H, SlideHandlers
  <2>2. PendingTypeOK(E, H)'
    BY <1>1, <1>8, PendingTick DEF H, SlideHandlers
  <2>3. NoSlide(On(SlidTimer))'
    BY <1>1, <2>1 DEF NoSlide, Same
  <2>4. CarouselTypes' /\ UNCHANGED <<actives, indicator, sliding>>
    BY <1>1, <1>3, <1>8, <2>2, <2>3, CarouselQuiet DEF CarouselTypes, carouselVars
  <2>5. CASE Rests
    BY <2>1, <2>4, <2>5 DEF Rests, CarouselInv, NoSlide
  <2>6. ASSUME NEW a \in Items, Awaits(a)
        PROVE  CarouselInv'
    <3>1. OneSlide(On(Item(a)), a)'
      BY <2>1, <2>4, <2>6 DEF Awaits, OneSlide, Same, Item
    <3>2. Awaits(a)'
      BY <2>1, <2>4, <2>6, <3>1 DEF Awaits, SlidesFrom, NoSlide, Item
    <3>. QED BY <2>4, <3>2 DEF CarouselInv, Items
  <2>. QED BY <2>1, <2>5, <2>6 DEF CarouselInv, Arrives, OneSlide
<1>9. CASE SlideEnd
  <2>. DEFINE h == Head(running)
              g == Handler(0, "slid", h.arg, 0)
  <2>1. /\ running # <<>> /\ h \in H /\ h = running[1] /\ h.cb = "slide"
        /\ running' = Tail(running) /\ running' \in Seq(H)
    BY <1>1, <1>9, PendingRuns DEF SlideEnd, Runs, Free
  <2>2. PICK a \in Items : Arrives(a)
    <3>1. ~NoSlide(running)
      BY <1>1, <2>1 DEF NoSlide
    <3>. QED BY <3>1 DEF CarouselInv, Rests, Awaits
  <2>3. h.n = a /\ h.arg = indicator /\ Len(running) = 1
    BY <2>1, <2>2 DEF Arrives, OneSlide
  <2>4. /\ actives' = (actives \cup {h.arg}) \ {h.n} /\ waiting' = With(SlidTimer, g)
        /\ sliding' = FALSE
        /\ UNCHANGED <<indicator, paused, interval, jumps, clicks>>
    BY <1>9 DEF SlideEnd
  <2>5. actives' = {indicator'}
    BY <2>2, <2>3, <2>4 DEF Arrives, SlidesFrom
  <2>6. g \in H /\ g.cb = "slid"
    BY <1>1, <1>2, <2>1, CarouselAssumption
       DEF CarouselAssumption, Handler, H, SlideHandlers, Handlers, Items
  <2>. HIDE DEF g, h
  <2>7. PendingTypeOK(E, H)'
    BY <1>1, <2>1, <2>4, <2>6, PendingWith DEF E, SlideElements
  <2>8. On(SlidTimer)' = Append(On(SlidTimer), g)
        /\ DOMAIN waiting' = DOMAIN waiting \cup {SlidTimer}
    BY <2>4, OnWith
  <2>9. NoSlide(On(SlidTimer))'
    BY <1>1, <2>6, <2>8 DEF NoSlide
  <2>10. NoSlide(running)'
    BY <1>1, <2>1, <2>3 DEF NoSlide
  <2>11. CarouselTypeOK' /\ NotPaused'
    BY <1>1, <2>4, <2>5 DEF CarouselTypeOK, NotPaused
  <2>. QED BY <1>3, <2>2, <2>4, <2>5, <2>7, <2>8, <2>9, <2>10, <2>11
           DEF CarouselInv, CarouselTypes, Rests, Arrives
<1>10. CASE Slid
  <2>. DEFINE more == [k \in DOMAIN jumps |-> Handler(0, "to", jumps[k], 0)]
  <2>1. /\ running # <<>> /\ Head(running).cb = "slid" /\ Head(running) = running[1]
        /\ Tail(running) \in Seq(H)
    BY <1>1, <1>10, PendingRuns DEF Slid, Free
  <2>2. /\ running' = Tail(running) \o more /\ jumps' = <<>>
        /\ UNCHANGED <<waiting, actives, indicator, sliding, paused, interval, clicks>>
    BY <1>10 DEF Slid
  <2>3. more \in Seq(H) /\ \A k \in 1..Len(more) : more[k].cb = "to"
    <3>1. jumps \in Seq(Items) /\ DOMAIN jumps = 1..Len(jumps) /\ Len(jumps) \in Nat
      BY <1>1 DEF CarouselTypeOK
    <3>2. \A k \in 1..Len(jumps) : more[k] \in H /\ more[k].cb = "to"
      BY <3>1, CarouselAssumption
         DEF CarouselAssumption, Handler, H, SlideHandlers, Handlers, Items
    <3>. HIDE DEF more
    <3>3. more \in [1..Len(jumps) -> H]
      <4>1. more = [k \in 1..Len(jumps) |-> more[k]]
        BY <3>1 DEF more
      <4>. QED BY <3>2, <4>1
    <3>. QED BY <3>1, <3>2, <3>3
  <2>. HIDE DEF more
  <2>4. NoSlide(running)
    BY <1>1, <2>1 DEF CarouselInv, Rests, Awaits, Arrives, OneSlide
  <2>5. running' \in Seq(H) /\ NoSlide(running)'
    BY <1>1, <2>1, <2>2, <2>3, <2>4 DEF NoSlide
  <2>6. PendingTypeOK(E, H)' /\ \A d : On(d)' = On(d)
    BY <1>1, <2>2, <2>5 DEF PendingTypeOK, On
  <2>7. CarouselTypeOK' /\ NotPaused'
    BY <1>1, <2>2 DEF CarouselTypeOK, NotPaused
  <2>8. Rests \/ \E a \in Items : Awaits(a)
    BY <2>1 DEF CarouselInv, Arrives, OneSlide
  <2>. QED BY <1>1, <1>3, <2>2, <2>5, <2>6, <2>7, <2>8
           DEF CarouselInv, CarouselTypes, Rests, Awaits, SlidesFrom, OneSlide, Item, NoSlide
<1>11. CASE JumpNow
  <2>1. /\ running # <<>> /\ Head(running).cb = "to" /\ Head(running) = running[1]
        /\ Head(running).arg \in Items
        /\ running' = Tail(running) /\ running' \in Seq(H)
    BY <1>1, <1>2, <1>11, PendingRuns DEF JumpNow, Runs, Free, H
  <2>2. Rests \/ \E a \in Items : Awaits(a)
    BY <2>1 DEF CarouselInv, Arrives, OneSlide
  <2>3. Called
    BY <1>1, <1>11, <2>1, <2>2
       DEF Called, NoSlide, Rests, Awaits, JumpNow, CarouselTypeOK, H
  <2>. QED BY <1>1, <1>11, <2>1, <2>2, <2>3, ToStep DEF JumpNow
<1>. QED BY <1>4, <1>5, <1>6, <1>7, <1>8, <1>9, <1>10, <1>11 DEF CarouselNext, CarouselTimers

-----------------------------------------------------------------------------
(***************************************************************************)
(* The accordion.                                                          *)
(***************************************************************************)
PanelHandlers == Handlers(Panels, {"shown", "hidden"}, BOOLEAN)
PanelElements == {Panel(p) : p \in Panels}

\* A panel's element has that panel's handlers.
CollapseTypes ==
    /\ CollapseTypeOK /\ CollapsePendingOK
    /\ \A p \in Panels : \A i \in 1..Len(On(Panel(p))) : On(Panel(p))[i].n = p

LEMMA CollapseFacts ==
    CollapseTypes => /\ CollapseTypeOK
                     /\ PendingTypeOK(PanelElements, PanelHandlers)
                     /\ running \in Seq(PanelHandlers)
                     /\ \A d : /\ On(d) \in Seq(PanelHandlers)
                               /\ On(d) # <<>> <=> d \in DOMAIN waiting
                     /\ \A d \in DOMAIN waiting : \E p \in Panels : d = Panel(p)
BY OnType DEF CollapseTypes, CollapsePendingOK, PendingTypeOK, PanelElements, PanelHandlers

\* The first of the panels that are not closed.
LEMMA FirstActive == Actives # {} => First \in Actives
<1>1. Panels \subseteq Nat
  BY CollapseAssumption, FS_CardinalityType DEF CollapseAssumption
<1>2. ASSUME Actives # {}
      PROVE  \E p \in Actives : \A q \in Actives : p <= q
  <2>1. Actives \subseteq Nat
    BY <1>1 DEF Actives
  <2>. DEFINE less == {ss \in Nat \X Nat : ss[1] < ss[2]}
  <2>2. IsWellFoundedOn(less, Nat)
    BY NatLessThanWellFounded DEF OpToRel
  <2>3. \E p \in Actives : \A q \in Actives : ~(<<q, p>> \in less)
    <3>. HIDE DEF less
    <3>1. PICK S : S = Actives
      OBVIOUS
    <3>2. S \subseteq Nat /\ S # {}
      BY <1>2, <2>1, <3>1
    <3>3. \E p \in S : \A q \in S : ~(<<q, p>> \in less)
      BY <2>2, <3>2, WFMin, Zenon
    <3>. QED BY <3>1, <3>3
  <2>4. PICK p \in Actives : \A q \in Actives : ~(<<q, p>> \in less)
    BY <2>3
  <2>5. ASSUME NEW q \in Actives PROVE p <= q
    <3>1. ~(q < p) /\ p \in Nat /\ q \in Nat
      BY <2>1, <2>4, <2>5
    <3>. QED BY <3>1
  <2>. QED BY <2>5
<1>. QED BY <1>2 DEF First

LEMMA OrphanedIs ==
    ASSUME NEW hs \in Seq(PanelHandlers)
    PROVE  /\ Orphaned(hs) \in Seq(PanelHandlers) /\ Len(Orphaned(hs)) = Len(hs)
           /\ \A i \in 1..Len(hs) : /\ Orphaned(hs)[i].n = hs[i].n
                                    /\ Orphaned(hs)[i].cb = hs[i].cb
<1>1. ASSUME NEW i \in 1..Len(hs)
      PROVE  /\ Orphaned(hs)[i] \in PanelHandlers /\ Orphaned(hs)[i].n = hs[i].n
             /\ Orphaned(hs)[i].cb = hs[i].cb
  <2>1. hs[i] \in PanelHandlers
    OBVIOUS
  <2>2. Orphaned(hs)[i] = [hs[i] EXCEPT !.arg = FALSE]
    <3>1. i \in DOMAIN hs
      OBVIOUS
    <3>. QED BY <3>1, Zenon DEF Orphaned
  <2>. QED BY <2>1, <2>2 DEF PanelHandlers, Handlers
<1>2. Orphaned(hs) = [i \in 1..Len(hs) |-> Orphaned(hs)[i]]
  BY DEF Orphaned
<1>. HIDE DEF Orphaned
<1>3. Orphaned(hs) \in [1..Len(hs) -> PanelHandlers]
  BY <1>1, <1>2
<1>. QED BY <1>1, <1>3

LEMMA PanelIs == \A p, q : Panel(p) = Panel(q) => p = q
BY DEF Panel

LEMMA MovesIs ==
    ASSUME NEW p \in Panels, NEW cb \in {"shown", "hidden"}, NEW own \in BOOLEAN
    PROVE  /\ Moves(p, cb, own) \in PanelHandlers
           /\ Moves(p, cb, own).n = p /\ Moves(p, cb, own).cb = cb
           /\ Moves(p, cb, own).arg = own
BY DEF Moves, Handler, PanelHandlers, Handlers

\* What showing a panel forgets and leaves to wait.
Forget(p) ==
    IF Siblings(p) # {} /\ data[First] = "none" THEN Siblings(p) ELSE {}
Attached(p) == p \notin Forget(p) \/ data[p] = "none"
AfterHide(p, q) ==
    LET was == WithHidden(q, Siblings(p)) IN IF q \in Forget(p) THEN Orphaned(was) ELSE was
AfterShow(p, q) ==
    IF q = p THEN Append(AfterHide(p, q), Moves(p, "shown", Attached(p))) ELSE AfterHide(p, q)

LEMMA ShowIs ==
    ASSUME CollapseTypes, NEW p \in Panels, ShowPanel(p), running' = running,
           loaded' = loaded
    PROVE  /\ CollapseTypes'
           /\ \A q \in Panels :
                 /\ On(Panel(q))' = AfterShow(p, q)
                 /\ WithHidden(q, Siblings(p)) \in Seq(PanelHandlers)
                 /\ AfterHide(p, q) \in Seq(PanelHandlers)
<1>. DEFINE moved == {Panel(q) : q \in Hidden(Siblings(p)) \cup {p}}
<1>1. /\ CollapseTypeOK /\ PendingTypeOK(PanelElements, PanelHandlers)
      /\ running \in Seq(PanelHandlers)
      /\ \A d : On(d) \in Seq(PanelHandlers) /\ (On(d) # <<>> <=> d \in DOMAIN waiting)
      /\ \A d \in DOMAIN waiting : \E q \in Panels : d = Panel(q)
  BY CollapseFacts
<1>2. waiting' = [e \in DOMAIN waiting \cup moved |-> AfterShow(p, e[2])]
  BY DEF ShowPanel, AfterShow, AfterHide, Attached, Forget
<1>3. Hidden(Siblings(p)) \subseteq Panels /\ p \notin Hidden(Siblings(p))
  BY DEF Hidden, Siblings, Actives, ShowPanel, CanShowPanel
<1>4. \A q, r : Panel(q)[2] = q /\ (Panel(q) = Panel(r) => q = r)
  BY DEF Panel
<1>5. Attached(p) \in BOOLEAN
  BY DEF Attached
<1>6. ASSUME NEW q \in Panels
      PROVE  /\ WithHidden(q, Siblings(p)) \in Seq(PanelHandlers)
             /\ \A i \in 1..Len(WithHidden(q, Siblings(p))) : WithHidden(q, Siblings(p))[i].n = q
             /\ q \in Hidden(Siblings(p)) => WithHidden(q, Siblings(p)) # <<>>
             /\ q \notin Hidden(Siblings(p)) => WithHidden(q, Siblings(p)) = On(Panel(q))
  <2>1. \A i \in 1..Len(On(Panel(q))) : On(Panel(q))[i].n = q
    BY DEF CollapseTypes
  <2>2. On(Panel(q)) \in Seq(PanelHandlers)
    BY <1>1
  <2>3. CASE q \in Hidden(Siblings(p))
    <3>. DEFINE h == Moves(q, "hidden", TRUE)
    <3>1. h \in PanelHandlers /\ h.n = q
      BY MovesIs
    <3>2. WithHidden(q, Siblings(p)) = Append(On(Panel(q)), h)
      BY <2>3 DEF WithHidden
    <3>. HIDE DEF h
    <3>. QED BY <2>1, <2>2, <2>3, <3>1, <3>2
  <2>4. CASE q \notin Hidden(Siblings(p))
    BY <2>1, <2>2, <2>4 DEF WithHidden
  <2>. QED BY <2>3, <2>4
<1>7. ASSUME NEW q \in Panels
      PROVE  /\ AfterHide(p, q) \in Seq(PanelHandlers)
             /\ \A i \in 1..Len(AfterHide(p, q)) : AfterHide(p, q)[i].n = q
             /\ AfterHide(p, q) = <<>> <=> WithHidden(q, Siblings(p)) = <<>>
  BY <1>6, OrphanedIs DEF AfterHide
<1>8. ASSUME NEW q \in Panels
      PROVE  /\ AfterShow(p, q) \in Seq(PanelHandlers)
             /\ \A i \in 1..Len(AfterShow(p, q)) : AfterShow(p, q)[i].n = q
             /\ AfterShow(p, q) = <<>> <=> Panel(q) \notin DOMAIN waiting \cup moved
  <2>1. CASE q = p
    <3>. DEFINE h == Moves(p, "shown", Attached(p))
    <3>1. h \in PanelHandlers /\ h.n = q
      BY <1>5, <2>1, MovesIs
    <3>2. AfterShow(p, q) = Append(AfterHide(p, q), h)
      BY <2>1 DEF AfterShow
    <3>. HIDE DEF h
    <3>. QED BY <1>7, <2>1, <3>1, <3>2
  <2>2. CASE q # p
    BY <1>1, <1>3, <1>4, <1>6, <1>7, <2>2 DEF AfterShow
  <2>. QED BY <2>1, <2>2
<1>9. \A q \in Panels : On(Panel(q))' = AfterShow(p, q)
  BY <1>2, <1>4, <1>8 DEF On
<1>10. CollapsePendingOK'
  <2>1. \A d \in DOMAIN waiting' : \E q \in Panels : d = Panel(q)
    BY <1>1, <1>2, <1>3
  <2>2. \A d \in DOMAIN waiting' : waiting'[d] \in Seq(PanelHandlers) \ {<<>>}
    BY <1>2, <1>4, <1>8, <2>1
  <2>3. PendingTypeOK(PanelElements, PanelHandlers)'
    BY <1>1, <2>1, <2>2 DEF PendingTypeOK, PanelElements
  <2>. QED BY <2>3 DEF CollapsePendingOK, PanelElements, PanelHandlers
<1>11. CollapseTypeOK'
  <2>1. look' \in [Panels -> {"closed", "collapsing", "open"}]
    BY <1>1 DEF CollapseTypeOK, ShowPanel
  <2>2. data' \in [Panels -> {"none", "idle", "busy"}]
    BY <1>1 DEF CollapseTypeOK, ShowPanel
  <2>3. lone' \subseteq Panels
    BY <1>1 DEF CollapseTypeOK, ShowPanel, Siblings, Actives
  <2>. QED BY <1>1, <2>1, <2>2, <2>3 DEF CollapseTypeOK
<1>. QED BY <1>6, <1>7, <1>8, <1>9, <1>10, <1>11 DEF CollapseTypes

\* A panel that moves, or whose object is marked as moving, has a handler that
\* will end that.
HasEnd(p) == On(Panel(p)) # <<>> \/ \E i \in 1..Len(running) : running[i].n = p
ClearsBusy(p) ==
    \/ \E i \in 1..Len(On(Panel(p))) : On(Panel(p))[i].arg = TRUE
    \/ \E i \in 1..Len(running) : running[i].n = p /\ running[i].arg = TRUE
MovesEnd ==
    \A p \in Panels : /\ look[p] = "collapsing" => HasEnd(p)
                      /\ data[p] = "busy" => ClearsBusy(p)

\* Where the markup opens no panel, every panel that is not closed has its
\* object, and no object was made by hiding; a panel that moves has one handler,
\* and one panel is coming or open.
Comes(p) ==
    \/ look[p] = "open"
    \/ Opening(p)
    \/ \E i \in 1..Len(running) : running[i].n = p /\ running[i].cb = "shown"
OneEnd(p) ==
    \/ /\ Len(On(Panel(p))) = 1 /\ On(Panel(p))[1].arg = TRUE
       /\ running # <<>> => running[1].n # p
    \/ /\ On(Panel(p)) = <<>>
       /\ running # <<>> /\ running[1].n = p /\ running[1].arg = TRUE
OneByOne ==
    /\ Len(running) <= 1
    /\ lone = {}
    /\ \A p \in Panels :
          /\ look[p] # "closed" => data[p] # "none"
          /\ look[p] = "collapsing" <=> data[p] = "busy"
          /\ IF data[p] = "busy" THEN OneEnd(p) ELSE ~HasEnd(p)
    /\ \A p, q \in Panels : Comes(p) /\ Comes(q) => p = q

CollapseInv == CollapseTypes /\ MovesEnd /\ (loaded = {} => OneByOne)

LEMMA CollapseStart == TransitionsInit /\ CollapseInit => CollapseInv
<1>. SUFFICES ASSUME TransitionsInit, CollapseInit
              PROVE  CollapseInv
  OBVIOUS
<1>1. running = <<>> /\ \A d : On(d) = <<>>
  BY DEF TransitionsInit, On
<1>2. CollapseTypeOK
  BY DEF CollapseInit, CollapseTypeOK
<1>3. CollapseTypes
  BY <1>1, <1>2 DEF TransitionsInit, CollapseTypes, CollapsePendingOK, PendingTypeOK
<1>4. /\ \A p \in Panels : data[p] = "none" /\ look[p] # "collapsing"
                           /\ (loaded = {} => look[p] = "closed")
      /\ lone = {}
  BY DEF CollapseInit
<1>. QED BY <1>1, <1>3, <1>4
         DEF CollapseInv, MovesEnd, OneByOne, HasEnd, Comes, Opening

LEMMA CollapseImplies == CollapseInv => OnePanelOpen /\ PanelsSettle
<1>. SUFFICES ASSUME CollapseInv
              PROVE  OnePanelOpen /\ PanelsSettle
  OBVIOUS
<1>1. PanelsSettle
  BY DEF PanelsSettle, AtRest, CollapseInv, MovesEnd, HasEnd, ClearsBusy, On
<1>2. ASSUME loaded = {}
      PROVE  Cardinality({p \in Panels : look[p] = "open" \/ Opening(p)}) <= 1
  <2>. DEFINE S == {p \in Panels : look[p] = "open" \/ Opening(p)}
  <2>1. \A p, q \in S : p = q
    BY <1>2 DEF CollapseInv, OneByOne, Comes
  <2>. HIDE DEF S
  <2>2. S = {} \/ \E p : S = {p}
    BY <2>1
  <2>3. Cardinality(S) <= 1
    <3>1. Cardinality({}) = 0 /\ \A p : Cardinality({p}) = 1
      BY FS_EmptySet, FS_Singleton
    <3>2. CASE S = {}
      BY <3>1, <3>2
    <3>3. CASE \E p : S = {p}
      <4>1. PICK p : S = {p}
        BY <3>3
      <4>2. Cardinality(S) = 1
        BY <3>1, <4>1
      <4>. QED BY <4>2
    <3>. QED BY <2>2, <3>2, <3>3
  <2>. QED BY <2>3 DEF S
<1>. QED BY <1>1, <1>2 DEF OnePanelOpen

LEMMA HideStep ==
    ASSUME CollapseTypes, MovesEnd, NEW p \in Panels, HidePanel(p), Few,
           UNCHANGED <<running, loaded>>
    PROVE  CollapseTypes' /\ MovesEnd' /\ (OneByOne => OneByOne')
<1>. DEFINE h == Moves(p, "hidden", TRUE)
<1>1. h \in PanelHandlers /\ h.n = p /\ h.cb = "hidden" /\ h.arg = TRUE
  BY MovesIs
<1>2. /\ look' = [look EXCEPT ![p] = "collapsing"] /\ data' = [data EXCEPT ![p] = "busy"]
      /\ waiting' = With(Panel(p), h) /\ running = <<>> /\ running' = <<>> /\ lone' = lone
      /\ data[p] # "busy" /\ look[p] = "open"
  BY DEF HidePanel, Few, Free
<1>. HIDE DEF h
<1>3. \A q \in Panels : On(Panel(q)) \in Seq(PanelHandlers)
  BY CollapseFacts
<1>4. /\ On(Panel(p))' = Append(On(Panel(p)), h)
      /\ \A q \in Panels \ {p} : On(Panel(q))' = On(Panel(q))
  BY <1>2, OnWith, PanelIs
<1>5. CollapseTypeOK'
  BY <1>2 DEF CollapseTypes, CollapseTypeOK
<1>6. CollapsePendingOK'
  <2>1. PendingTypeOK(PanelElements, PanelHandlers)'
    BY <1>1, <1>2, CollapseFacts, PendingWith DEF PanelElements
  <2>. QED BY <2>1 DEF CollapsePendingOK, PanelElements, PanelHandlers
<1>7. CollapseTypes'
  BY <1>1, <1>3, <1>4, <1>5, <1>6 DEF CollapseTypes
<1>8. On(Panel(p))'[Len(On(Panel(p))) + 1] = h /\ Len(On(Panel(p))') = Len(On(Panel(p))) + 1
      /\ Len(On(Panel(p))) \in Nat
  BY <1>3, <1>4
<1>9. /\ \A q \in Panels \ {p} : look'[q] = look[q] /\ data'[q] = data[q]
      /\ look'[p] = "collapsing" /\ data'[p] = "busy"
  BY <1>2 DEF CollapseTypes, CollapseTypeOK
<1>10. MovesEnd'
  <2>1. HasEnd(p)' /\ ClearsBusy(p)'
    BY <1>1, <1>8 DEF HasEnd, ClearsBusy, Panel
  <2>2. ASSUME NEW q \in Panels \ {p}
        PROVE  HasEnd(q)' = HasEnd(q) /\ ClearsBusy(q)' = ClearsBusy(q)
    BY <1>2, <1>4 DEF HasEnd, ClearsBusy, Panel
  <2>. QED BY <1>9, <2>1, <2>2 DEF MovesEnd
<1>11. ASSUME OneByOne
       PROVE  OneByOne'
  <2>1. On(Panel(p)) = <<>> /\ On(Panel(p))' = <<h>>
    <3>1. On(Panel(p)) = <<>>
      BY <1>2, <1>11 DEF OneByOne, HasEnd
    <3>2. On(Panel(p))' = Append(<<>>, h)
      BY <1>4, <3>1
    <3>. QED BY <3>1, <3>2
  <2>2. OneEnd(p)' /\ ~Comes(p)'
    BY <1>1, <1>2, <1>9, <2>1 DEF OneEnd, Comes, Opening, Panel
  <2>3. ASSUME NEW q \in Panels \ {p}
        PROVE  /\ HasEnd(q)' <=> HasEnd(q)
               /\ OneEnd(q)' <=> OneEnd(q)
               /\ Comes(q)' <=> Comes(q)
    <3>1. On(Panel(q))' = On(Panel(q)) /\ look'[q] = look[q] /\ running' = running
      BY <1>2, <1>4, <1>9
    <3>2. HasEnd(q)' <=> HasEnd(q)
      BY <3>1 DEF HasEnd, Panel
    <3>3. OneEnd(q)' <=> OneEnd(q)
      BY <3>1 DEF OneEnd, Panel
    <3>4. Comes(q)' <=> Comes(q)
      BY <3>1 DEF Comes, Opening, Panel
    <3>. QED BY <3>2, <3>3, <3>4
  <2>. QED BY <1>2, <1>9, <1>11, <2>2, <2>3 DEF OneByOne
<1>. QED BY <1>7, <1>10, <1>11

LEMMA ShowStep ==
    ASSUME CollapseTypes, MovesEnd, NEW p \in Panels, ShowPanel(p), Few,
           UNCHANGED <<running, loaded>>
    PROVE  CollapseTypes' /\ MovesEnd' /\ (OneByOne => OneByOne')
<1>. DEFINE h == Moves(p, "shown", Attached(p))
<1>1. running = <<>> /\ running' = <<>>
  BY DEF Few, Free
<1>2. /\ CollapseTypes'
      /\ \A q \in Panels : /\ On(Panel(q))' = AfterShow(p, q)
                           /\ WithHidden(q, Siblings(p)) \in Seq(PanelHandlers)
                           /\ AfterHide(p, q) \in Seq(PanelHandlers)
  BY ShowIs
<1>3. /\ h \in PanelHandlers /\ h.n = p /\ h.cb = "shown" /\ h.arg = Attached(p)
      /\ Attached(p) \in BOOLEAN
  BY MovesIs DEF Attached
<1>4. On(Panel(p))' = Append(AfterHide(p, p), h)
      /\ \A q \in Panels \ {p} : On(Panel(q))' = AfterHide(p, q)
  BY <1>2 DEF AfterShow
<1>. HIDE DEF h
<1>5. \A q \in Panels :
        /\ look'[q] = IF q = p \/ q \in Hidden(Siblings(p)) THEN "collapsing" ELSE look[q]
        /\ data'[q] = IF q = p THEN IF Attached(p) THEN "busy" ELSE "none"
                      ELSE IF q \in Forget(p) THEN "none"
                      ELSE IF q \in Hidden(Siblings(p)) THEN "busy"
                      ELSE IF q \in Siblings(p) /\ data[q] = "none" THEN "idle"
                      ELSE data[q]
  BY DEF ShowPanel, Attached, Forget
<1>6. /\ data[p] # "busy" /\ look[p] # "open" /\ Hidden(Siblings(p)) \subseteq Panels \ {p}
      /\ Siblings(p) # {} => data[First] # "busy"
      /\ \A q \in Hidden(Siblings(p)) : look[q] = "open" /\ data[q] # "busy"
  BY DEF ShowPanel, CanShowPanel, Hidden, Siblings, Actives
<1>7. \A q \in Panels : On(Panel(q)) \in Seq(PanelHandlers)
  BY CollapseFacts
<1>8. ASSUME NEW q \in Hidden(Siblings(p))
      PROVE  /\ WithHidden(q, Siblings(p)) = Append(On(Panel(q)), Moves(q, "hidden", TRUE))
             /\ WithHidden(q, Siblings(p))[Len(On(Panel(q))) + 1] = Moves(q, "hidden", TRUE)
             /\ Len(WithHidden(q, Siblings(p))) = Len(On(Panel(q))) + 1
             /\ Len(On(Panel(q))) \in Nat
             /\ WithHidden(q, Siblings(p)) # <<>>
             /\ Moves(q, "hidden", TRUE) \in PanelHandlers
             /\ Moves(q, "hidden", TRUE).cb = "hidden"
             /\ Moves(q, "hidden", TRUE).arg = TRUE
  <2>. DEFINE m == Moves(q, "hidden", TRUE)
  <2>1. m \in PanelHandlers /\ m.cb = "hidden" /\ m.arg = TRUE
    BY <1>6, MovesIs
  <2>. HIDE DEF m
  <2>2. On(Panel(q)) \in Seq(PanelHandlers) /\ WithHidden(q, Siblings(p)) = Append(On(Panel(q)), m)
    BY <1>6, <1>7 DEF WithHidden, m
  <2>3. /\ WithHidden(q, Siblings(p))[Len(On(Panel(q))) + 1] = m /\ WithHidden(q, Siblings(p)) # <<>>
        /\ Len(WithHidden(q, Siblings(p))) = Len(On(Panel(q))) + 1 /\ Len(On(Panel(q))) \in Nat
    BY <2>1, <2>2
  <2>. QED BY <2>1, <2>2, <2>3 DEF m
<1>9. \A q \in Panels \ Hidden(Siblings(p)) : WithHidden(q, Siblings(p)) = On(Panel(q))
  BY DEF WithHidden
<1>10. \A q \in Panels : AfterHide(p, q) = <<>> <=> WithHidden(q, Siblings(p)) = <<>>
  BY <1>2, OrphanedIs DEF AfterHide
<1>11. MovesEnd'
  <2>1. HasEnd(p)' /\ (Attached(p) => ClearsBusy(p)')
    <3>1. /\ On(Panel(p))'[Len(AfterHide(p, p)) + 1] = h /\ Len(AfterHide(p, p)) \in Nat
          /\ Len(On(Panel(p))') = Len(AfterHide(p, p)) + 1
      BY <1>2, <1>3, <1>4
    <3>. QED BY <1>3, <3>1 DEF HasEnd, ClearsBusy, Panel
  <2>2. ASSUME NEW q \in Panels \ {p}, look'[q] = "collapsing"
        PROVE  HasEnd(q)'
    <3>1. WithHidden(q, Siblings(p)) # <<>>
      <4>1. CASE q \in Hidden(Siblings(p))
        BY <1>8, <4>1
      <4>2. CASE q \notin Hidden(Siblings(p))
        BY <1>1, <1>5, <1>9, <2>2, <4>2 DEF MovesEnd, HasEnd
      <4>. QED BY <4>1, <4>2
    <3>. QED BY <1>4, <1>10, <3>1 DEF HasEnd, Panel
  <2>3. ASSUME NEW q \in Panels \ {p}, data'[q] = "busy"
        PROVE  ClearsBusy(q)'
    <3>1. q \notin Forget(p) /\ On(Panel(q))' = WithHidden(q, Siblings(p))
      BY <1>4, <1>5, <2>3 DEF AfterHide
    <3>2. \E i \in 1..Len(WithHidden(q, Siblings(p))) : WithHidden(q, Siblings(p))[i].arg = TRUE
      <4>1. CASE q \in Hidden(Siblings(p))
        <5>2. Len(On(Panel(q))) \in Nat /\ Len(WithHidden(q, Siblings(p))) = Len(On(Panel(q))) + 1
          BY <1>8, <4>1
        <5>1. Len(On(Panel(q))) + 1 \in 1..Len(WithHidden(q, Siblings(p)))
          BY <5>2
        <5>. QED BY <1>8, <4>1, <5>1
      <4>2. CASE q \notin Hidden(Siblings(p))
        BY <1>1, <1>5, <1>9, <2>3, <3>1, <4>2 DEF MovesEnd, ClearsBusy
      <4>. QED BY <4>1, <4>2
    <3>. QED BY <3>1, <3>2 DEF ClearsBusy, Panel
  <2>4. data'[p] = "busy" => Attached(p)
    BY <1>5
  <2>. QED BY <2>1, <2>2, <2>3, <2>4 DEF MovesEnd
<1>12. ASSUME OneByOne
       PROVE  OneByOne'
  <2>0. Siblings(p) = Actives
    BY <1>12 DEF OneByOne, Siblings
  <2>1. Forget(p) = {} /\ \A q \in Panels : AfterHide(p, q) = WithHidden(q, Siblings(p))
    BY <1>12, <2>0, FirstActive DEF Forget, AfterHide, OneByOne, Actives
  <2>2. Attached(p)
    BY <2>1 DEF Attached
  <2>3. /\ On(Panel(p)) = <<>> /\ On(Panel(p))' = <<h>> /\ h.arg = TRUE
        /\ look'[p] = "collapsing" /\ data'[p] = "busy"
    <3>1. On(Panel(p)) = <<>>
      BY <1>6, <1>12 DEF OneByOne, HasEnd
    <3>2. AfterHide(p, p) = <<>>
      BY <1>6, <1>9, <2>1, <3>1
    <3>3. On(Panel(p))' = Append(<<>>, h)
      BY <1>4, <3>2
    <3>. QED BY <1>3, <1>5, <2>2, <3>1, <3>3
  <2>4. ASSUME NEW q \in Hidden(Siblings(p))
        PROVE  /\ On(Panel(q))' = <<Moves(q, "hidden", TRUE)>>
               /\ look'[q] = "collapsing" /\ data'[q] = "busy"
    <3>1. On(Panel(q)) = <<>>
      BY <1>6, <1>12 DEF OneByOne, HasEnd
    <3>2. On(Panel(q))' = Append(<<>>, Moves(q, "hidden", TRUE))
      BY <1>4, <1>6, <1>8, <2>1, <3>1
    <3>. QED BY <1>5, <1>6, <2>1, <3>2
  <2>5. ASSUME NEW q \in Panels \ {p}, q \notin Hidden(Siblings(p))
        PROVE  On(Panel(q))' = On(Panel(q)) /\ look'[q] = look[q] /\ data'[q] = data[q]
    <3>1. q \in Siblings(p) => data[q] # "none"
      BY <1>12, <2>0 DEF OneByOne, Actives
    <3>. QED BY <1>4, <1>5, <1>9, <2>1, <2>5, <3>1
  \* The panel that is open is the first one; the others are closing.
  <2>6. ASSUME NEW q \in Panels \ {p}
        PROVE  ~Comes(q)'
    <3>1. CASE q \in Hidden(Siblings(p))
      <4>1. PICK m : m = Moves(q, "hidden", TRUE)
        OBVIOUS
      <4>2. m.cb = "hidden" /\ On(Panel(q))' = <<m>> /\ look'[q] = "collapsing"
        BY <1>8, <2>4, <3>1, <4>1
      <4>3. ~Opening(q)'
        BY <4>2 DEF Opening
      <4>. QED BY <1>1, <4>2, <4>3 DEF Comes
    <3>2. CASE q \notin Hidden(Siblings(p))
      <4>1. look[q] # "open"
        BY <1>12, <2>0, <3>2 DEF OneByOne, Hidden, Actives
      <4>2. ~Opening(q)
        <5>1. SUFFICES ASSUME Opening(q) PROVE FALSE
          OBVIOUS
        <5>2. HasEnd(q)
          BY <1>7, <5>1 DEF Opening, HasEnd
        <5>3. q \in Actives
          BY <1>12, <5>2 DEF OneByOne, Actives
        <5>4. First \in Panels /\ look[First] = "open"
          BY <1>6, <1>12, <2>0, <5>3, FirstActive DEF OneByOne, Actives, CollapseTypes, CollapseTypeOK
        <5>. QED BY <1>12, <4>1, <5>1, <5>4 DEF OneByOne, Comes
      <4>. QED BY <1>1, <2>5, <3>2, <4>1, <4>2 DEF Comes, Opening, Panel
    <3>. QED BY <3>1, <3>2
  <2>7. OneEnd(p)'
    BY <1>1, <2>3 DEF OneEnd, Panel
  <2>8. ASSUME NEW q \in Hidden(Siblings(p)) PROVE OneEnd(q)'
    <3>1. PICK m : m = Moves(q, "hidden", TRUE)
      OBVIOUS
    <3>2. m.arg = TRUE /\ On(Panel(q))' = <<m>>
      BY <1>8, <2>4, <3>1
    <3>. QED BY <1>1, <3>2 DEF OneEnd
  <2>9. ASSUME NEW q \in Panels \ {p}, q \notin Hidden(Siblings(p))
        PROVE  OneEnd(q)' = OneEnd(q) /\ HasEnd(q)' = HasEnd(q)
    BY <1>1, <2>5, <2>9 DEF OneEnd, HasEnd, Panel
  \* Every active panel has its object, so that hiding makes none.
  <2>10. lone' = {}
    BY <1>12, <2>0 DEF OneByOne, Actives, ShowPanel
  <2>. QED BY <1>1, <1>6, <1>12, <2>3, <2>4, <2>5, <2>6, <2>7, <2>8, <2>9, <2>10 DEF OneByOne
<1>. QED BY <1>2, <1>11, <1>12

LEMMA CompleteStep ==
    ASSUME CollapseTypes, MovesEnd, NEW cb,
           NEW now \in {"open", "closed"}, now = "open" => cb = "shown",
           Complete(cb, now)
    PROVE  CollapseTypes' /\ MovesEnd' /\ (OneByOne => OneByOne')
<1>1. /\ running # <<>> /\ running \in Seq(PanelHandlers) /\ running[1].cb = cb
      /\ running[1] \in PanelHandlers /\ Tail(running) \in Seq(PanelHandlers)
      /\ running' = Tail(running) /\ Head(running) = running[1]
  BY CollapseFacts, PendingRuns DEF Complete, Runs, Free
<1>2. PICK p : p = running[1].n
  OBVIOUS
<1>3. p \in Panels /\ running[1].arg \in BOOLEAN
  BY <1>1, <1>2 DEF PanelHandlers, Handlers
<1>4. /\ look' = [look EXCEPT ![p] = now] /\ UNCHANGED <<waiting, loaded, lone>>
      /\ data' = IF running[1].arg THEN [data EXCEPT ![p] = "idle"] ELSE data
  BY <1>1, <1>2 DEF Complete
<1>5. /\ look \in [Panels -> {"closed", "collapsing", "open"}]
      /\ data \in [Panels -> {"none", "idle", "busy"}]
  BY DEF CollapseTypes, CollapseTypeOK
<1>6. /\ look'[p] = now /\ \A q \in Panels \ {p} : look'[q] = look[q] /\ data'[q] = data[q]
      /\ running[1].arg = TRUE => data'[p] = "idle"
      /\ running[1].arg # TRUE => data' = data
  BY <1>3, <1>4, <1>5
<1>7. \A d : On(d)' = On(d)
  BY <1>4 DEF On
<1>8. \A i \in 1..Len(running) : i # 1 => /\ i - 1 \in 1..Len(running')
                                          /\ running'[i - 1] = running[i]
  BY <1>1
<1>9. CollapseTypes'
  <2>1. CollapseTypeOK'
    <3>1. look' \in [Panels -> {"closed", "collapsing", "open"}]
      BY <1>4, <1>5
    <3>2. data' \in [Panels -> {"none", "idle", "busy"}]
      BY <1>3, <1>4, <1>5
    <3>. QED BY <1>4, <3>1, <3>2 DEF CollapseTypeOK, CollapseTypes
  <2>2. PendingTypeOK(PanelElements, PanelHandlers)'
    BY <1>1, <1>4, CollapseFacts DEF PendingTypeOK
  <2>3. CollapsePendingOK'
    BY <2>2 DEF CollapsePendingOK, PanelElements, PanelHandlers
  <2>4. \A q \in Panels : On(Panel(q))' = On(Panel(q))
    BY <1>7
  <2>. QED BY <2>1, <2>3, <2>4 DEF CollapseTypes, Panel
<1>10. MovesEnd'
  <2>1. ASSUME NEW q \in Panels, look'[q] = "collapsing"
        PROVE  HasEnd(q)'
    <3>1. q # p /\ HasEnd(q)
      BY <1>6, <2>1 DEF MovesEnd
    <3>. QED BY <1>2, <1>7, <1>8, <3>1 DEF HasEnd
  <2>2. ASSUME NEW q \in Panels, data'[q] = "busy"
        PROVE  ClearsBusy(q)'
    <3>1. ClearsBusy(q) /\ (running[1].n = q => running[1].arg # TRUE)
      BY <1>2, <1>6, <2>2 DEF MovesEnd
    <3>2. CASE \E i \in 1..Len(On(Panel(q))) : On(Panel(q))[i].arg = TRUE
      <4>1. On(Panel(q))' = On(Panel(q))
        BY <1>7
      <4>. QED BY <3>2, <4>1 DEF ClearsBusy
    <3>3. CASE \E i \in 1..Len(running) : running[i].n = q /\ running[i].arg = TRUE
      <4>1. PICK i \in 1..Len(running) : running[i].n = q /\ running[i].arg = TRUE
        BY <3>3
      <4>2. i - 1 \in 1..Len(running') /\ running'[i - 1] = running[i]
        BY <1>8, <3>1, <4>1
      <4>. QED BY <4>1, <4>2 DEF ClearsBusy
    <3>. QED BY <3>1, <3>2, <3>3 DEF ClearsBusy
  <2>. QED BY <2>1, <2>2 DEF MovesEnd
<1>11. ASSUME OneByOne
       PROVE  OneByOne'
  <2>1. Len(running) = 1 /\ running' = <<>>
    <3>1. Len(running) = 1
      <4>1. Len(running) <= 1
        BY <1>11 DEF OneByOne
      <4>2. Len(running) \in Nat /\ Len(running) # 0
        BY <1>1, NotEmpty
      <4>3. \A n \in Nat : n <= 1 /\ n # 0 => n = 1
        OBVIOUS
      <4>. QED BY <4>1, <4>2, <4>3, Zenon
    <3>2. Tail(running) \in Seq(PanelHandlers) /\ Len(Tail(running)) = 0
      BY <1>1, <3>1
    <3>. QED BY <1>1, <3>1, <3>2
  <2>2. HasEnd(p)
    BY <1>2, <2>1 DEF HasEnd
  <2>3. OneEnd(p) /\ data[p] = "busy"
    BY <1>3, <1>11, <2>2 DEF OneByOne
  <2>4. On(Panel(p)) = <<>> /\ running[1].arg = TRUE
    BY <1>1, <1>2, <2>3 DEF OneEnd
  <2>5. data'[p] = "idle" /\ ~HasEnd(p)'
    <3>1. On(Panel(p))' = <<>>
      BY <1>7, <2>4
    <3>. QED BY <1>6, <2>1, <2>4, <3>1 DEF HasEnd
  <2>6. ASSUME NEW q \in Panels \ {p}
        PROVE  /\ OneEnd(q) => OneEnd(q)'
               /\ HasEnd(q)' => HasEnd(q)
               /\ Comes(q)' => Comes(q)
    <3>1. On(Panel(q))' = On(Panel(q)) /\ look'[q] = look[q] /\ running[1].n # q
      BY <1>2, <1>6, <1>7
    <3>2. OneEnd(q) => OneEnd(q)'
      BY <2>1, <3>1 DEF OneEnd
    <3>3. HasEnd(q)' => HasEnd(q)
      BY <2>1, <3>1 DEF HasEnd
    <3>4. Opening(q)' <=> Opening(q)
      BY <3>1 DEF Opening
    <3>5. Comes(q)' => Comes(q)
      BY <2>1, <3>1, <3>4 DEF Comes
    <3>. QED BY <3>2, <3>3, <3>5
  <2>7. Comes(p)' => Comes(p)
    <3>1. ~Opening(p)'
      <4>1. On(Panel(p))' = <<>>
        BY <1>7, <2>4
      <4>. QED BY <4>1 DEF Opening
    <3>2. ~(\E i \in 1..Len(running') : running'[i].n = p /\ running'[i].cb = "shown")
      BY <2>1
    <3>3. Comes(p)' => cb = "shown"
      BY <1>6, <3>1, <3>2 DEF Comes
    <3>4. cb = "shown" => Comes(p)
      BY <1>1, <1>2, <2>1 DEF Comes
    <3>. QED BY <3>3, <3>4
  <2>8. \A q \in Panels : Comes(q)' => Comes(q)
    BY <2>6, <2>7
  <2>. QED BY <1>4, <1>6, <1>11, <2>1, <2>5, <2>6, <2>8 DEF OneByOne
<1>. QED BY <1>9, <1>10, <1>11

LEMMA PanelEnds ==
    ASSUME CollapseTypes, MovesEnd, Ends({"panel"}), UNCHANGED collapseVars
    PROVE  CollapseTypes' /\ MovesEnd' /\ (OneByOne => OneByOne')
<1>1. PICK e \in DOMAIN waiting :
          /\ running = <<>> /\ running' = On(e)
          /\ \A d : On(d)' = IF d = e THEN <<>> ELSE On(d)
  BY OnEnds
<1>2. PICK p \in Panels : e = Panel(p)
  BY CollapseFacts
<1>3. /\ UNCHANGED <<loaded, look, data, lone>> /\ running' = On(Panel(p))
      /\ On(Panel(p))' = <<>> /\ On(Panel(p)) # <<>>
      /\ \A q \in Panels \ {p} : On(Panel(q))' = On(Panel(q))
  BY <1>1, <1>2, CollapseFacts, PanelIs DEF collapseVars
<1>4. /\ \A q \in Panels : On(Panel(q)) \in Seq(PanelHandlers)
      /\ \A q \in Panels : \A i \in 1..Len(On(Panel(q))) : On(Panel(q))[i].n = q
      /\ 1 \in 1..Len(On(Panel(p)))
  BY <1>3, CollapseFacts DEF CollapseTypes
<1>5. CollapseTypes'
  <2>1. PendingTypeOK(PanelElements, PanelHandlers)'
    BY CollapseFacts, PendingEnds
  <2>2. CollapsePendingOK'
    BY <2>1 DEF CollapsePendingOK, PanelElements, PanelHandlers
  <2>3. CollapseTypeOK'
    BY <1>3 DEF CollapseTypes, CollapseTypeOK
  <2>4. ASSUME NEW q \in Panels, NEW i \in 1..Len(On(Panel(q))')
        PROVE  On(Panel(q))'[i].n = q
    BY <1>3, <1>4, <2>4
  <2>. QED BY <2>2, <2>3, <2>4 DEF CollapseTypes
<1>6. \A q \in Panels : HasEnd(q)' <=> HasEnd(q)
  <2>1. HasEnd(p) /\ HasEnd(p)'
    BY <1>3, <1>4 DEF HasEnd
  <2>2. ASSUME NEW q \in Panels \ {p}
        PROVE  HasEnd(q)' <=> HasEnd(q)
    <3>1. On(Panel(q))' = On(Panel(q))
      BY <1>3
    <3>. QED BY <1>1, <1>3, <1>4, <3>1 DEF HasEnd
  <2>. QED BY <2>1, <2>2
<1>7. \A q \in Panels : ClearsBusy(q) => ClearsBusy(q)'
  <2>1. ClearsBusy(p) => ClearsBusy(p)'
    BY <1>1, <1>3, <1>4 DEF ClearsBusy
  <2>2. ASSUME NEW q \in Panels \ {p}
        PROVE  ClearsBusy(q) => ClearsBusy(q)'
    <3>1. On(Panel(q))' = On(Panel(q))
      BY <1>3
    <3>. QED BY <1>1, <3>1 DEF ClearsBusy
  <2>. QED BY <2>1, <2>2
<1>8. ASSUME OneByOne
      PROVE  OneByOne'
  <2>1. Len(On(Panel(p))) = 1 /\ On(Panel(p))[1].arg = TRUE /\ data[p] = "busy"
    <3>1. HasEnd(p)
      BY <1>3 DEF HasEnd
    <3>. QED BY <1>3, <1>8, <3>1 DEF OneByOne, OneEnd
  <2>2. Len(running') = 1 /\ running'[1].n = p /\ OneEnd(p)'
    <3>1. running' # <<>> /\ running'[1].n = p /\ running'[1].arg = TRUE
      BY <1>3, <1>4, <2>1
    <3>. QED BY <1>3, <2>1, <3>1 DEF OneEnd
  <2>3. Comes(p)' => Comes(p)
    <3>1. ~Opening(p)'
      BY <1>3 DEF Opening
    <3>2. (\E i \in 1..Len(running') : running'[i].cb = "shown") => Opening(p)
      BY <1>3, <1>4 DEF Opening
    <3>. QED BY <1>3, <3>1, <3>2 DEF Comes
  <2>4. ASSUME NEW q \in Panels \ {p}
        PROVE  (OneEnd(q) => OneEnd(q)') /\ (Comes(q)' => Comes(q))
    <3>1. On(Panel(q))' = On(Panel(q))
      BY <1>3
    <3>2. OneEnd(q) => OneEnd(q)'
      BY <1>1, <2>2, <3>1 DEF OneEnd
    <3>3. Opening(q)' <=> Opening(q)
      BY <3>1 DEF Opening
    <3>4. Comes(q)' => Comes(q)
      BY <1>3, <2>2, <3>3 DEF Comes
    <3>. QED BY <3>2, <3>4
  <2>. QED BY <1>3, <1>6, <1>8, <2>1, <2>2, <2>3, <2>4 DEF OneByOne
<1>. QED BY <1>3, <1>5, <1>6, <1>7, <1>8 DEF MovesEnd

LEMMA PanelTick ==
    ASSUME CollapseTypes, MovesEnd, Tick, UNCHANGED collapseVars
    PROVE  CollapseTypes' /\ MovesEnd' /\ (OneByOne => OneByOne')
<1>1. /\ running = <<>> /\ running' = <<>>
      /\ \A d : /\ On(d) \in Seq(PanelHandlers) /\ On(d)' \in Seq(PanelHandlers)
                /\ Len(On(d)') = Len(On(d))
                /\ \A i \in 1..Len(On(d)) : Same(On(d)[i], On(d)'[i])
  BY CollapseFacts, OnTick DEF PanelHandlers
<1>2. UNCHANGED <<loaded, look, data, lone>>
  BY DEF collapseVars
<1>3. CollapseTypes'
  <2>1. PendingTypeOK(PanelElements, PanelHandlers)'
    BY CollapseFacts, PendingTick DEF PanelHandlers
  <2>2. CollapsePendingOK'
    BY <2>1 DEF CollapsePendingOK, PanelElements, PanelHandlers
  <2>3. CollapseTypeOK'
    BY <1>2 DEF CollapseTypes, CollapseTypeOK
  <2>4. ASSUME NEW q \in Panels, NEW i \in 1..Len(On(Panel(q))')
        PROVE  On(Panel(q))'[i].n = q
    BY <1>1 DEF CollapseTypes, Same
  <2>. QED BY <2>2, <2>3, <2>4 DEF CollapseTypes
<1>4. ASSUME NEW q \in Panels
      PROVE  /\ HasEnd(q)' <=> HasEnd(q)
             /\ ClearsBusy(q) => ClearsBusy(q)'
             /\ OneEnd(q) => OneEnd(q)'
             /\ Comes(q)' => Comes(q)
  <2>1. /\ On(Panel(q)) \in Seq(PanelHandlers) /\ On(Panel(q))' \in Seq(PanelHandlers)
        /\ Len(On(Panel(q))') = Len(On(Panel(q)))
        /\ \A i \in 1..Len(On(Panel(q))) : Same(On(Panel(q))[i], On(Panel(q))'[i])
    BY <1>1
  <2>2. HasEnd(q)' <=> HasEnd(q)
    BY <1>1, <2>1 DEF HasEnd
  <2>3. ClearsBusy(q) => ClearsBusy(q)'
    BY <1>1, <2>1 DEF ClearsBusy, Same
  <2>4. OneEnd(q) => OneEnd(q)'
    <3>1. OneEnd(q) => Len(On(Panel(q))) = 1 /\ On(Panel(q))[1].arg = TRUE
      BY <1>1 DEF OneEnd
    <3>2. Len(On(Panel(q))) = 1 => On(Panel(q))'[1].arg = On(Panel(q))[1].arg
      BY <2>1 DEF Same
    <3>3. Len(On(Panel(q))') = 1 /\ On(Panel(q))'[1].arg = TRUE => OneEnd(q)'
      BY <1>1 DEF OneEnd
    <3>. QED BY <2>1, <3>1, <3>2, <3>3
  <2>5. Opening(q)' => Opening(q)
    BY <2>1 DEF Opening, Same
  <2>6. Comes(q)' => Comes(q)
    BY <1>1, <1>2, <2>5 DEF Comes
  <2>. QED BY <2>2, <2>3, <2>4, <2>6
<1>. QED BY <1>1, <1>2, <1>3, <1>4 DEF MovesEnd, OneByOne

LEMMA CollapseStep == CollapseInv /\ CollapseNext => CollapseInv'
<1>. SUFFICES ASSUME CollapseInv, CollapseNext
              PROVE  CollapseInv'
  OBVIOUS
<1>. USE DEF CollapseInv
<1>1. ASSUME NEW p \in Panels, Toggle(p)
      PROVE  CollapseInv'
  <2>1. CASE HidePanel(p)
    BY <1>1, <2>1, HideStep DEF Toggle
  <2>2. CASE ShowPanel(p)
    BY <1>1, <2>2, ShowStep DEF Toggle
  <2>3. CASE NotShown(p) /\ look[p] # "open"
    <3>1. /\ UNCHANGED <<running, loaded, look, lone, waiting>> /\ running = <<>>
          /\ data' = [data EXCEPT ![p] = IF @ = "none" THEN "idle" ELSE @]
      BY <1>1, <2>3 DEF Toggle, NotShown, Few, Free
    <3>2. CollapseTypes' /\ \A d : On(d)' = On(d)
      <4>1. CollapseTypeOK'
        BY <3>1 DEF CollapseTypes, CollapseTypeOK
      <4>2. CollapsePendingOK' /\ \A d : On(d)' = On(d)
        BY <3>1 DEF CollapseTypes, CollapsePendingOK, PendingTypeOK, On
      <4>. QED BY <4>1, <4>2 DEF CollapseTypes, Panel
    <3>3. \A q \in Panels : data'[q] = IF q = p /\ data[q] = "none" THEN "idle" ELSE data[q]
      BY <3>1 DEF CollapseTypes, CollapseTypeOK
    <3>4. ASSUME NEW q \in Panels
          PROVE  /\ HasEnd(q)' <=> HasEnd(q)
                 /\ ClearsBusy(q)' <=> ClearsBusy(q)
                 /\ OneEnd(q)' <=> OneEnd(q)
                 /\ Comes(q)' <=> Comes(q)
      BY <3>1 DEF HasEnd, ClearsBusy, OneEnd, Comes, Opening, On, Panel
    <3>5. MovesEnd'
      BY <3>1, <3>3, <3>4 DEF MovesEnd
    <3>6. OneByOne => OneByOne'
      BY <3>1, <3>3, <3>4 DEF OneByOne
    <3>. QED BY <3>1, <3>2, <3>5, <3>6
  <2>. QED BY <1>1, <2>1, <2>2, <2>3 DEF Toggle
<1>2. CASE (Ends({"panel"}) \/ Tick) /\ UNCHANGED collapseVars
  BY <1>2, PanelEnds, PanelTick DEF collapseVars
<1>3. CASE Complete("shown", "open") \/ Complete("hidden", "closed")
  BY <1>3, CompleteStep DEF Complete
<1>. QED BY <1>1, <1>2, <1>3 DEF CollapseNext, CollapseTimers

-----------------------------------------------------------------------------
(***************************************************************************)
(* The tooltip.  It is not wanted by a trigger: then it is not being       *)
(* entered; a leave that waits has its timer; and a tip in the document    *)
(* that waits for neither is about to be detached.                         *)
(***************************************************************************)
Detaches(s) == \E i \in 1..Len(s) : s[i].cb \in {"hidden", "destroy"}
NotWanted == ~destroyed /\ inState = {} /\ tip = "attached"

TooltipInv ==
    /\ TooltipTypeOK /\ TooltipPendingOK
    /\ destroyed => tip # "attached"
    /\ hoverState = "in" => inState # {}
    /\ hoverState = "out" => timeout = "hide" \/ destroyed
    /\ NotWanted /\ hoverState = "none" => Detaches(On(Tip)) \/ Detaches(running)

TipHandlers == Handlers({0}, {"shown", "hidden", "destroy"}, {0})

LEMMA TooltipStart == TransitionsInit /\ TooltipInit => TooltipInv
<1>. SUFFICES ASSUME TransitionsInit, TooltipInit
              PROVE  TooltipInv
  OBVIOUS
<1>1. TooltipTypeOK
  BY DEF TooltipInit, TooltipTypeOK
<1>2. TooltipPendingOK
  BY DEF TransitionsInit, TooltipPendingOK, PendingTypeOK
<1>. QED BY <1>1, <1>2 DEF TooltipInit, TooltipInv, NotWanted

LEMMA TooltipImplies == TooltipInv => NoTipLeftBehind
<1>. SUFFICES ASSUME TooltipInv, AtRest, timeout = "none", tip = "attached"
              PROVE  ~destroyed /\ inState # {}
  BY DEF NoTipLeftBehind
<1>1. On(Tip) = <<>> /\ running = <<>>
  BY DEF AtRest, On
<1>2. ~Detaches(On(Tip)) /\ ~Detaches(running)
  BY <1>1 DEF Detaches
<1>. QED BY <1>2 DEF TooltipInv, TooltipTypeOK, NotWanted

LEMMA TipFacts ==
    TooltipInv => /\ PendingTypeOK({Tip}, TipHandlers)
                  /\ running \in Seq(TipHandlers) /\ On(Tip) \in Seq(TipHandlers)
                  /\ \A d \in DOMAIN waiting : d = Tip
BY OnType DEF TooltipInv, TooltipPendingOK, PendingTypeOK, TipHandlers

\* What is registered leaves the handlers that detach where they are.
LEMMA TipWith ==
    ASSUME TooltipInv, NEW cb \in {"shown", "hidden", "destroy"},
           waiting' = With(Tip, Handler(0, cb, 0, 1)), running' \in Seq(TipHandlers)
    PROVE  /\ TooltipPendingOK'
           /\ Detaches(On(Tip)) => Detaches(On(Tip))'
           /\ cb # "shown" => Detaches(On(Tip))'
<1>. DEFINE h == Handler(0, cb, 0, 1)
<1>1. h \in TipHandlers /\ h.cb = cb
  BY DEF Handler, TipHandlers, Handlers
<1>. HIDE DEF h
<1>2. waiting' = With(Tip, h)
  BY DEF h
<1>3. PendingTypeOK({Tip}, TipHandlers)'
  BY <1>1, <1>2, TipFacts, PendingWith
<1>4. On(Tip)' = Append(On(Tip), h) /\ On(Tip) \in Seq(TipHandlers)
  BY <1>2, OnWith, TipFacts
<1>5. /\ Len(On(Tip)') = Len(On(Tip)) + 1 /\ Len(On(Tip)) \in Nat
      /\ On(Tip)'[Len(On(Tip)) + 1] = h
      /\ \A i \in 1..Len(On(Tip)) : On(Tip)'[i] = On(Tip)[i]
  BY <1>1, <1>4
<1>6. Detaches(On(Tip)) => Detaches(On(Tip))'
  BY <1>5 DEF Detaches
<1>7. cb # "shown" => Detaches(On(Tip))'
  BY <1>1, <1>5 DEF Detaches
<1>. QED BY <1>3, <1>6, <1>7 DEF TooltipPendingOK, TipHandlers

LEMMA TipSame ==
    ASSUME TooltipInv, waiting' = waiting, running' \in Seq(TipHandlers)
    PROVE  TooltipPendingOK' /\ (Detaches(On(Tip))' <=> Detaches(On(Tip)))
<1>1. PendingTypeOK({Tip}, TipHandlers)' /\ On(Tip)' = On(Tip)
  BY TipFacts DEF PendingTypeOK, On
<1>. QED BY <1>1 DEF TooltipPendingOK, TipHandlers, Detaches

LEMMA ShowTipStep ==
    ASSUME TooltipInv, ShowTip, running' = running
    PROVE  /\ TooltipPendingOK'
           /\ tip' \in {"none", "detached", "attached"} /\ tipIn' \in BOOLEAN
<1>1. running' \in Seq(TipHandlers)
  BY TipFacts
<1>2. CASE enabled
  BY <1>1, <1>2, TipWith DEF ShowTip
<1>3. CASE ~enabled
  BY <1>1, <1>3, TipSame DEF ShowTip, TooltipInv, TooltipTypeOK
<1>. QED BY <1>2, <1>3

LEMMA HideTipStep ==
    ASSUME TooltipInv, NEW cb \in {"hidden", "destroy"}, HideTip(cb),
           running' \in Seq(TipHandlers)
    PROVE  /\ TooltipPendingOK' /\ tip' = tip /\ tipIn' = FALSE /\ hoverState' = "none"
           /\ tip # "none" => Detaches(On(Tip))'
<1>1. CASE tip = "none"
  BY <1>1, TipSame DEF HideTip
<1>2. CASE tip # "none"
  BY <1>2, TipWith DEF HideTip
<1>. QED BY <1>1, <1>2 DEF HideTip

LEMMA EnterStep ==
    ASSUME TooltipInv, Enter, ~destroyed, UNCHANGED <<options, running>>,
           inState' \subseteq Triggers, inState' # {}
    PROVE  TooltipInv'
<1>1. running' \in Seq(TipHandlers)
  BY TipFacts
<1>2. /\ TooltipPendingOK' /\ timeout' \in {"show", "hide", "none"}
      /\ tip' \in {"none", "detached", "attached"} /\ tipIn' \in BOOLEAN
  <2>1. CASE tipIn \/ hoverState = "in" \/ delay
    BY <1>1, <2>1, TipSame DEF Enter, TooltipInv, TooltipTypeOK
  <2>2. CASE ~(tipIn \/ hoverState = "in" \/ delay)
    BY <2>2, ShowTipStep DEF Enter
  <2>. QED BY <2>1, <2>2
<1>3. hoverState' = "in" /\ destroyed' = FALSE /\ delay' \in Delays /\ enabled' \in BOOLEAN
  BY DEF Enter, options, TooltipInv, TooltipTypeOK
<1>. QED BY <1>2, <1>3 DEF TooltipInv, TooltipTypeOK, NotWanted

LEMMA LeaveStep ==
    ASSUME TooltipInv, ~destroyed, inState' \subseteq Triggers, Leave(inState'),
           UNCHANGED options, running' \in Seq(TipHandlers)
    PROVE  TooltipInv'
<1>1. /\ destroyed' = FALSE /\ delay' \in Delays /\ enabled' \in BOOLEAN
      /\ TooltipTypeOK
  BY DEF options, TooltipInv, TooltipTypeOK
<1>2. CASE inState' # {}
  <2>1. UNCHANGED <<hoverState, timeout, tip, tipIn, waiting>>
    BY <1>2 DEF Leave
  <2>. QED BY <1>1, <1>2, <2>1, TipSame DEF TooltipInv, TooltipTypeOK, NotWanted
<1>3. CASE inState' = {} /\ delay
  <2>1. timeout' = "hide" /\ hoverState' = "out" /\ UNCHANGED <<tip, tipIn, waiting>>
    BY <1>3 DEF Leave
  <2>. QED BY <1>1, <1>3, <2>1, TipSame DEF TooltipInv, TooltipTypeOK
<1>4. CASE inState' = {} /\ ~delay
  <2>1. timeout' = "none" /\ HideTip("hidden")
    BY <1>4 DEF Leave
  <2>2. /\ TooltipPendingOK' /\ tip' = tip /\ tipIn' = FALSE /\ hoverState' = "none"
        /\ tip # "none" => Detaches(On(Tip))'
    BY <2>1, HideTipStep
  <2>. QED BY <1>1, <1>4, <2>1, <2>2 DEF TooltipInv, TooltipTypeOK, NotWanted
<1>. QED BY <1>2, <1>3, <1>4

LEMMA TooltipStep == TooltipInv /\ TooltipNext => TooltipInv'
<1>. SUFFICES ASSUME TooltipInv, TooltipNext
              PROVE  TooltipInv'
  OBVIOUS
<1>1. /\ TooltipTypeOK /\ running \in Seq(TipHandlers) /\ On(Tip) \in Seq(TipHandlers)
      /\ PendingTypeOK({Tip}, TipHandlers)
  BY TipFacts DEF TooltipInv
<1>2. ASSUME NEW t \in Triggers, EnterEvent(t)
      PROVE  TooltipInv'
  <2>1. inState' \subseteq Triggers /\ inState' # {}
    BY <1>1, <1>2 DEF EnterEvent, TooltipTypeOK
  <2>. QED BY <1>2, <2>1, EnterStep DEF EnterEvent, Event, options
<1>3. ASSUME NEW t \in Triggers, LeaveEvent(t)
      PROVE  TooltipInv'
  <2>1. inState' \subseteq Triggers
    BY <1>1, <1>3 DEF LeaveEvent, TooltipTypeOK
  <2>. QED BY <1>1, <1>3, <2>1, LeaveStep DEF LeaveEvent, Event
<1>4. CASE ClickEvent
  <2>1. inState' \subseteq Triggers
    BY <1>1, <1>4 DEF ClickEvent, TooltipTypeOK
  <2>2. CASE inState' # {}
    BY <1>4, <2>1, <2>2, EnterStep DEF ClickEvent, Event, options
  <2>3. CASE inState' = {}
    BY <1>1, <1>4, <2>1, <2>3, LeaveStep DEF ClickEvent, Event
  <2>. QED BY <2>2, <2>3
<1>5. CASE HideCall
  <2>1. /\ HideTip("hidden") /\ UNCHANGED <<options, inState, timeout>> /\ running' = running
        /\ ~destroyed
    BY <1>5 DEF HideCall, Event
  <2>2. /\ TooltipPendingOK' /\ tip' = tip /\ tipIn' = FALSE /\ hoverState' = "none"
        /\ tip # "none" => Detaches(On(Tip))'
    BY <1>1, <2>1, HideTipStep
  <2>. QED BY <1>1, <2>1, <2>2 DEF TooltipInv, TooltipTypeOK, NotWanted, options
<1>6. CASE ToggleEnabled
  <2>1. /\ UNCHANGED <<running, waiting, delay, inState, hoverState, timeout, tip, tipIn,
                       destroyed>>
        /\ enabled' \in BOOLEAN
    BY <1>6 DEF ToggleEnabled, Event
  <2>. QED BY <1>1, <2>1, TipSame DEF TooltipInv, TooltipTypeOK, NotWanted
<1>7. CASE Destroy
  <2>1. /\ HideTip("destroy") /\ timeout' = "none" /\ destroyed' = (tip = "none")
        /\ UNCHANGED <<running, delay, enabled, inState>>
    BY <1>7 DEF Destroy, Event
  <2>2. /\ TooltipPendingOK' /\ tip' = tip /\ tipIn' = FALSE /\ hoverState' = "none"
        /\ tip # "none" => Detaches(On(Tip))'
    BY <1>1, <2>1, HideTipStep
  <2>. QED BY <1>1, <2>1, <2>2 DEF TooltipInv, TooltipTypeOK, NotWanted
<1>8. CASE Timeout
  <2>1. /\ timeout' = "none" /\ UNCHANGED <<running, options, inState>>
        /\ timeout # "none"
    BY <1>8 DEF Timeout
  <2>2. CASE timeout = "show" /\ hoverState = "in" /\ ~destroyed
             /\ ShowTip /\ UNCHANGED hoverState
    BY <1>1, <2>1, <2>2, ShowTipStep DEF TooltipInv, TooltipTypeOK, NotWanted, options
  <2>3. CASE timeout = "hide" /\ hoverState = "out" /\ ~destroyed /\ HideTip("hidden")
    <3>1. /\ TooltipPendingOK' /\ tip' = tip /\ tipIn' = FALSE /\ hoverState' = "none"
          /\ tip # "none" => Detaches(On(Tip))'
      BY <1>1, <2>1, <2>3, HideTipStep
    <3>. QED BY <1>1, <2>1, <2>3, <3>1 DEF TooltipInv, TooltipTypeOK, NotWanted, options
  <2>4. CASE /\ \/ destroyed
                \/ timeout = "show" /\ hoverState # "in"
                \/ timeout = "hide" /\ hoverState # "out"
             /\ UNCHANGED <<waiting, hoverState, tip, tipIn>>
    <3>1. TooltipPendingOK' /\ (Detaches(On(Tip))' <=> Detaches(On(Tip)))
      BY <1>1, <2>1, <2>4, TipSame
    <3>2. Detaches(running)' <=> Detaches(running)
      BY <2>1 DEF Detaches
    <3>3. TooltipTypeOK'
      BY <1>1, <2>1, <2>4 DEF TooltipTypeOK, options
    <3>4. UNCHANGED <<destroyed, inState, hoverState, tip>> /\ (hoverState = "out" => destroyed)
      BY <2>1, <2>4 DEF options, TooltipInv
    <3>. QED BY <3>1, <3>2, <3>3, <3>4 DEF TooltipInv, NotWanted
  <2>. QED BY <1>8, <2>2, <2>3, <2>4 DEF Timeout
<1>9. CASE ShownDone
  <2>1. /\ running # <<>> /\ running[1].cb = "shown" /\ Tail(running) \in Seq(TipHandlers)
        /\ running' = IF destroyed THEN <<>> ELSE Tail(running)
        /\ UNCHANGED <<options, inState>>
    BY <1>1, <1>9, PendingRuns DEF ShownDone, Free
  <2>2. running' \in Seq(TipHandlers)
    BY <2>1
  <2>3. CASE hoverState = "out" /\ ~destroyed /\ inState = {}
    <3>1. Leave(inState')
      BY <1>9, <2>1, <2>3 DEF ShownDone
    <3>2. inState' \subseteq Triggers
      BY <1>1, <2>1 DEF TooltipTypeOK
    <3>. QED BY <2>1, <2>2, <2>3, <3>1, <3>2, LeaveStep
  <2>4. CASE ~(hoverState = "out" /\ ~destroyed /\ inState = {})
    <3>1. /\ hoverState' = IF destroyed THEN hoverState ELSE "none"
          /\ UNCHANGED <<timeout, tip, tipIn, waiting>>
      BY <1>9, <2>4 DEF ShownDone
    <3>2. TooltipPendingOK' /\ (Detaches(On(Tip))' <=> Detaches(On(Tip)))
      BY <2>2, <3>1, TipSame
    <3>3. ~destroyed => (Detaches(running) => Detaches(running)')
      <4>1. ASSUME ~destroyed, NEW i \in 1..Len(running), running[i].cb \in {"hidden", "destroy"}
            PROVE  i - 1 \in 1..Len(running') /\ running'[i - 1] = running[i]
        BY <1>1, <2>1, <4>1
      <4>. QED BY <4>1 DEF Detaches
    <3>4. TooltipTypeOK'
      BY <1>1, <2>1, <3>1 DEF TooltipTypeOK, options
    <3>. QED BY <1>1, <2>1, <2>4, <3>1, <3>2, <3>3, <3>4
             DEF TooltipInv, TooltipTypeOK, NotWanted, options
  <2>. QED BY <2>3, <2>4
<1>10. CASE HiddenDone
  <2>1. /\ running' \in Seq(TipHandlers) /\ tip' = IF hoverState # "in" THEN "detached" ELSE tip
        /\ UNCHANGED <<waiting, options, inState, hoverState, timeout, tipIn>>
    BY <1>1, <1>10, PendingRuns DEF HiddenDone, Runs, Free
  <2>. QED BY <1>1, <2>1, TipSame DEF TooltipInv, TooltipTypeOK, NotWanted, options
<1>11. CASE DestroyDone
  <2>1. /\ running' \in Seq(TipHandlers) /\ tip' = "detached" /\ destroyed' = TRUE
        /\ UNCHANGED <<waiting, delay, enabled, inState, hoverState, timeout, tipIn>>
    BY <1>1, <1>11, PendingRuns DEF DestroyDone, Free
  <2>. QED BY <1>1, <2>1, TipSame DEF TooltipInv, TooltipTypeOK, NotWanted
<1>12. CASE Ends(IF tip = "attached" THEN {"tip"} ELSE {}) /\ UNCHANGED tooltipVars
  <2>1. TooltipPendingOK'
    BY <1>1, <1>12, PendingEnds DEF TooltipPendingOK, TipHandlers
  <2>2. running = <<>> /\ running' = On(Tip)
    BY <1>12, OnEnds, TipFacts
  <2>3. ~Detaches(running) /\ (Detaches(On(Tip)) => Detaches(running)')
    BY <2>2 DEF Detaches
  <2>. QED BY <1>12, <2>1, <2>3 DEF TooltipInv, TooltipTypeOK, NotWanted, tooltipVars
<1>13. CASE Tick /\ UNCHANGED tooltipVars
  <2>1. TooltipPendingOK'
    BY <1>1, <1>13, PendingTick DEF TooltipPendingOK, TipHandlers
  <2>2. /\ running = <<>> /\ Len(On(Tip)') = Len(On(Tip))
        /\ \A i \in 1..Len(On(Tip)) : Same(On(Tip)[i], On(Tip)'[i])
    BY <1>1, <1>13, OnTick DEF TipHandlers
  <2>3. ~Detaches(running) /\ (Detaches(On(Tip)) => Detaches(On(Tip))')
    BY <2>2 DEF Detaches, Same
  <2>. QED BY <1>13, <2>1, <2>3 DEF TooltipInv, TooltipTypeOK, NotWanted, tooltipVars
<1>. QED BY <1>2, <1>3, <1>4, <1>5, <1>6, <1>7, <1>8, <1>9, <1>10, <1>11, <1>12, <1>13
         DEF TooltipNext, TooltipTimers

-----------------------------------------------------------------------------
(***************************************************************************)
(* The dialog, as long as it was not shown again while it was being        *)
(* hidden: the phases it passes through, and the one or two handlers that  *)
(* wait, or are being run, in each.  Those that tell the page that the     *)
(* dialog was shown may wait at any time.                                  *)
(***************************************************************************)
Cover == Backdrop(backdrop)
Covered == modalOpen /\ backdrop # 0 /\ backdrops = {backdrop} /\ originalPad = 0

AllShown(s) == \A i \in 1..Len(s) : s[i].cb = "shown"
One(s, cb) == Len(s) = 1 /\ s[1].cb = cb
Others(E) == DOMAIN waiting \subseteq {Dialog} \cup E

NoneWaits == AllShown(running) /\ Others({})
OneWaits(e, cb) == AllShown(running) /\ Others({e}) /\ One(On(e), cb)
OneRuns(cb) == One(running, cb) /\ Others({})

ModalIdle ==
    /\ ~isShown /\ ~displayed /\ ~modalOpen
    /\ backdrop = 0 /\ backdrops = {} /\ bodyPad = 0
    /\ listeners \subseteq {"focusin"}
    /\ NoneWaits
ModalAppears ==
    /\ isShown /\ ~displayed /\ Covered
    /\ {"escape", "resize", "dismiss"} \subseteq listeners
    /\ \/ OneWaits(Cover, "display") /\ On(Cover)[1].left <= 1
       \/ OneRuns("display")
ModalUp ==
    /\ isShown /\ displayed /\ inClass /\ Covered
    /\ listeners = Listeners
    /\ NoneWaits
\* The hide came before the dialog was displayed: that happens first.
ModalHurried ==
    /\ ~isShown /\ ~displayed /\ Covered
    /\ listeners = {}
    /\ One(On(Element), "hideModal")
    /\ \/ /\ AllShown(running) /\ Others({Cover, Element})
          /\ One(On(Cover), "display")
          /\ On(Cover)[1].left < On(Element)[1].left
       \/ One(running, "display") /\ Others({Element})
ModalHides ==
    /\ ~isShown /\ Covered
    /\ listeners \subseteq {"focusin"}
    /\ OneWaits(Element, "hideModal") \/ OneRuns("hideModal")
ModalUncovers ==
    /\ ~isShown /\ ~displayed /\ Covered
    /\ listeners \subseteq {"focusin"}
    /\ OneWaits(Cover, "removeBackdrop") \/ OneRuns("removeBackdrop")

ModalTypes ==
    /\ ModalTypeOK /\ ModalPendingOK
    /\ IsFiniteSet(backdrops)
    /\ AllShown(On(Dialog))

ModalPhase ==
    \/ ModalIdle \/ ModalAppears \/ ModalUp
    \/ ModalHurried \/ ModalHides \/ ModalUncovers

ModalInv == ModalTypes /\ (~overlap => ModalPhase)

ModalHandlers ==
    Handlers({0}, {"display", "shown", "hideModal", "removeBackdrop", "reset"}, {0})
ModalElements == {Element, Dialog} \cup {"backdrop"} \X Nat

LEMMA ModalStart == TransitionsInit /\ ModalInit => ModalInv
<1>. SUFFICES ASSUME TransitionsInit, ModalInit
              PROVE  ModalInv
  OBVIOUS
<1>1. AllShown(running) /\ AllShown(On(Dialog)) /\ DOMAIN waiting = {}
  BY DEF TransitionsInit, AllShown, On
<1>2. ModalPendingOK
  BY DEF TransitionsInit, ModalPendingOK, PendingTypeOK
<1>3. ModalTypeOK
  <2>1. {isShown, displayed, inClass, modalOpen, overlap} \subseteq BOOLEAN
    BY DEF ModalInit
  <2>2. shows \in 0..MaxShows
    BY ModalAssumption DEF ModalAssumption, ModalInit
  <2>. QED BY <2>1, <2>2 DEF ModalInit, ModalTypeOK
<1>4. IsFiniteSet(backdrops)
  BY FS_EmptySet DEF ModalInit
<1>5. ModalIdle
  BY <1>1 DEF ModalInit, ModalIdle, NoneWaits, Others
<1>. QED BY <1>1, <1>2, <1>3, <1>4, <1>5 DEF ModalInv, ModalTypes, ModalPhase

LEMMA ModalImplies == ModalInv => ModalSettles
<1>. SUFFICES ASSUME ModalInv, AtRest, ~overlap
              PROVE  ModalIdle \/ ModalUp
  BY DEF ModalSettles, ModalIdle, ModalUp, Covered
<1>1. running = <<>> /\ \A d : On(d) = <<>>
  BY DEF AtRest, On
<1>2. \A d, cb : ~One(On(d), cb) /\ ~One(running, cb)
  BY <1>1 DEF One
<1>. QED BY <1>2 DEF ModalInv, ModalPhase, ModalAppears, ModalHurried, ModalHides,
                     ModalUncovers, OneWaits, OneRuns

LEMMA ModalFacts ==
    ModalTypes => /\ ModalTypeOK
                  /\ PendingTypeOK(ModalElements, ModalHandlers)
                  /\ running \in Seq(ModalHandlers)
                  /\ \A d : /\ On(d) \in Seq(ModalHandlers)
                            /\ On(d) # <<>> <=> d \in DOMAIN waiting
BY OnType DEF ModalTypes, ModalPendingOK, PendingTypeOK, ModalElements, ModalHandlers

LEMMA ElementsDiffer ==
    /\ Element # Dialog
    /\ \A b : Backdrop(b) # Element /\ Backdrop(b) # Dialog
BY DEF Element, Dialog, Backdrop

LEMMA ModalHandlerIs ==
    ASSUME NEW cb \in {"display", "shown", "hideModal", "removeBackdrop", "reset"},
           NEW left \in Nat
    PROVE  /\ Handler(0, cb, 0, left) \in ModalHandlers
           /\ Handler(0, cb, 0, left).cb = cb /\ Handler(0, cb, 0, left).left = left
BY DEF Handler, ModalHandlers, Handlers

\* There is a number for a new backdrop.
LEMMA BackdropIsNew ==
    ASSUME IsFiniteSet(backdrops), NEW cb, AddBackdrop(cb)
    PROVE  \E b \in Nat \ {0} :
              /\ b \notin backdrops
              /\ backdrop' = b /\ backdrops' = backdrops \cup {b}
              /\ waiting' = With(Backdrop(b), Handler(0, cb, 0, 1))
<1>. DEFINE N == 1..(Cardinality(backdrops) + 1)
<1>1. Cardinality(backdrops) \in Nat
  BY FS_CardinalityType
<1>2. IsFiniteSet(N) /\ Cardinality(N) = Cardinality(backdrops) + 1
  BY <1>1, FS_Interval
<1>3. ~(N \subseteq backdrops)
  <2>1. N \subseteq backdrops => Cardinality(N) <= Cardinality(backdrops)
    BY FS_Subset
  <2>. QED BY <1>1, <1>2, <2>1
<1>. DEFINE b == CHOOSE n \in N : n \notin backdrops
<1>5. b \in N /\ b \notin backdrops
  <2>. HIDE DEF N
  <2>1. \E n \in N : n \notin backdrops
    BY <1>3
  <2>. QED BY <2>1
<1>6. b \in Nat \ {0}
  BY <1>1, <1>5
<1>7. /\ backdrop' = b /\ backdrops' = backdrops \cup {b}
      /\ waiting' = With(Backdrop(b), Handler(0, cb, 0, 1))
  BY DEF AddBackdrop, BACKDROP_TRANSITION_DURATION
<1>. HIDE DEF b
<1>. QED BY <1>5, <1>6, <1>7

LEMMA ModalWith ==
    ASSUME ModalTypes, NEW e \in ModalElements, NEW left \in Nat,
           NEW cb \in {"display", "shown", "hideModal", "removeBackdrop", "reset"},
           e = Dialog => cb = "shown",
           waiting' = With(e, Handler(0, cb, 0, left)), running' \in Seq(ModalHandlers)
    PROVE  ModalPendingOK' /\ AllShown(On(Dialog))'
<1>. DEFINE h == Handler(0, cb, 0, left)
<1>1. h \in ModalHandlers /\ h.cb = cb
  BY ModalHandlerIs
<1>. HIDE DEF h
<1>2. waiting' = With(e, h)
  BY DEF h
<1>3. PendingTypeOK(ModalElements, ModalHandlers)'
  BY <1>1, <1>2, ModalFacts, PendingWith
<1>4. On(Dialog)' = IF e = Dialog THEN Append(On(Dialog), h) ELSE On(Dialog)
  BY <1>2, OnWith
<1>5. AllShown(On(Dialog)) /\ On(Dialog) \in Seq(ModalHandlers)
  BY ModalFacts DEF ModalTypes
<1>6. AllShown(On(Dialog))'
  BY <1>1, <1>4, <1>5 DEF AllShown
<1>. QED BY <1>3, <1>6 DEF ModalPendingOK, ModalElements, ModalHandlers

LEMMA ModalSame ==
    ASSUME ModalTypes, waiting' = waiting, running' \in Seq(ModalHandlers)
    PROVE  ModalPendingOK' /\ AllShown(On(Dialog))'
<1>1. PendingTypeOK(ModalElements, ModalHandlers)' /\ On(Dialog)' = On(Dialog)
  BY ModalFacts DEF PendingTypeOK, On
<1>. QED BY <1>1 DEF ModalTypes, ModalPendingOK, ModalElements, ModalHandlers, AllShown

LEMMA ModalTypesStep == ModalTypes /\ ModalNext => ModalTypes'
<1>. SUFFICES ASSUME ModalTypes, ModalNext
              PROVE  ModalTypes'
  OBVIOUS
<1>. USE DEF ModalTypes
<1>1. /\ ModalTypeOK /\ running \in Seq(ModalHandlers)
      /\ PendingTypeOK(ModalElements, ModalHandlers)
      /\ {Element, Dialog} \subseteq ModalElements /\ \A b \in Nat : Backdrop(b) \in ModalElements
  BY ModalFacts DEF ModalElements, Backdrop
<1>2. ASSUME NEW cb \in {"display", "reset"}, AddBackdrop(cb), running' \in Seq(ModalHandlers)
      PROVE  /\ ModalPendingOK' /\ AllShown(On(Dialog))' /\ IsFiniteSet(backdrops)'
             /\ backdrop' \in {0} \cup backdrops' /\ backdrops' \subseteq Nat
  <2>1. PICK b \in Nat \ {0} :
              /\ b \notin backdrops
              /\ backdrop' = b /\ backdrops' = backdrops \cup {b}
              /\ waiting' = With(Backdrop(b), Handler(0, cb, 0, 1))
    BY <1>2, BackdropIsNew
  <2>2. ModalPendingOK' /\ AllShown(On(Dialog))'
    BY <1>1, <1>2, <2>1, ModalWith, ElementsDiffer
  <2>3. IsFiniteSet(backdrops)'
    BY <2>1, FS_AddElement
  <2>. QED BY <1>1, <2>1, <2>2, <2>3 DEF ModalTypeOK
<1>3. ASSUME NEW e \in ModalElements, NEW cb \in {"shown", "hideModal", "removeBackdrop"},
             NEW left \in Nat, e = Dialog => cb = "shown",
             waiting' = With(e, Handler(0, cb, 0, left)), running' \in Seq(ModalHandlers)
      PROVE  ModalPendingOK' /\ AllShown(On(Dialog))'
  BY <1>3, ModalWith
<1>4. ASSUME NEW cb, Runs(cb)
      PROVE  running' \in Seq(ModalHandlers)
  BY <1>1, <1>4, PendingRuns DEF Runs, Free
<1>5. CASE ModalShow
  <2>1. AddBackdrop("display") /\ running' \in Seq(ModalHandlers)
    BY <1>1, <1>5 DEF ModalShow
  <2>2. {bodyPad', originalPad'} \subseteq Nat
    BY <1>1, <1>5 DEF ModalShow, SetScrollbar, ModalTypeOK
  <2>3. shows' \in 0..MaxShows
    BY <1>1, <1>5, ModalAssumption DEF ModalShow, ModalTypeOK, ModalAssumption
  <2>4. /\ {isShown', displayed', inClass', modalOpen', overlap'} \subseteq BOOLEAN
        /\ listeners' \subseteq Listeners
    BY <1>1, <1>5 DEF ModalShow, ModalTypeOK, Listeners
  <2>. QED BY <1>2, <2>1, <2>2, <2>3, <2>4 DEF ModalTypeOK
<1>6. CASE ModalHide
  <2>1. /\ waiting' = With(Element, Handler(0, "hideModal", 0, 2))
        /\ running' \in Seq(ModalHandlers)
        /\ UNCHANGED <<displayed, backdrop, backdrops, modalOpen, bodyPad, originalPad,
                       overlap, shows>>
        /\ isShown' = FALSE /\ inClass' = FALSE /\ listeners' = {}
    BY <1>1, <1>6 DEF ModalHide, TRANSITION_DURATION
  <2>2. ModalTypeOK'
    BY <1>1, <2>1 DEF ModalTypeOK
  <2>. QED BY <1>1, <1>3, <2>1, <2>2, ElementsDiffer
<1>7. CASE Display
  <2>1. /\ waiting' = With(Dialog, Handler(0, "shown", 0, 2))
        /\ running' \in Seq(ModalHandlers)
        /\ UNCHANGED <<isShown, backdrop, backdrops, modalOpen, bodyPad, originalPad,
                       overlap, shows>>
        /\ displayed' = TRUE /\ inClass' = TRUE /\ listeners' = listeners \cup {"focusin"}
    BY <1>4, <1>7 DEF Display, TRANSITION_DURATION
  <2>2. ModalTypeOK'
    BY <1>1, <2>1 DEF ModalTypeOK, Listeners
  <2>. QED BY <1>1, <1>3, <2>1, <2>2
<1>8. CASE Shown
  <2>1. ModalTypeOK' /\ backdrops' = backdrops
    BY <1>1, <1>8 DEF Shown, modalVars, ModalTypeOK
  <2>. QED BY <1>4, <1>8, <2>1, ModalSame DEF Shown
<1>9. CASE HideModal
  <2>1. /\ running' \in Seq(ModalHandlers) /\ displayed' = FALSE
        /\ UNCHANGED <<isShown, inClass, originalPad, listeners, overlap, shows>>
    BY <1>4, <1>9 DEF HideModal
  <2>2. {isShown', displayed', inClass', overlap'} \subseteq BOOLEAN
        /\ originalPad' \in Nat /\ listeners' \subseteq Listeners /\ shows' \in 0..MaxShows
    BY <1>1, <2>1 DEF ModalTypeOK
  <2>3. CASE AddBackdrop("reset") /\ UNCHANGED <<modalOpen, bodyPad>>
    BY <1>1, <1>2, <2>1, <2>2, <2>3 DEF ModalTypeOK
  <2>4. CASE /\ waiting' = With(Backdrop(backdrop), Handler(0, "removeBackdrop", 0, 1))
             /\ UNCHANGED <<backdrop, backdrops, modalOpen, bodyPad>>
    <3>1. backdrop \in Nat
      <4>1. backdrop \in {0} \cup backdrops /\ backdrops \subseteq Nat
        BY <1>1 DEF ModalTypeOK
      <4>. QED BY <4>1
    <3>2. ModalPendingOK' /\ AllShown(On(Dialog))'
      BY <1>1, <1>3, <2>1, <2>4, <3>1, ElementsDiffer
    <3>. QED BY <1>1, <2>2, <2>4, <3>2 DEF ModalTypeOK
  <2>5. CASE ResetBody /\ UNCHANGED <<waiting, backdrop, backdrops>>
    BY <1>1, <2>1, <2>2, <2>5, ModalSame DEF ModalTypeOK, ResetBody
  <2>. QED BY <1>9, <2>3, <2>4, <2>5 DEF HideModal, BACKDROP_TRANSITION_DURATION
<1>10. CASE RemoveBackdrop
  <2>1. /\ running' \in Seq(ModalHandlers) /\ waiting' = Without(Backdrop(backdrop))
        /\ backdrops' = backdrops \ {backdrop} /\ backdrop' = 0 /\ ResetBody
        /\ UNCHANGED <<isShown, displayed, inClass, originalPad, listeners, overlap, shows>>
    BY <1>4, <1>10 DEF RemoveBackdrop
  <2>2. PendingTypeOK(ModalElements, ModalHandlers)'
    BY <1>1, <2>1, PendingWithout
  <2>3. ModalPendingOK'
    BY <2>2 DEF ModalPendingOK, ModalElements, ModalHandlers
  <2>4. AllShown(On(Dialog))'
    <3>1. On(Dialog)' = On(Dialog)
      BY <2>1, OnWithout, ElementsDiffer
    <3>. QED BY <3>1 DEF AllShown
  <2>5. IsFiniteSet(backdrops)'
    BY <2>1, FS_RemoveElement
  <2>6. ModalTypeOK'
    BY <1>1, <2>1 DEF ModalTypeOK, ResetBody
  <2>. QED BY <2>3, <2>4, <2>5, <2>6
<1>11. CASE Reset
  <2>1. /\ running' \in Seq(ModalHandlers) /\ ResetBody
        /\ UNCHANGED <<waiting, isShown, displayed, inClass, backdrop, backdrops,
                       originalPad, listeners, overlap, shows>>
    BY <1>4, <1>11 DEF Reset
  <2>2. ModalTypeOK' /\ backdrops' = backdrops
    BY <1>1, <2>1 DEF ModalTypeOK, ResetBody
  <2>. QED BY <2>1, <2>2, ModalSame
<1>12. CASE (Ends(ModalRendered) \/ Tick) /\ UNCHANGED modalVars
  <2>1. ModalTypeOK' /\ backdrops' = backdrops
    BY <1>1, <1>12 DEF modalVars, ModalTypeOK
  <2>2. ModalPendingOK'
    <3>1. PendingTypeOK(ModalElements, ModalHandlers)'
      BY <1>1, <1>12, PendingEnds, PendingTick DEF ModalHandlers
    <3>. QED BY <3>1 DEF ModalPendingOK, ModalElements, ModalHandlers
  <2>3. AllShown(On(Dialog))'
    <3>1. CASE Ends(ModalRendered)
      <4>1. On(Dialog)' = On(Dialog) \/ On(Dialog)' = <<>>
        BY <3>1, OnEnds
      <4>. QED BY <4>1 DEF AllShown
    <3>2. CASE Tick
      <4>1. /\ Len(On(Dialog)') = Len(On(Dialog))
            /\ \A i \in 1..Len(On(Dialog)) : Same(On(Dialog)[i], On(Dialog)'[i])
        BY <1>1, <3>2, OnTick DEF ModalHandlers
      <4>. QED BY <4>1 DEF AllShown, Same
    <3>. QED BY <1>12, <3>1, <3>2
  <2>. QED BY <2>1, <2>2, <2>3
<1>. QED BY <1>5, <1>6, <1>7, <1>8, <1>9, <1>10, <1>11, <1>12
         DEF ModalNext, ModalToggle, ModalTimers

\* How the patterns of handlers change.
LEMMA OneFacts ==
    ASSUME NEW s \in Seq(ModalHandlers)
    PROVE  /\ \A cb : One(s, cb) => s # <<>> /\ Tail(s) = <<>> /\ Head(s).cb = cb
           /\ AllShown(s) /\ s # <<>> => Head(s).cb = "shown" /\ AllShown(Tail(s))
<1>1. ASSUME NEW cb, One(s, cb) PROVE s # <<>> /\ Tail(s) = <<>> /\ Head(s).cb = cb
  <2>1. Len(s) = 1 /\ s[1].cb = cb
    BY <1>1 DEF One
  <2>2. s # <<>>
    <3>1. s = <<>> => Len(s) = 0
      OBVIOUS
    <3>. QED BY <2>1, <3>1
  <2>3. Tail(s) \in Seq(ModalHandlers) /\ Len(Tail(s)) = 0
    <3>1. Tail(s) \in Seq(ModalHandlers) /\ Len(Tail(s)) = Len(s) - 1
      BY <2>2
    <3>. QED BY <2>1, <3>1
  <2>4. Tail(s) = <<>>
    BY <2>3, EmptyIs
  <2>5. Head(s) = s[1]
    BY <2>2
  <2>. QED BY <2>1, <2>2, <2>4, <2>5
<1>2. ASSUME AllShown(s), s # <<>> PROVE Head(s).cb = "shown" /\ AllShown(Tail(s))
  <2>1. Len(s) \in Nat /\ Len(s) # 0 /\ Head(s) = s[1] /\ 1 \in 1..Len(s)
    BY <1>2, NotEmpty
  <2>2. Len(Tail(s)) = Len(s) - 1 /\ \A i \in 1..Len(Tail(s)) : Tail(s)[i] = s[i + 1]
    BY <1>2, <2>1
  <2>3. \A i \in 1..Len(Tail(s)) : i + 1 \in 1..Len(s)
    BY <2>1, <2>2
  <2>. QED BY <1>2, <2>1, <2>2, <2>3 DEF AllShown
<1>. QED BY <1>1, <1>2

LEMMA OneHides ==
    ASSUME ModalTypes, NEW e, NEW cb \in {"hideModal", "removeBackdrop"}, One(On(e), cb)
    PROVE  BeingHidden
<1>1. On(e) \in Seq(ModalHandlers) /\ On(e) # <<>>
  BY ModalFacts, OneFacts
<1>2. e \in DOMAIN waiting /\ waiting[e] = On(e) /\ 1 \in DOMAIN waiting[e]
  BY <1>1, ModalFacts DEF On, One
<1>. QED BY <1>2 DEF BeingHidden, One

\* A handler is registered on an element that had none.
LEMMA FirstHandler ==
    ASSUME NEW e, e \notin DOMAIN waiting, NEW left \in Nat,
           NEW cb \in {"display", "shown", "hideModal", "removeBackdrop", "reset"},
           waiting' = With(e, Handler(0, cb, 0, left))
    PROVE  /\ One(On(e)', cb) /\ On(e)'[1].left = left
           /\ DOMAIN waiting' = DOMAIN waiting \cup {e}
           /\ \A d : d # e => On(d)' = On(d)
<1>. DEFINE h == Handler(0, cb, 0, left)
<1>1. h.cb = cb /\ h.left = left
  BY ModalHandlerIs
<1>. HIDE DEF h
<1>2. /\ DOMAIN waiting' = DOMAIN waiting \cup {e}
      /\ \A d : On(d)' = IF d = e THEN Append(On(e), h) ELSE On(d)
  BY OnWith DEF h
<1>3. On(e)' = Append(<<>>, h)
  BY <1>2 DEF On
<1>4. On(e)' = <<h>>
  BY <1>3
<1>. QED BY <1>1, <1>2, <1>4 DEF One

LEMMA ModalPhaseStep == ModalInv /\ ModalNext /\ ~overlap' => ModalPhase'
<1>. SUFFICES ASSUME ModalInv, ModalNext, ~overlap'
              PROVE  ModalPhase'
  OBVIOUS
<1>1. /\ ModalTypes /\ ModalTypeOK /\ running \in Seq(ModalHandlers)
      /\ \A d : On(d) \in Seq(ModalHandlers) /\ (On(d) # <<>> <=> d \in DOMAIN waiting)
  BY ModalFacts DEF ModalInv
<1>2. /\ \A cb : One(running, cb) => /\ running # <<>> /\ Tail(running) = <<>>
                                     /\ Head(running).cb = cb
      /\ AllShown(running) /\ running # <<>> =>
            Head(running).cb = "shown" /\ AllShown(Tail(running))
  BY <1>1, OneFacts
<1>3. AllShown(<<>>)
  BY DEF AllShown
<1>4. CASE ModalShow
  <2>1. /\ running = <<>> /\ running' = <<>> /\ ~isShown /\ isShown' = TRUE
        /\ ~overlap /\ ~BeingHidden /\ displayed' = displayed
        /\ modalOpen' = TRUE /\ originalPad' = bodyPad
        /\ listeners' = listeners \cup {"escape", "resize", "dismiss"}
        /\ AddBackdrop("display")
    BY <1>4 DEF ModalShow, Free, SetScrollbar
  <2>2. ModalIdle
    <3>1. \A cb : ~One(running, cb)
      BY <1>2, <2>1
    <3>2. ~One(On(Element), "hideModal") /\ ~One(On(Cover), "removeBackdrop")
      BY <1>1, <2>1, OneHides
    <3>. QED BY <2>1, <3>1, <3>2
             DEF ModalInv, ModalPhase, ModalAppears, ModalUp, ModalHurried, ModalHides,
                 ModalUncovers, OneWaits, OneRuns
  <2>3. PICK b \in Nat \ {0} :
              /\ backdrop' = b /\ backdrops' = backdrops \cup {b}
              /\ waiting' = With(Backdrop(b), Handler(0, "display", 0, 1))
    BY <1>1, <2>1, BackdropIsNew DEF ModalTypes
  <2>4. Backdrop(b) \notin DOMAIN waiting
    BY <2>2, ElementsDiffer DEF ModalIdle, NoneWaits, Others
  <2>5. /\ One(On(Backdrop(b))', "display") /\ On(Backdrop(b))'[1].left = 1
        /\ DOMAIN waiting' = DOMAIN waiting \cup {Backdrop(b)}
    BY <2>3, <2>4, FirstHandler
  <2>6. Cover' = Backdrop(b)
    BY <2>3 DEF Cover, Backdrop
  <2>7. OneWaits(Cover, "display")' /\ On(Cover)'[1].left <= 1
    BY <1>3, <2>1, <2>2, <2>5, <2>6 DEF OneWaits, Others, ModalIdle, NoneWaits, Dialog
  <2>8. Covered'
    BY <2>1, <2>2, <2>3 DEF Covered, ModalIdle
  <2>. QED BY <2>1, <2>2, <2>7, <2>8 DEF ModalPhase, ModalAppears, ModalIdle
<1>5. CASE ModalHide
  <2>1. /\ running = <<>> /\ running' = <<>> /\ isShown /\ isShown' = FALSE
        /\ ~overlap /\ listeners' = {}
        /\ UNCHANGED <<displayed, backdrop, backdrops, modalOpen, originalPad>>
        /\ waiting' = With(Element, Handler(0, "hideModal", 0, 2))
    BY <1>5 DEF ModalHide, Free, TRANSITION_DURATION
  <2>2. \A cb : ~One(running, cb)
    BY <1>2, <2>1
  <2>3. \/ ModalUp
        \/ ModalAppears /\ OneWaits(Cover, "display") /\ On(Cover)[1].left <= 1
    BY <2>1, <2>2 DEF ModalInv, ModalPhase, ModalIdle, ModalAppears, ModalHurried, ModalHides,
                      ModalUncovers, OneRuns
  <2>4. Element \notin DOMAIN waiting /\ Cover # Element
    BY <2>3, ElementsDiffer
       DEF ModalUp, NoneWaits, OneWaits, Others, Cover
  <2>5. /\ One(On(Element)', "hideModal") /\ On(Element)'[1].left = 2
        /\ DOMAIN waiting' = DOMAIN waiting \cup {Element}
        /\ \A d : d # Element => On(d)' = On(d)
    BY <2>1, <2>4, FirstHandler
  <2>6. Covered' /\ Cover' = Cover
    BY <2>1, <2>3 DEF ModalUp, ModalAppears, Covered, Cover, Backdrop
  <2>7. CASE ModalUp
    <3>1. OneWaits(Element, "hideModal")'
      BY <1>3, <2>1, <2>5, <2>7
         DEF ModalUp, NoneWaits, OneWaits, Others, Dialog, Element
    <3>. QED BY <2>1, <2>6, <3>1 DEF ModalPhase, ModalHides
  <2>8. CASE ModalAppears /\ OneWaits(Cover, "display") /\ On(Cover)[1].left <= 1
    <3>1. On(Cover)' = On(Cover)
      BY <2>4, <2>5, <2>6
    <3>2. On(Cover)'[1].left < On(Element)'[1].left
      <4>1. On(Cover)[1].left \in Nat
        <5>1. On(Cover)[1] \in ModalHandlers
          <6>1. Len(On(Cover)) = 1 /\ On(Cover) \in Seq(ModalHandlers)
            BY <1>1, <2>8 DEF OneWaits, One
          <6>. QED BY <6>1
        <5>. QED BY <5>1 DEF ModalHandlers, Handlers
      <4>. QED BY <2>5, <2>8, <3>1, <4>1
    <3>3. One(On(Cover), "display")' /\ Others({Cover, Element})' /\ AllShown(running)'
      BY <1>3, <2>1, <2>5, <2>6, <2>8, <3>1
         DEF OneWaits, Others, One, Dialog, Element
    <3>4. One(On(Element), "hideModal")'
      BY <2>5 DEF One
    <3>. QED BY <2>1, <2>6, <2>8, <3>2, <3>3, <3>4 DEF ModalPhase, ModalHurried, ModalAppears
  <2>. QED BY <2>3, <2>7, <2>8
<1>. DEFINE Cb(cb) == /\ running # <<>> /\ Head(running).cb = cb /\ running' = Tail(running)
<1>6. CASE Display
  <2>1. /\ Cb("display") /\ ~overlap
        /\ displayed' = TRUE /\ inClass' = TRUE /\ listeners' = listeners \cup {"focusin"}
        /\ waiting' = With(Dialog, Handler(0, "shown", 0, TRANSITION_DURATION))
        /\ UNCHANGED <<isShown, backdrop, backdrops, modalOpen, originalPad>>
    BY <1>6 DEF Display, Runs, Free
  <2>2. \/ ModalAppears /\ OneRuns("display")
        \/ ModalHurried /\ One(running, "display") /\ Others({Element})
    <3>1. ~AllShown(running) /\ ~One(running, "hideModal") /\ ~One(running, "removeBackdrop")
      BY <1>2, <2>1
    <3>2. ModalPhase
      BY <2>1 DEF ModalInv
    <3>3. ~ModalIdle /\ ~ModalUp /\ ~ModalHides /\ ~ModalUncovers
      BY <3>1 DEF ModalIdle, ModalUp, ModalHides, ModalUncovers, NoneWaits, OneWaits, OneRuns
    <3>4. ModalAppears => OneRuns("display")
      BY <3>1 DEF ModalAppears, OneWaits
    <3>5. ModalHurried => One(running, "display") /\ Others({Element})
      BY <3>1 DEF ModalHurried
    <3>. QED BY <3>2, <3>3, <3>4, <3>5 DEF ModalPhase
  <2>3. running' = <<>>
    BY <1>2, <2>1, <2>2 DEF OneRuns
  <2>4. Covered'
    BY <2>1, <2>2 DEF ModalAppears, ModalHurried, Covered
  <2>5. DOMAIN waiting' = DOMAIN waiting \cup {Dialog} /\ On(Element)' = On(Element)
    BY <2>1, OnWith, ElementsDiffer
  <2>6. CASE ModalAppears /\ OneRuns("display")
    <3>1. NoneWaits'
      BY <1>3, <2>3, <2>5, <2>6 DEF NoneWaits, OneRuns, Others, Dialog
    <3>2. listeners' = Listeners
      BY <1>1, <2>1, <2>6 DEF ModalAppears, ModalTypeOK, Listeners
    <3>. QED BY <2>1, <2>4, <2>6, <3>1, <3>2 DEF ModalPhase, ModalUp, ModalAppears
  <2>7. CASE ModalHurried /\ One(running, "display") /\ Others({Element})
    <3>1. OneWaits(Element, "hideModal")'
      BY <1>3, <2>3, <2>5, <2>7 DEF OneWaits, ModalHurried, Others, Dialog, Element, One
    <3>. QED BY <2>1, <2>4, <2>7, <3>1 DEF ModalPhase, ModalHides, ModalHurried
  <2>. QED BY <2>2, <2>6, <2>7
<1>7. CASE Shown
  <2>1. Cb("shown") /\ UNCHANGED <<waiting, modalVars>> /\ ~overlap
    BY <1>7 DEF Shown, Runs, Free, modalVars
  <2>2. \A cb : cb # "shown" => ~One(running, cb)
    BY <1>2, <2>1
  <2>3. AllShown(running)
    BY <2>1, <2>2 DEF ModalInv, ModalPhase, ModalIdle, ModalAppears, ModalUp, ModalHurried,
                      ModalHides, ModalUncovers, NoneWaits, OneWaits, OneRuns
  <2>4. AllShown(running)'
    BY <1>2, <2>1, <2>3 DEF AllShown
  <2>5. /\ UNCHANGED <<isShown, displayed, inClass, backdrop, backdrops, modalOpen, bodyPad,
                       originalPad, listeners>>
        /\ \A d : On(d)' = On(d)
        /\ Cover' = Cover /\ Covered' = Covered
    BY <2>1 DEF modalVars, On, Cover, Covered, Backdrop
  <2>6. \A E : Others(E)' = Others(E)
    BY <2>1 DEF Others, Dialog
  <2>7. /\ On(Cover)' = On(Cover) /\ On(Element)' = On(Element)
        /\ \A cb : One(On(Cover), cb)' = One(On(Cover), cb)
        /\ \A cb : One(On(Element), cb)' = One(On(Element), cb)
    BY <2>5 DEF One
  <2>8. ModalIdle => ModalIdle'
    BY <2>1, <2>4, <2>5 DEF ModalIdle, NoneWaits, Others, Dialog
  <2>9. ModalUp => ModalUp'
    BY <2>1, <2>4, <2>5 DEF ModalUp, NoneWaits, Others, Dialog
  <2>10. ModalAppears => ModalAppears'
    BY <2>1, <2>2, <2>4, <2>5, <2>7 DEF ModalAppears, OneWaits, OneRuns, Others, Dialog
  <2>11. ModalHurried => ModalHurried'
    BY <2>1, <2>2, <2>4, <2>5, <2>7 DEF ModalHurried, Others, Dialog, Element
  <2>12. ModalHides => ModalHides'
    BY <2>1, <2>2, <2>4, <2>5, <2>7 DEF ModalHides, OneWaits, OneRuns, Others, Dialog, Element
  <2>13. ModalUncovers => ModalUncovers'
    BY <2>1, <2>2, <2>4, <2>5, <2>7 DEF ModalUncovers, OneWaits, OneRuns, Others, Dialog
  <2>. QED BY <2>1, <2>8, <2>9, <2>10, <2>11, <2>12, <2>13 DEF ModalInv, ModalPhase
<1>8. CASE HideModal
  <2>1. Cb("hideModal") /\ ~overlap /\ displayed' = FALSE
        /\ UNCHANGED <<isShown, listeners, originalPad>>
    BY <1>8 DEF HideModal, Runs, Free
  <2>2. ModalHides /\ OneRuns("hideModal")
    BY <1>2, <2>1 DEF ModalInv, ModalPhase, ModalIdle, ModalAppears, ModalUp, ModalHurried,
                      ModalHides, ModalUncovers, NoneWaits, OneWaits, OneRuns
  <2>3. running' = <<>>
    BY <1>2, <2>1, <2>2 DEF OneRuns
  <2>4. /\ waiting' = With(Cover, Handler(0, "removeBackdrop", 0, 1))
        /\ UNCHANGED <<backdrop, backdrops, modalOpen, bodyPad>>
    BY <1>8, <2>2 DEF HideModal, ModalHides, Covered, Cover, BACKDROP_TRANSITION_DURATION
  <2>5. Cover \notin DOMAIN waiting
    BY <2>2, ElementsDiffer DEF OneRuns, Others, Cover
  <2>6. One(On(Cover)', "removeBackdrop") /\ DOMAIN waiting' = DOMAIN waiting \cup {Cover}
        /\ Cover' = Cover /\ Covered'
    <3>1. PICK c : c = Cover
      OBVIOUS
    <3>2. One(On(c)', "removeBackdrop") /\ DOMAIN waiting' = DOMAIN waiting \cup {c}
      BY <2>4, <2>5, <3>1, FirstHandler
    <3>3. Cover' = Cover /\ Covered'
      BY <2>1, <2>2, <2>4 DEF Covered, Cover, ModalHides, Backdrop
    <3>. QED BY <3>1, <3>2, <3>3
  <2>7. OneWaits(Cover, "removeBackdrop")'
    BY <1>3, <2>2, <2>3, <2>6 DEF OneWaits, OneRuns, Others, Dialog
  <2>. QED BY <2>1, <2>2, <2>6, <2>7 DEF ModalPhase, ModalUncovers, ModalHides
<1>9. CASE RemoveBackdrop
  <2>1. /\ Cb("removeBackdrop") /\ ~overlap /\ ResetBody
        /\ UNCHANGED <<isShown, displayed, originalPad, listeners>>
        /\ waiting' = Without(Cover)
        /\ backdrops' = backdrops \ {backdrop} /\ backdrop' = 0
    BY <1>9 DEF RemoveBackdrop, Runs, Free, Cover
  <2>2. ModalUncovers /\ OneRuns("removeBackdrop")
    BY <1>2, <2>1 DEF ModalInv, ModalPhase, ModalIdle, ModalAppears, ModalUp, ModalHurried,
                      ModalHides, ModalUncovers, NoneWaits, OneWaits, OneRuns
  <2>3. running' = <<>>
    BY <1>2, <2>1, <2>2 DEF OneRuns
  <2>4. NoneWaits'
    BY <1>3, <2>1, <2>2, <2>3 DEF NoneWaits, OneRuns, Others, Without, Dialog
  <2>. QED BY <2>1, <2>2, <2>4 DEF ModalPhase, ModalIdle, ModalUncovers, Covered, ResetBody
<1>10. CASE Reset
  <2>1. Cb("reset") /\ ~overlap
    BY <1>10 DEF Reset, Runs, Free
  <2>. QED BY <1>2, <2>1 DEF ModalInv, ModalPhase, ModalIdle, ModalAppears, ModalUp, ModalHurried,
                             ModalHides, ModalUncovers, NoneWaits, OneWaits, OneRuns
<1>11. CASE Ends(ModalRendered) /\ UNCHANGED modalVars
  <2>1. PICK e \in DOMAIN waiting :
            /\ e[1] \in ModalRendered \/ \E i \in DOMAIN waiting[e] : waiting[e][i].left = 0
            /\ running = <<>> /\ running' = On(e)
            /\ DOMAIN waiting' = DOMAIN waiting \ {e}
            /\ \A d : On(d)' = IF d = e THEN <<>> ELSE On(d)
    <3>1. PICK e \in DOMAIN waiting :
              /\ e[1] \in ModalRendered \/ \E i \in DOMAIN waiting[e] : waiting[e][i].left = 0
              /\ EndOf(e) /\ running = <<>>
      BY <1>11 DEF Ends, Free
    <3>2. running' = On(e) /\ waiting' = Without(e)
      BY <3>1 DEF EndOf, On
    <3>. QED BY <3>1, <3>2, OnWithout
  <2>2. /\ UNCHANGED <<isShown, displayed, inClass, backdrop, backdrops, modalOpen, bodyPad,
                       originalPad, listeners>>
        /\ Cover' = Cover /\ Covered' = Covered /\ ~overlap
    BY <1>11 DEF modalVars, Cover, Covered, Backdrop
  <2>3. \A cb : ~One(running, cb)
    BY <1>2, <2>1
  <2>4. PICK c : c = Cover
    OBVIOUS
  <2>5. /\ c # Element /\ c # Dialog /\ Element # Dialog /\ Cover' = c
        /\ On(Cover)' = On(c)'
    BY <2>2, <2>4, ElementsDiffer DEF Cover
  <2>6. e = Dialog => AllShown(running)'
    BY <1>1, <2>1 DEF ModalTypes, AllShown
  <2>7. \A cb : One(On(e), cb) => One(running, cb)'
    BY <2>1 DEF One
  <2>8. \A d : d # e => On(d)' = On(d)
    BY <2>1
  <2>9. CASE ModalIdle
    BY <2>1, <2>2, <2>6, <2>9 DEF ModalPhase, ModalIdle, NoneWaits, Others, Dialog
  <2>10. CASE ModalUp
    BY <2>1, <2>2, <2>6, <2>10 DEF ModalPhase, ModalUp, NoneWaits, Others, Dialog
  <2>11. CASE ModalAppears
    <3>1. OneWaits(c, "display") /\ On(c)[1].left <= 1
      BY <2>3, <2>4, <2>11 DEF ModalAppears, OneRuns
    <3>2. CASE e = c
      <4>1. OneRuns("display")'
        BY <2>1, <2>7, <3>1, <3>2 DEF OneRuns, OneWaits, Others, Dialog
      <4>. QED BY <2>2, <2>11, <4>1 DEF ModalPhase, ModalAppears
    <3>3. CASE e # c
      <4>1. OneWaits(Cover, "display")' /\ On(Cover)'[1].left <= 1
        BY <2>1, <2>5, <2>6, <2>8, <3>1, <3>3 DEF OneWaits, Others, One, Dialog
      <4>. QED BY <2>2, <2>11, <4>1 DEF ModalPhase, ModalAppears
    <3>. QED BY <3>2, <3>3
  \* The dialog's timer is not due before the backdrop's.
  <2>12. CASE ModalHurried
    <3>1. /\ One(On(Element), "hideModal") /\ Others({c, Element}) /\ One(On(c), "display")
          /\ On(c)[1].left < On(Element)[1].left
      BY <2>3, <2>4, <2>12 DEF ModalHurried
    <3>2. e # Element
      <4>1. SUFFICES ASSUME e = Element PROVE FALSE
        OBVIOUS
      <4>2. waiting[e] = On(Element) /\ On(Element) \in Seq(ModalHandlers)
            /\ Len(On(Element)) = 1 /\ On(c) \in Seq(ModalHandlers) /\ Len(On(c)) = 1
        BY <1>1, <2>1, <3>1, <4>1 DEF On, One
      <4>3. On(c)[1] \in ModalHandlers /\ On(Element)[1] \in ModalHandlers
            /\ DOMAIN On(Element) = {1}
        BY <4>2
      <4>4. On(c)[1].left \in Nat /\ On(Element)[1].left \in Nat
        BY <4>3 DEF ModalHandlers, Handlers
      <4>5. e[1] \notin ModalRendered
        BY <2>12, <4>1 DEF ModalRendered, ModalHurried, Element
      <4>. QED BY <2>1, <3>1, <4>2, <4>3, <4>4, <4>5
    <3>3. On(Element)' = On(Element)
      BY <2>8, <3>2
    <3>4. CASE e = c
      <4>1. One(running, "display")' /\ Others({Element})' /\ One(On(Element), "hideModal")'
        BY <2>1, <2>7, <3>1, <3>3, <3>4 DEF Others, Dialog, Element, One
      <4>. QED BY <2>2, <2>12, <4>1 DEF ModalPhase, ModalHurried
    <3>5. CASE e # c
      <4>1. e = Dialog /\ On(Cover)' = On(c)
        BY <2>1, <2>5, <2>8, <3>1, <3>2, <3>5 DEF Others
      <4>2. AllShown(running)' /\ Others({Cover, Element})' /\ One(On(Cover), "display")'
            /\ On(Cover)'[1].left < On(Element)'[1].left /\ One(On(Element), "hideModal")'
        BY <2>1, <2>5, <2>6, <3>1, <3>3, <4>1 DEF Others, Dialog, Element, One
      <4>. QED BY <2>2, <2>12, <4>2 DEF ModalPhase, ModalHurried
    <3>. QED BY <3>4, <3>5
  <2>13. CASE ModalHides
    <3>1. OneWaits(Element, "hideModal")
      BY <2>3, <2>13 DEF ModalHides, OneRuns
    <3>2. CASE e = Element
      <4>1. OneRuns("hideModal")'
        BY <2>1, <2>7, <3>1, <3>2 DEF OneRuns, OneWaits, Others, Dialog
      <4>. QED BY <2>2, <2>13, <4>1 DEF ModalPhase, ModalHides
    <3>3. CASE e # Element
      <4>0. On(Element)' = On(Element)
        BY <2>8, <3>3
      <4>1. OneWaits(Element, "hideModal")'
        BY <2>1, <2>6, <3>1, <3>3, <4>0 DEF OneWaits, Others, One, Dialog, Element
      <4>. QED BY <2>2, <2>13, <4>1 DEF ModalPhase, ModalHides
    <3>. QED BY <3>2, <3>3
  <2>14. CASE ModalUncovers
    <3>1. OneWaits(c, "removeBackdrop")
      BY <2>3, <2>4, <2>14 DEF ModalUncovers, OneRuns
    <3>2. CASE e = c
      <4>1. OneRuns("removeBackdrop")'
        BY <2>1, <2>7, <3>1, <3>2 DEF OneRuns, OneWaits, Others, Dialog
      <4>. QED BY <2>2, <2>14, <4>1 DEF ModalPhase, ModalUncovers
    <3>3. CASE e # c
      <4>1. OneWaits(Cover, "removeBackdrop")'
        BY <2>1, <2>5, <2>6, <2>8, <3>1, <3>3 DEF OneWaits, Others, One, Dialog
      <4>. QED BY <2>2, <2>14, <4>1 DEF ModalPhase, ModalUncovers
    <3>. QED BY <3>2, <3>3
  <2>. QED BY <2>2, <2>9, <2>10, <2>11, <2>12, <2>13, <2>14 DEF ModalInv, ModalPhase
<1>12. CASE Tick /\ UNCHANGED modalVars
  <2>1. /\ running = <<>> /\ running' = <<>> /\ DOMAIN waiting' = DOMAIN waiting
        /\ \A d : /\ Len(On(d)') = Len(On(d))
                  /\ \A i \in 1..Len(On(d)) : /\ Same(On(d)[i], On(d)'[i])
                                               /\ On(d)'[i].left = On(d)[i].left - 1
    BY <1>1, <1>12, OnTick, ModalFacts DEF ModalHandlers
  <2>2. /\ UNCHANGED <<isShown, displayed, inClass, backdrop, backdrops, modalOpen, bodyPad,
                       originalPad, listeners>>
        /\ Cover' = Cover /\ Covered' = Covered /\ ~overlap
    BY <1>12 DEF modalVars, Cover, Covered, Backdrop
  <2>3. \A cb : ~One(running, cb)
    BY <1>2, <2>1
  <2>4. PICK c : c = Cover
    OBVIOUS
  <2>5. Cover' = c /\ On(Cover)' = On(c)'
    BY <2>2, <2>4
  <2>6. \A d, cb : One(On(d), cb) => /\ One(On(d)', cb)
                                     /\ On(d)[1].left \in Nat
                                     /\ On(d)'[1].left = On(d)[1].left - 1
    <3>1. ASSUME NEW d, NEW cb, One(On(d), cb)
          PROVE  /\ One(On(d)', cb) /\ On(d)[1].left \in Nat
                 /\ On(d)'[1].left = On(d)[1].left - 1
      <4>1. Len(On(d)) = 1 /\ On(d)[1].cb = cb /\ On(d) \in Seq(ModalHandlers)
        BY <1>1, <3>1 DEF One
      <4>2. On(d)[1] \in ModalHandlers
        BY <4>1
      <4>3. On(d)[1].left \in Nat
        BY <4>2 DEF ModalHandlers, Handlers
      <4>. QED BY <2>1, <4>1, <4>3 DEF One, Same
    <3>. QED BY <3>1
  <2>7. AllShown(running)'
    BY <1>3, <2>1 DEF AllShown
  <2>8. CASE ModalIdle
    BY <2>1, <2>2, <2>7, <2>8 DEF ModalPhase, ModalIdle, NoneWaits, Others, Dialog
  <2>9. CASE ModalUp
    BY <2>1, <2>2, <2>7, <2>9 DEF ModalPhase, ModalUp, NoneWaits, Others, Dialog
  <2>10. CASE ModalAppears
    <3>1. OneWaits(c, "display") /\ On(c)[1].left <= 1
      BY <2>3, <2>4, <2>10 DEF ModalAppears, OneRuns
    <3>2. One(On(c)', "display") /\ On(c)'[1].left <= 1
      BY <2>6, <3>1 DEF OneWaits
    <3>3. OneWaits(Cover, "display")' /\ On(Cover)'[1].left <= 1
      BY <2>1, <2>5, <2>7, <3>1, <3>2 DEF OneWaits, Others, One, Dialog
    <3>. QED BY <2>2, <2>10, <3>3 DEF ModalPhase, ModalAppears
  <2>11. CASE ModalHurried
    <3>1. /\ One(On(Element), "hideModal") /\ Others({c, Element}) /\ One(On(c), "display")
          /\ On(c)[1].left < On(Element)[1].left
      BY <2>3, <2>4, <2>11 DEF ModalHurried
    <3>2. /\ One(On(Element)', "hideModal") /\ One(On(c)', "display")
          /\ On(c)'[1].left < On(Element)'[1].left
      BY <2>6, <3>1
    <3>3. /\ Others({Cover, Element})' /\ One(On(Cover), "display")'
          /\ On(Cover)'[1].left < On(Element)'[1].left /\ One(On(Element), "hideModal")'
      BY <2>1, <2>5, <3>1, <3>2 DEF Others, One, Dialog, Element
    <3>. QED BY <2>2, <2>7, <2>11, <3>3 DEF ModalPhase, ModalHurried
  <2>12. CASE ModalHides
    <3>1. OneWaits(Element, "hideModal")
      BY <2>3, <2>12 DEF ModalHides, OneRuns
    <3>2. One(On(Element)', "hideModal")
      BY <2>6, <3>1 DEF OneWaits
    <3>3. OneWaits(Element, "hideModal")'
      BY <2>1, <2>7, <3>1, <3>2 DEF OneWaits, Others, One, Dialog, Element
    <3>. QED BY <2>2, <2>12, <3>3 DEF ModalPhase, ModalHides
  <2>13. CASE ModalUncovers
    <3>1. OneWaits(c, "removeBackdrop")
      BY <2>3, <2>4, <2>13 DEF ModalUncovers, OneRuns
    <3>2. One(On(c)', "removeBackdrop")
      BY <2>6, <3>1 DEF OneWaits
    <3>3. OneWaits(Cover, "removeBackdrop")'
      BY <2>1, <2>5, <2>7, <3>1, <3>2 DEF OneWaits, Others, One, Dialog
    <3>. QED BY <2>2, <2>13, <3>3 DEF ModalPhase, ModalUncovers
  <2>. QED BY <2>2, <2>8, <2>9, <2>10, <2>11, <2>12, <2>13 DEF ModalInv, ModalPhase
<1>. QED BY <1>4, <1>5, <1>6, <1>7, <1>8, <1>9, <1>10, <1>11, <1>12
         DEF ModalNext, ModalToggle, ModalTimers

LEMMA ModalStep == ModalInv /\ ModalNext => ModalInv'
BY ModalTypesStep, ModalPhaseStep DEF ModalInv

-----------------------------------------------------------------------------
(***************************************************************************)
(* The page.  The widget that is exercised keeps its invariant; the others *)
(* stay as they were loaded.                                               *)
(***************************************************************************)
PageInv ==
    /\ page \in Pages
    /\ IF page = "modal" THEN ModalInv ELSE ModalInit
    /\ IF page = "carousel" THEN CarouselInv ELSE CarouselInit
    /\ IF page = "accordion" THEN CollapseInv ELSE CollapseInit
    /\ IF page = "tooltip" THEN TooltipInv ELSE TooltipInit
    /\ IF page = "tabs" THEN TabInv ELSE TabInit
    /\ IF page = "alert" THEN AlertInv ELSE AlertInit
    /\ page # "accordion" => \A p \in Panels : Panel(p) \notin DOMAIN waiting

LEMMA PageStart == Init => PageInv
<1>. SUFFICES ASSUME Init
              PROVE  PageInv
  OBVIOUS
<1>1. \A p \in Panels : Panel(p) \notin DOMAIN waiting
  BY DEF Init, TransitionsInit
<1>. QED BY <1>1, ModalStart, CarouselStart, CollapseStart, TooltipStart, TabStart, AlertStart
         DEF Init, PageInv

LEMMA ModalStays ==
    /\ ModalInit /\ UNCHANGED modalVars => ModalInit'
    /\ ModalInv /\ UNCHANGED <<pending, modalVars>> => ModalInv'
<1>1. ModalInit /\ UNCHANGED modalVars => ModalInit'
  BY DEF ModalInit, modalVars
<1>2. ASSUME ModalInv, UNCHANGED <<pending, modalVars>>
      PROVE  ModalInv'
  <2>1. ModalTypeOK' /\ ModalPendingOK' /\ IsFiniteSet(backdrops)'
    BY <1>2 DEF ModalInv, ModalTypes, ModalTypeOK, ModalPendingOK, PendingTypeOK, pending,
                modalVars
  <2>2. /\ UNCHANGED <<isShown, displayed, inClass, backdrop, backdrops, modalOpen, bodyPad,
                       originalPad, listeners, overlap, waiting, running>>
    BY <1>2 DEF pending, modalVars
  <2>3. On(Dialog)' = On(Dialog) /\ On(Element)' = On(Element) /\ On(Cover)' = On(Cover)
    BY <2>2 DEF On, Cover, Dialog, Element, Backdrop
  <2>4. AllShown(On(Dialog))'
    BY <1>2, <2>3 DEF ModalInv, ModalTypes, AllShown
  <2>5. ModalPhase => ModalPhase'
    BY <2>2, <2>3
       DEF ModalPhase, ModalIdle, ModalAppears, ModalUp, ModalHurried, ModalHides,
           ModalUncovers, NoneWaits, OneWaits, OneRuns, Others, AllShown, One, Covered, Cover,
           Dialog, Element, Backdrop
  <2>. QED BY <1>2, <2>1, <2>2, <2>4, <2>5 DEF ModalInv, ModalTypes
<1>. QED BY <1>1, <1>2

LEMMA CarouselStays ==
    /\ CarouselInit /\ UNCHANGED carouselVars => CarouselInit'
    /\ CarouselInv /\ UNCHANGED <<pending, carouselVars>> => CarouselInv'
<1>1. CarouselInit /\ UNCHANGED carouselVars => CarouselInit'
  BY DEF CarouselInit, carouselVars
<1>2. ASSUME CarouselInv, UNCHANGED <<pending, carouselVars>>
      PROVE  CarouselInv'
  <2>1. CarouselTypeOK' /\ CarouselPendingOK' /\ NotPaused' /\ \A d : On(d)' = On(d)
    BY <1>2 DEF CarouselInv, CarouselTypes, CarouselTypeOK, CarouselPendingOK, PendingTypeOK,
                pending, carouselVars, NotPaused, On
  <2>2. On(SlidTimer)' = On(SlidTimer)
    BY <2>1
  <2>. QED BY <1>2, <2>1, <2>2
           DEF CarouselInv, CarouselTypes, Rests, Awaits, Arrives, SlidesFrom, OneSlide,
               NoSlide, pending, carouselVars, Item
<1>. QED BY <1>1, <1>2

LEMMA CollapseStays ==
    /\ CollapseInit /\ UNCHANGED collapseVars => CollapseInit'
    /\ CollapseInv /\ UNCHANGED <<pending, collapseVars>> => CollapseInv'
<1>1. CollapseInit /\ UNCHANGED collapseVars => CollapseInit'
  BY DEF CollapseInit, collapseVars
<1>2. ASSUME CollapseInv, UNCHANGED <<pending, collapseVars>>
      PROVE  CollapseInv'
  <2>1. UNCHANGED <<loaded, look, data, lone, waiting, running>>
    BY <1>2 DEF pending, collapseVars
  <2>2. CollapseTypes'
    <3>1. CollapseTypeOK' /\ CollapsePendingOK' /\ \A d : On(d)' = On(d)
      BY <1>2, <2>1 DEF CollapseInv, CollapseTypes, CollapseTypeOK, CollapsePendingOK,
                        PendingTypeOK, On
    <3>. QED BY <1>2, <3>1 DEF CollapseInv, CollapseTypes, Panel
  <2>3. ASSUME NEW q \in Panels
        PROVE  /\ HasEnd(q)' <=> HasEnd(q)
               /\ ClearsBusy(q)' <=> ClearsBusy(q)
               /\ OneEnd(q)' <=> OneEnd(q)
               /\ Comes(q)' <=> Comes(q)
    BY <2>1 DEF HasEnd, ClearsBusy, OneEnd, Comes, Opening, On, Panel
  <2>4. MovesEnd'
    BY <1>2, <2>1, <2>3 DEF CollapseInv, MovesEnd
  <2>5. OneByOne => OneByOne'
    BY <2>1, <2>3 DEF OneByOne
  <2>. QED BY <1>2, <2>1, <2>2, <2>4, <2>5 DEF CollapseInv
<1>. QED BY <1>1, <1>2

LEMMA TooltipStays ==
    /\ TooltipInit /\ UNCHANGED tooltipVars => TooltipInit'
    /\ TooltipInv /\ UNCHANGED <<pending, tooltipVars>> => TooltipInv'
<1>1. TooltipInit /\ UNCHANGED tooltipVars => TooltipInit'
  BY DEF TooltipInit, tooltipVars
<1>2. ASSUME TooltipInv, UNCHANGED <<pending, tooltipVars>>
      PROVE  TooltipInv'
  <2>1. TooltipTypeOK' /\ TooltipPendingOK' /\ On(Tip)' = On(Tip) /\ running' = running
    BY <1>2 DEF TooltipInv, TooltipTypeOK, TooltipPendingOK, PendingTypeOK, pending,
                tooltipVars, On
  <2>2. Detaches(On(Tip))' = Detaches(On(Tip)) /\ Detaches(running)' = Detaches(running)
    BY <2>1 DEF Detaches
  <2>. QED BY <1>2, <2>1, <2>2 DEF TooltipInv, NotWanted, tooltipVars
<1>. QED BY <1>1, <1>2

LEMMA TabStays ==
    /\ TabInit /\ UNCHANGED tabVars => TabInit'
    /\ TabInv /\ UNCHANGED <<pending, tabVars>> => TabInv'
BY DEF TabInit, TabInv, tabVars, pending, TabTypeOK, TabPendingOK, PendingTypeOK, LastFade,
       LastIs, On, Panes

LEMMA AlertStays ==
    /\ AlertInit /\ UNCHANGED alertVars => AlertInit'
    /\ AlertInv /\ UNCHANGED <<pending, alertVars>> => AlertInv'
BY DEF AlertInit, AlertInv, alertVars, pending, AlertTypeOK, AlertPendingOK, PendingTypeOK,
       ToldOnceClosed

\* No widget but the accordion has handlers on a panel.
LEMMA PanelsApart ==
    \A p : Panel(p) \notin ({Element, Dialog} \cup {"backdrop"} \X Nat)
                           \cup ({Item(i) : i \in Items} \cup {SlidTimer})
                           \cup {Tip, Panes, AlertElement}
BY DEF Panel, Element, Dialog, Item, SlidTimer, Tip, Panes, AlertElement

LEMMA PageStep == PageInv /\ [Next]_allVars => PageInv'
<1>. SUFFICES ASSUME PageInv, [Next]_allVars
              PROVE  PageInv'
  OBVIOUS
<1>. USE ModalStays, CarouselStays, CollapseStays, TooltipStays, TabStays, AlertStays
<1>1. CASE page = "modal" /\ ModalNext
           /\ UNCHANGED <<page, carouselVars, collapseVars, tooltipVars, tabVars, alertVars>>
  <2>1. ModalInv'
    BY <1>1, ModalStep DEF PageInv
  <2>2. \A p \in Panels : Panel(p) \notin DOMAIN waiting'
    BY <2>1, PanelsApart DEF ModalInv, ModalTypes, ModalPendingOK, PendingTypeOK
  <2>. QED BY <1>1, <2>1, <2>2 DEF PageInv
<1>2. CASE page = "carousel" /\ CarouselNext
           /\ UNCHANGED <<page, modalVars, collapseVars, tooltipVars, tabVars, alertVars>>
  <2>1. CarouselInv'
    BY <1>2, CarouselStep DEF PageInv
  <2>2. \A p \in Panels : Panel(p) \notin DOMAIN waiting'
    BY <2>1, PanelsApart DEF CarouselInv, CarouselTypes, CarouselPendingOK, PendingTypeOK
  <2>. QED BY <1>2, <2>1, <2>2 DEF PageInv
<1>3. CASE page = "accordion" /\ CollapseNext
           /\ UNCHANGED <<page, modalVars, carouselVars, tooltipVars, tabVars, alertVars>>
  <2>1. CollapseInv'
    BY <1>3, CollapseStep DEF PageInv
  <2>. QED BY <1>3, <2>1 DEF PageInv
<1>4. CASE page = "tooltip" /\ TooltipNext
           /\ UNCHANGED <<page, modalVars, carouselVars, collapseVars, tabVars, alertVars>>
  <2>1. TooltipInv'
    BY <1>4, TooltipStep DEF PageInv
  <2>2. \A p \in Panels : Panel(p) \notin DOMAIN waiting'
    BY <2>1, PanelsApart DEF TooltipInv, TooltipPendingOK, PendingTypeOK
  <2>. QED BY <1>4, <2>1, <2>2 DEF PageInv
<1>5. CASE page = "tabs" /\ TabNext
           /\ UNCHANGED <<page, modalVars, carouselVars, collapseVars, tooltipVars, alertVars>>
  <2>1. TabInv'
    BY <1>5, TabStep DEF PageInv
  <2>2. \A p \in Panels : Panel(p) \notin DOMAIN waiting'
    BY <2>1, PanelsApart DEF TabInv, TabPendingOK, PendingTypeOK
  <2>. QED BY <1>5, <2>1, <2>2 DEF PageInv
<1>6. CASE page = "alert" /\ AlertNext
           /\ UNCHANGED <<page, modalVars, carouselVars, collapseVars, tooltipVars, tabVars>>
  <2>1. AlertInv'
    BY <1>6, AlertStep DEF PageInv
  <2>2. \A p \in Panels : Panel(p) \notin DOMAIN waiting'
    BY <2>1, PanelsApart DEF AlertInv, AlertPendingOK, PendingTypeOK
  <2>. QED BY <1>6, <2>1, <2>2 DEF PageInv
<1>7. CASE UNCHANGED allVars
  <2>1. UNCHANGED <<page, pending, modalVars, carouselVars, collapseVars, tooltipVars, tabVars,
                    alertVars>>
    BY <1>7 DEF allVars
  <2>2. waiting' = waiting
    BY <2>1 DEF pending
  <2>3. (IF page = "modal" THEN ModalInv ELSE ModalInit)'
    BY <2>1 DEF PageInv
  <2>4. (IF page = "carousel" THEN CarouselInv ELSE CarouselInit)'
    BY <2>1 DEF PageInv
  <2>5. (IF page = "accordion" THEN CollapseInv ELSE CollapseInit)'
    BY <2>1 DEF PageInv
  <2>6. (IF page = "tooltip" THEN TooltipInv ELSE TooltipInit)'
    BY <2>1 DEF PageInv
  <2>7. (IF page = "tabs" THEN TabInv ELSE TabInit)'
    BY <2>1 DEF PageInv
  <2>8. (IF page = "alert" THEN AlertInv ELSE AlertInit)'
    BY <2>1 DEF PageInv
  <2>. QED BY <2>1, <2>2, <2>3, <2>4, <2>5, <2>6, <2>7, <2>8 DEF PageInv, Panel
<1>. QED BY <1>1, <1>2, <1>3, <1>4, <1>5, <1>6, <1>7 DEF Next, Only

LEMMA PageTypes == PageInv => TypeOK
<1>1. ModalInit => ModalTypeOK
  <2>1. ModalInit => shows \in 0..MaxShows
    BY ModalAssumption DEF ModalAssumption, ModalInit
  <2>2. ModalInit => {isShown, displayed, inClass, modalOpen, overlap} \subseteq BOOLEAN
    BY DEF ModalInit
  <2>. QED BY <2>1, <2>2 DEF ModalInit, ModalTypeOK
<1>2. CarouselInit => CarouselTypeOK
  <2>1. 0 \in Items /\ 0 \in 0..MaxClicks /\ HasInterval \in BOOLEAN
    BY CarouselAssumption DEF CarouselAssumption, Items
  <2>2. CarouselInit => {sliding, paused, interval} \subseteq BOOLEAN
    BY <2>1 DEF CarouselInit
  <2>3. <<>> \in Seq(Items)
    OBVIOUS
  <2>. QED BY <2>1, <2>2, <2>3 DEF CarouselInit, CarouselTypeOK
<1>3. CollapseInit => CollapseTypeOK
  BY DEF CollapseInit, CollapseTypeOK
<1>4. TooltipInit => TooltipTypeOK
  BY DEF TooltipInit, TooltipTypeOK
<1>5. TabInit => TabTypeOK
  BY TabAssumption DEF TabAssumption, TabInit, TabTypeOK
<1>6. AlertInit => AlertTypeOK
  BY DEF AlertInit, AlertTypeOK
<1>. QED BY <1>1, <1>2, <1>3, <1>4, <1>5, <1>6
         DEF TypeOK, PageInv, ModalInv, ModalTypes, CarouselInv, CarouselTypes, CollapseInv,
             CollapseTypes, TooltipInv, TabInv, AlertInv

LEMMA PageKeeps ==
    PageInv => /\ ModalSettles /\ OneItemShown /\ OnePanelOpen /\ PanelsSettle
               /\ NoTipLeftBehind /\ ActiveTabHasItsPane /\ ToldOnceClosed
<1>. SUFFICES ASSUME PageInv
              PROVE  /\ ModalSettles /\ OneItemShown /\ OnePanelOpen /\ PanelsSettle
                     /\ NoTipLeftBehind /\ ActiveTabHasItsPane /\ ToldOnceClosed
  OBVIOUS
<1>1. ModalSettles
  BY ModalImplies DEF PageInv, ModalInit, ModalSettles
<1>2. OneItemShown
  <2>1. Cardinality({0}) = 1
    BY FS_Singleton
  <2>2. CarouselInit => OneItemShown
    BY <2>1 DEF CarouselInit, OneItemShown
  <2>. QED BY <2>2, CarouselImplies DEF PageInv
<1>3. OnePanelOpen /\ PanelsSettle
  <2>1. CASE page = "accordion"
    BY <2>1, CollapseImplies DEF PageInv
  <2>2. CASE page # "accordion"
    <3>1. \A p \in Panels : data[p] = "none" /\ look[p] # "collapsing"
                            /\ (loaded = {} => look[p] = "closed")
      BY <2>2 DEF PageInv, CollapseInit
    <3>2. \A p \in Panels : ~Opening(p)
      BY <2>2 DEF PageInv, Opening, On
    <3>3. loaded = {} => {p \in Panels : look[p] = "open" \/ Opening(p)} = {}
      BY <3>1, <3>2
    <3>4. Cardinality({}) <= 1
      BY FS_EmptySet
    <3>. QED BY <3>1, <3>3, <3>4 DEF OnePanelOpen, PanelsSettle
  <2>. QED BY <2>1, <2>2
<1>4. NoTipLeftBehind
  BY TooltipImplies DEF PageInv, TooltipInit, NoTipLeftBehind
<1>5. ActiveTabHasItsPane
  BY TabImplies DEF PageInv, TabInit, ActiveTabHasItsPane
<1>6. ToldOnceClosed
  BY DEF PageInv, AlertInit, AlertInv, ToldOnceClosed
<1>. QED BY <1>1, <1>2, <1>3, <1>4, <1>5, <1>6

LEMMA PageInvariant == Spec => []PageInv
BY PageStart, PageStep, PTL DEF Spec

\* The variables of every widget keep their types, and every handler that waits
\* is on an element of the widget that is exercised and is one of its own.
THEOREM TypeCorrect == Spec => []TypeOK
BY PageInvariant, PageTypes, PTL

\* However the calls of show and hide fall among the transitions: once nothing
\* is pending, the dialog, its backdrop, the body and the listeners agree with
\* the last call, unless the dialog was shown while it was being hidden.
THEOREM DialogSettles == Spec => []ModalSettles
BY PageInvariant, PageKeeps, PTL

\* A carousel shows one item, and its indicator points at it or at the one that
\* the slide under way will show, for every number of items and every series of
\* clicks, jumps and intervals.
THEOREM OneItemIsShown == Spec => []OneItemShown
BY PageInvariant, PageKeeps, PTL

\* A carousel that a script paused has no interval timer running, and no slide,
\* click on an arrow or departing mouse takes the pause back.
THEOREM PausedCarouselsStay == Spec => PausedStaysPut
<1>1. PageInv /\ [Next]_allVars =>
        [/\ paused' => ~interval'
         /\ paused /\ ~paused' => UNCHANGED <<actives, sliding, waiting>>
        ]_<<pending, carouselVars>>
  <2>. SUFFICES ASSUME PageInv, [Next]_allVars, ~UNCHANGED <<pending, carouselVars>>
                PROVE  /\ paused' => ~interval'
                       /\ paused /\ ~paused' => UNCHANGED <<actives, sliding, waiting>>
    OBVIOUS
  <2>1. PageInv'
    BY PageStep
  <2>2. NotPaused /\ NotPaused'
    BY <2>1 DEF PageInv, CarouselInv, CarouselTypes, CarouselInit, NotPaused
  <2>3. CASE CarouselNext
    BY <2>2, <2>3, PausedStep
  <2>4. CASE UNCHANGED carouselVars
    BY <2>2, <2>4 DEF carouselVars, NotPaused
  <2>. QED BY <2>3, <2>4 DEF Next, Only, allVars
<1>. QED BY <1>1, PageInvariant, PTL DEF Spec, PausedStaysPut

\* In an accordion that is loaded closed, at most one panel is open or opening,
\* for every number of panels and however fast their headers are clicked.
THEOREM OnePanelIsOpen == Spec => []OnePanelOpen
BY PageInvariant, PageKeeps, PTL

\* No panel is left halfway or marked as moving, also where the markup opened
\* panels and their objects are dropped while they move.
THEOREM PanelsSettleAll == Spec => []PanelsSettle
BY PageInvariant, PageKeeps, PTL

\* A tooltip in the document, with no timer and no transition pending, belongs
\* to an element that is there and wants it.
THEOREM TipsAreNotLeft == Spec => []NoTipLeftBehind
BY PageInvariant, PageKeeps, PTL

\* When the fades have ended the pane of the active tab is active.
THEOREM TabsHaveTheirPanes == Spec => []ActiveTabHasItsPane
BY PageInvariant, PageKeeps, PTL

\* The page is told at most once that an alert was closed, and only of one that
\* has left the document.
THEOREM ClosedIsToldOnce == Spec => []ToldOnceClosed
BY PageInvariant, PageKeeps, PTL

============================================================================
