----------------------------- MODULE Transitions -----------------------------
(***************************************************************************)
(* CSS transitions as bootstrap.js waits for them.  A widget registers a   *)
(* one-shot handler on an element and calls emulateTransitionEnd, which    *)
(* adds a second one-shot handler (it clears the emulation) and a timer    *)
(* that triggers the end itself.  An end, from the browser or from a       *)
(* timer, runs every handler waiting on that element, in the order they    *)
(* were registered, and disarms their timers; so a handler and its timer   *)
(* are one record here, kept with its element.  The page is single         *)
(* threaded: while the handlers of one event run, nothing else does.       *)
(*                                                                         *)
(* Time passes in units of 150 ms, the shortest duration in the code;      *)
(* where a widget waits for one transition at a time its length is 1.      *)
(***************************************************************************)
EXTENDS Integers, Sequences

CONSTANT MaxPending  \* bound: handlers on an element when the visitor acts again

ASSUME TransitionsAssumption == MaxPending \in Nat

VARIABLES
    waiting,  \* the handlers of each element that has some, oldest first
    running   \* handlers of the event being dispatched that have not run yet

pending == <<waiting, running>>

\* n tells which of its kind the handler's widget means: a panel, an item.
Handler(n, cb, arg, left) == [n |-> n, cb |-> cb, arg |-> arg, left |-> left]

Handlers(ns, cbs, args) == [n : ns, cb : cbs, arg : args, left : Nat]

\* A widget's elements are among elements, its handlers among handlers.
PendingTypeOK(elements, handlers) ==
    /\ DOMAIN waiting \subseteq elements
    /\ \A e \in DOMAIN waiting : waiting[e] \in Seq(handlers) \ {<<>>}
    /\ running \in Seq(handlers)

TransitionsInit == waiting = [e \in {} |-> <<>>] /\ running = <<>>

AtRest == DOMAIN waiting = {} /\ running = <<>>
Free == running = <<>>
Few == Free /\ \A e \in DOMAIN waiting : Len(waiting[e]) < MaxPending

On(e) == IF e \in DOMAIN waiting THEN waiting[e] ELSE <<>>

\* .one('bsTransitionEnd', cb).emulateTransitionEnd(left)
With(e, h) ==
    [d \in DOMAIN waiting \cup {e} |-> IF d = e THEN Append(On(e), h) ELSE waiting[d]]

\* jQuery's remove(): the handlers of the element go with it.
Without(e) == [d \in DOMAIN waiting \ {e} |-> waiting[d]]

\* Variant: only the handler registered first is run; the others are lost.
FirstOnly(e) == running' = <<Head(waiting[e])>> /\ waiting' = Without(e)
EndOf(e) == running' = waiting[e] /\ waiting' = Without(e)

\* The end of a transition: a timer is due, or the browser reports the end
\* of the transition of an element that is rendered.
Ends(rendered) ==
    /\ Free
    /\ \E e \in DOMAIN waiting :
          /\ e[1] \in rendered \/ \E i \in DOMAIN waiting[e] : waiting[e][i].left = 0
          /\ EndOf(e)

\* Timers fire in the order they are due.
Tick ==
    /\ Free /\ DOMAIN waiting # {}
    /\ \A e \in DOMAIN waiting : \A i \in DOMAIN waiting[e] : waiting[e][i].left > 0
    /\ waiting' = [e \in DOMAIN waiting |->
                      [i \in DOMAIN waiting[e] |-> [waiting[e][i] EXCEPT !.left = @ - 1]]]
    /\ UNCHANGED running

\* The next handler of the event being dispatched is cb.
Runs(cb) == ~Free /\ Head(running).cb = cb /\ running' = Tail(running)
==============================================================================
