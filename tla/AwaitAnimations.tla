---------------------------- MODULE AwaitAnimations ----------------------------
(***************************************************************************)
(* awaitAnimations(): waits until the transitions or CSS animations of some *)
(* elements are over, by counting their end events, and gives up when the   *)
(* longest of them should have ended.  Each element is waited for by itself. *)
(*                                                                          *)
(* The style of an element lists delays and durations, of its transitions   *)
(* and of its animations, in units of time; CSS repeats a list that is      *)
(* shorter than the list of properties (or of animation names).  All motion *)
(* is that of lists of delays and durations, and run once: the code reads    *)
(* no iteration counts, and negative delays and pseudo-elements are left out. *)
(***************************************************************************)
EXTENDS Integers, Sequences, FiniteSetsExt

CONSTANTS
    Elements,  \* the elements that match the selector
    Styles,    \* the styles they may have, by type of motion
    Offsets,   \* when their motion may begin, relative to the wait
    Horizon    \* bound on the time

Types == {"transition", "animation"}

(* properties: the length of the list of what moves, none if it is 0 *)
Lists == [delays : Seq(Nat), durations : Seq(Nat), properties : Nat]

ASSUME StylesAssumption ==
    \A s \in Styles, t \in Types :
        s[t] \in Lists /\ s[t].delays # <<>> /\ s[t].durations # <<>>
ASSUME OffsetsAssumption == Offsets \subseteq Int
ASSUME HorizonAssumption == Horizon \in Nat

VARIABLES
    style,    \* style[e]: the computed style of the element
    offset,   \* offset[e]: when its motion begins
    clock,    \* the time since startTime
    ended,    \* ended[e]: the parts whose end event has been dispatched
    counted,  \* counted[e]: propsTransitioned
    waiting   \* the elements whose promise is pending

vars == <<style, offset, clock, ended, counted, waiting>>

-----------------------------------------------------------------------------
(* CSS *)

Cyclic(list, i) == list[((i - 1) % Len(list)) + 1]

(* The time at which part i of a motion ends, from its beginning *)
Lasts(lists, i) == Cyclic(lists.delays, i) + Cyclic(lists.durations, i)

(* What moves: a part without any duration has no end event. *)
Parts(e) ==
    {p \in Types \X (1..Max({style[e][t].properties : t \in Types})) :
        p[2] <= style[e][p[1]].properties /\ Lasts(style[e][p[1]], p[2]) > 0}

EndOf(e, p) == offset[e] + Lasts(style[e][p[1]], p[2])

-----------------------------------------------------------------------------
(* getTransitionInfo() *)

(* The delays are doubled until there are enough of them. *)
Doubled(delays, n) ==
    LET twice[s \in Seq(Nat)] == IF Len(s) < n THEN twice[s \o s] ELSE s
    IN  twice[delays]

(* A bug to detect: the last delay is used on. *)
CalculateTimeoutLast(delays, durations) ==
    Max({durations[i] + delays[Min({i, Len(delays)})] : i \in DOMAIN durations})

CalculateTimeout(delays, durations) ==
    LET enough == Doubled(delays, Len(durations))
    IN  Max({durations[i] + enough[i] : i \in DOMAIN durations})

TimeoutOf(e, t) == CalculateTimeout(style[e][t].delays, style[e][t].durations)

Timeout(e) == Max({TimeoutOf(e, t) : t \in Types})

Type(e) ==
    IF TimeoutOf(e, "transition") > TimeoutOf(e, "animation") THEN "transition"
                                                              ELSE "animation"

PropCount(e) == Len(style[e][Type(e)].durations)

(* "Resolve immediately if no transition defined" *)
Awaited == {e \in Elements : Timeout(e) > 0}

-----------------------------------------------------------------------------
(* awaitAnimationsOnElement() *)

Resolve(e) == waiting' = waiting \ {e}

(* A bug to detect: any end counts. *)
HappenedAnyway(elapsed) == TRUE

(* "Skip transitions that happened before we started listening" *)
HappenedSince(elapsed) == clock >= elapsed

(* A bug to detect: > for >=. *)
AllHeardLate(n, e) == n > PropCount(e)

(* "End if all properties have transitioned" *)
AllHeard(n, e) == n >= PropCount(e)

(* onEnd(), for an event with this elapsedTime *)
Heard(e, t, elapsed) ==
    IF e \in waiting /\ t = Type(e) /\ HappenedSince(elapsed)
    THEN /\ counted' = [counted EXCEPT ![e] = @ + 1]
         /\ IF AllHeard(counted[e] + 1, e) THEN Resolve(e) ELSE UNCHANGED waiting
    ELSE UNCHANGED <<counted, waiting>>

(* A part of the motion ends; the event may come late.  Its elapsedTime does
   not include the delay. *)
PartEnds(e, p) ==
    /\ p \notin ended[e]
    /\ clock >= EndOf(e, p)
    /\ ended' = [ended EXCEPT ![e] = @ \cup {p}]
    /\ Heard(e, p[1], Cyclic(style[e][p[1]].durations, p[2]))
    /\ UNCHANGED <<style, offset, clock>>

(* Another transition of the element, begun before the wait, is over. *)
EarlierEnds(e, elapsed) ==
    /\ clock < elapsed
    /\ Heard(e, "transition", elapsed)
    /\ UNCHANGED <<style, offset, clock, ended>>

(* A bug to detect: the timer looks at the count. *)
TimerCounts(e) ==
    /\ e \in waiting
    /\ clock > Timeout(e)
    /\ counted[e] > 0
    /\ Resolve(e)
    /\ UNCHANGED <<style, offset, clock, ended, counted>>

(* The timer of the element fires, on time or later. *)
TimerFires(e) ==
    /\ e \in waiting
    /\ clock > Timeout(e)
    /\ Resolve(e)
    /\ UNCHANGED <<style, offset, clock, ended, counted>>

Passes ==
    /\ clock < Horizon
    /\ clock' = clock + 1
    /\ UNCHANGED <<style, offset, ended, counted, waiting>>

-----------------------------------------------------------------------------
Init ==
    /\ style \in [Elements -> Styles]
    /\ offset \in [Elements -> Offsets]
    /\ clock = 0
    /\ ended = [e \in Elements |-> {}]
    /\ counted = [e \in Elements |-> 0]
    /\ waiting = Awaited

Next ==
    \/ Passes
    \/ \E e \in Elements :
          \/ TimerFires(e)
          \/ \E p \in Parts(e) : PartEnds(e, p)
          \/ \E elapsed \in 1..Horizon : EarlierEnds(e, elapsed)

(* Time passes, and timers fire, late perhaps.  Events need never come: motion is
   cancelled when its element is hidden. *)
Fairness == WF_vars(Passes) /\ \A e \in Elements : WF_vars(TimerFires(e))

Spec == Init /\ [][Next]_vars /\ Fairness

-----------------------------------------------------------------------------
(* Properties *)

(* The types of the wait; an element that is not waited for, because nothing
   moves or all is over, has no more than its count. *)
TypeOK ==
    /\ style \in [Elements -> Styles]
    /\ offset \in [Elements -> Offsets]
    /\ clock \in 0..Horizon
    /\ \A e \in Elements : ended[e] \subseteq Parts(e)
    /\ waiting \subseteq Awaited
    /\ \A e \in Elements :
          /\ counted[e] \in 0..PropCount(e)
          /\ e \in waiting => counted[e] < PropCount(e)

(* The style has a duration for everything that moves, and no more. *)
Regular(e) ==
    \A t \in Types : style[e][t].properties = Len(style[e][t].durations)

(* "Resolve when all CSS animations and transitions are done"
   (awaitAnimations.ts:16), of each type and with delays repeated as in CSS, if
   there is a duration for everything that moves and it began no later than
   the wait; a later beginning is not waited for. *)
OverWhenResolved ==
    \A e \in Awaited \ waiting :
        Regular(e) =>
            \A p \in Parts(e) :
                p \in ended[e] \/ clock >= EndOf(e, p) - Max({offset[e], 0})

(* The timer is set for the end of the longest motion and for no later, so that
   cancelled motion holds up a visit no longer than it would have lasted. *)
TimeoutIsLongest ==
    \A e \in Awaited :
        Regular(e) =>
            Timeout(e) = Max({Lasts(style[e][p[1]], p[2]) : p \in Parts(e)})

(* Every wait comes to an end, whether or not there are any events. *)
AllResolve == <>(waiting = {})

(* The same as OverWhenResolved without its provisos. *)
AllOverWhenResolved ==
    \A e \in Awaited \ waiting : \A p \in Parts(e) :
        p \in ended[e] \/ clock >= EndOf(e, p)
=============================================================================
