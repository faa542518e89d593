--------------------------- MODULE MCAwaitAnimations ---------------------------
(* AwaitAnimations for TLC: elements that transition, are animated, or both. *)
EXTENDS AwaitAnimations

(* The initial values of the properties: nothing moves. *)
Still == [delays |-> <<0>>, durations |-> <<0>>, properties |-> 1]
One(delay, duration) ==
    [delays |-> <<delay>>, durations |-> <<duration>>, properties |-> 1]

(* Fewer delays than durations. *)
Three == [delays |-> <<0, 1>>, durations |-> <<1, 1, 2>>, properties |-> 3]

(* One duration for two properties, as in a shorthand. *)
Shared == [delays |-> <<0, 2>>, durations |-> <<1>>, properties |-> 2]

Style(t, a) == [transition |-> t, animation |-> a]

(* In the second one the animation takes longer, in the last as long. *)
SomeStyles ==
    {Style(Still, Still), Style(One(1, 1), One(0, 3)), Style(Three, Still),
     Style(Shared, Still), Style(Three, One(0, 2))}

SomeOffsets == {-1, 0, 1}
=============================================================================
