----------------------------- MODULE MCSessionSink -----------------------------
(* Instances of SessionSink for TLC. *)
EXTENDS SessionSink

Bounds(start, end) == [start |-> start, end |-> end]

\* Discovery found one bound, inside the range, or an interval before it.
FewReferences == {Bounds(0, 2), Bounds(1, 1)}

\* Or none, an interval that reaches into the range, or one bound after it.
EachReference == FewReferences \cup {Bounds(0, 0), Bounds(1, 2), Bounds(3, 0)}
=============================================================================
