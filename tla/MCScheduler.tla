---------------------------- MODULE MCScheduler ----------------------------
(* Two plan shapes for TLC, with every choice of candidates among their    *)
(* stages and of values that cannot be snapshotted among their inputs.     *)
EXTENDS Scheduler

(* Four paragraphs, each under one interval, merged and rendered.          *)
Fan == [size |-> 10,
        kind |-> <<"source", "stage", "source", "stage", "source", "stage",
                   "source", "stage", "merge", "render">>,
        inputs |-> <<{}, {1}, {}, {3}, {}, {5}, {}, {7}, {2, 4, 6, 8}, {9}>>]

(* A block of two paragraphs, one under a pipeline of two stages, whose    *)
(* body goes through a further stage.                                      *)
Nest == [size |-> 8,
         kind |-> <<"source", "stage", "stage", "source", "stage", "merge",
                    "stage", "render">>,
         inputs |-> <<{}, {1}, {2}, {}, {4}, {3, 5}, {6}, {7}>>]

With(shape, candidates, opaque) ==
  [size |-> shape.size, kind |-> shape.kind, inputs |-> shape.inputs,
   candidates |-> candidates, opaque |-> opaque]

FanPlans == {With(Fan, candidates, opaque) :
               candidates \in SUBSET {2, 4, 6, 8}, opaque \in SUBSET {1, 3}}
NestPlans == {With(Nest, candidates, opaque) :
                candidates \in SUBSET {2, 3, 5, 7}, opaque \in SUBSET {1, 2, 6}}
SmallPlans == FanPlans \cup NestPlans
=============================================================================
