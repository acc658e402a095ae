---------------------------- MODULE MCStageCache ----------------------------
(* Buckets and sizes for TLC.                                              *)
EXTENDS StageCache

(* Both contents fall in one bucket; each in its own.                      *)
OneBucket == [c \in Contents |-> 1]

(* One output takes the whole byte budget.                                 *)
BigAndSmall == [v \in Values |-> IF v = "big" THEN 2 ELSE 1]
AllSmall == [v \in Values |-> 1]
=============================================================================
