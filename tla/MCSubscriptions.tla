--------------------------- MODULE MCSubscriptions ---------------------------
(* Instances of Subscriptions for TLC.                                      *)
EXTENDS Subscriptions, TLC

OneInterval == {<<"ONTIMEINTERVAL">>}
OneChange == {<<"ONCHANGE">>}
ChangeOrInterval == OneChange \union OneInterval
ChangeAndInterval == {<<"ONCHANGE", "ONTIMEINTERVAL">>}
EveryCondition == ChangeOrInterval \union {<<"ONVALUE", "ONTIMEINTERVAL">>}

NoThrottling == {-1}
TwoSeconds == {2}

RootPath == {""}
TwoPaths == {"/a", "/b"}

Symmetry == Permutations(Workers) \union Permutations(IntervalThreads)
=============================================================================
