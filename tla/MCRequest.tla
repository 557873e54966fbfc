----------------------------- MODULE MCRequest -----------------------------
(* Instances of Request.                                                   *)
EXTENDS Request

A(s, v, c, r) == [sound |-> s, volume |-> v, count |-> c, rate |-> r]
SomeAttrs == {A(<<97>>, <<127, 9>>, 1, 0), A(<<98, 98, 98>>, <<127, 127>>, 258, 8000)}
SomeIndices == {-1, 0, 1, 2}
Old(s, v) == [sound |-> s, volume |-> v]
SomeOld == {<<Old(<<97>>, 127)>>, <<Old(<<97>>, 200), Old(<<98, 98>>, 5)>>}
=============================================================================
