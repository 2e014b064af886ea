--------------------------- MODULE MCGroundLink -----------------------------
(* Parameter a is known to core 1 only, b to both cores, c to core 0 only; *)
(* one value is below the range of core 0 and one above.                   *)
EXTENDS GroundLink

CONSTANTS s1, s2

MCLocal == <<"a", "b">>
MCMain == {"b", "c"}

Plain(s, ask) == [from |-> s, ask |-> ask, name |-> "", value |-> 0]
Set(s, n, v) == [from |-> s, ask |-> "set", name |-> n, value |-> v]

MCRequests ==
  {Plain(s1, "list"), Plain(s1, "reboot"), Set(s1, "b", 0), Set(s1, "b", 3),
   Plain(s2, "list"), Plain(s1, "read"), Set(s2, "a", 3), Set(s2, "c", 3)}
=============================================================================
