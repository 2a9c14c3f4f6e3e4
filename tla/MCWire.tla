------------------------------- MODULE MCWire -------------------------------
(***************************************************************************)
(* Wire for TLC: two members of one build and configuration, one of a     *)
(* newer build and one of the next configuration.                          *)
(***************************************************************************)
EXTENDS Wire

CONSTANTS bytes, long

Bodies == {"", bytes, long}

Members == {1, 2, 3, 4}

TwoBuilds == [m \in Members |-> IF m = 3 THEN "newer" ELSE "this"]

TwoConfigurations == [m \in Members |-> IF m = 4 THEN 2 ELSE 1]

\* A message of a class all of whose numbers are n.
Message(class, n, e) ==
  [kind |-> class, fields |-> [f \in Carries[class] |-> IF f \in {"scope", "more"} THEN 1 ELSE n],
   entry |-> e]

ThreeMessages ==
  << Message("PROMISE", 1, [kind |-> "COMMAND", body |-> "", stop |-> NoStop]),
     Message("COMMIT", 2, [kind |-> "NOOP", body |-> "", stop |-> NoStop]),
     Message("PROMISE_RANGE", 3, NoEntry) >>
===============================================================================
