--------------------------- MODULE MCReactiveEnv ---------------------------
(***************************************************************************)
(* Small programs for ReactiveEnv: derived variables over x, actions that  *)
(* assign and read, and subscribers, with arithmetic modulo 4.             *)
(***************************************************************************)
EXTENDS ReactiveEnv, Integers

MCValues == 0..3

MCDeps == [arg     |-> <<>>,         one     |-> <<>>,
           next    |-> <<"x">>,      same    |-> <<"x">>,
           absent  |-> <<"x">>,      copy    |-> <<"c">>,
           follow  |-> <<"a">>,      twice   |-> <<"a", "a">>,
           sum     |-> <<"a", "b">>, still   |-> <<"y">>,
           onward  |-> <<"y">>]

MCFormulas == DOMAIN MCDeps

\* absent is a name nobody defined.
MCApply(f, args) ==
  CASE f \in {"arg", "absent"} -> -1
    [] f = "one" -> 1
    [] f \in {"same", "copy"} -> args[1]
    [] f = "still" -> IF args[1] = 0 THEN 1 ELSE 0
    [] f \in {"next", "follow", "onward"} -> (args[1] + 1) % 4
    [] f \in {"twice", "sum"} -> (args[1] + args[2]) % 4

\* getStringValue, with digits enough for every value.
Exactly(w) == w

MCInitial == [v \in Vars |-> 0]

set(v, f) == [op |-> "set", var |-> v, formula |-> f]
when(f) == [op |-> "if", var |-> "x", formula |-> f]

\* bump assigns x and reads what depends on it; record and note are
\* subscribers that write what nothing depends on, note after a
\* statement that fails; forward passes a on to y;
\* once moves y away from 0 the first time only.
Bodies == [bump    |-> <<set("x", "next"), set("y", "copy")>>,
           record  |-> <<set("log", "arg")>>,
           note    |-> <<when("arg"), set("log", "absent"), set("log", "copy")>>,
           forward |-> <<set("y", "follow")>>,
           once    |-> <<when("still"), set("y", "one")>>]

MCBody == [fn \in Actions |-> Bodies[fn]]

OneWrite == {<<"x", 2>>}
Diamond == {<<"a", "next">>, <<"b", "same">>, <<"c", "sum">>, <<"b", "twice">>,
            <<"c", "onward">>, <<"log", "absent">>}
Cascade == {<<"a", "next">>, <<"c", "onward">>}
Listeners == {<<"record", "x">>, <<"record", "c">>, <<"forward", "a">>,
              <<"note", "c">>}
WriteOnce == {<<"once", "a">>}
Bump == {<<"bump", 0>>}
=============================================================================
