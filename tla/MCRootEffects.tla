--------------------------- MODULE MCRootEffects ---------------------------
(***************************************************************************)
(* RootEffects for TLC: every sequence of up to four effects out of five, *)
(* of which some form cycles, over three lets and two getters.             *)
(***************************************************************************)
EXTENDS RootEffects, Integers

MCScalars == 0..2
MCList == 3
MCValues == MCScalars \cup {MCList}

MCDeps == [arg    |-> <<"v">>, same |-> <<"x">>, onward |-> <<"y">>,
           zero   |-> <<>>,    next |-> <<"x">>, inner  |-> <<"d">>,
           outer  |-> <<"e">>, last |-> <<"z">>]

MCFormulas == DOMAIN MCDeps

\* Numbers wrap; a list passes through every formula but zero.
MCApply(f, args) ==
  CASE f = "zero" -> 0
    [] f # "zero" /\ args[1] = MCList -> MCList
    [] f = "next" -> (args[1] + 1) % 3
    [] f \notin {"zero", "next"} -> args[1]

MCScalarFormulas == MCFormulas \ {"arg"}

set(v, f) == [op |-> "set", var |-> v, formula |-> f, skip |-> 0]
when(f, n) == [op |-> "if", var |-> "v", formula |-> f, skip |-> n]

\* step and both pass x on to y, onto passes it on to z through a getter, back
\* closes the cycle; bump, put, shadow, touch and read are called by the page.
MCBody == [step   |-> <<when("same", 1), set("y", "same")>>,
           both   |-> <<set("y", "inner")>>,
           onto   |-> <<set("z", "outer")>>,
           back   |-> <<set("x", "last")>>,
           bump   |-> <<set("x", "zero"), set("x", "next")>>,
           put    |-> <<set("x", "arg"), set("z", "inner")>>,
           shadow |-> <<set("x", "next"), set("z", "same")>>,
           touch  |-> <<set("y", "arg")>>,
           read   |-> <<when("onward", 1), set("z", "inner")>>]

MCActions == DOMAIN MCBody

MCParams == [fn \in MCActions |-> CASE fn \in {"put", "touch"} -> {"v"}
                                    [] fn = "shadow" -> {"x"}
                                    [] OTHER -> {}]

Pool == {<<"step", "x">>, <<"both", "x">>, <<"onto", "y">>, <<"back", "z">>,
         <<"onto", "d">>}

MCPrograms == UNION {[1..n -> Pool] : n \in 0..4}

MCDefinitions == {[d |-> "next", e |-> "inner"], [d |-> "outer", e |-> "onward"],
                  [d |-> "outer", e |-> "inner"]}

with(fn, w) == <<fn, [v \in MCParams[fn] |-> w]>>

MCDispatches == {with("bump", 0), with("put", 1), with("put", MCList),
                 with("touch", 2), with("shadow", 1), with("read", 0)}

MCArrivals == {<<"feed", 1>>}

MCInitial == [x |-> 0, y |-> 0, z |-> 0, d |-> 0, e |-> 0, v |-> MCList,
              feed |-> 0]
=============================================================================
