--------------------------- MODULE MCFetchRuntime ---------------------------
(* FetchRuntime for TLC: the bindings an event invalidates, in order.      *)
EXTENDS FetchRuntime
CONSTANTS posts, user
UserFirst == <<user>>
BothInOrder == <<posts, user>>
=============================================================================
