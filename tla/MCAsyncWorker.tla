--------------------------- MODULE MCAsyncWorker ---------------------------
(* AsyncWorker for TLC: two clients and the event loop beside the worker.  *)
EXTENDS AsyncRefinement
CONSTANTS c1, c2, h1
MCClients == {c1, c2}
MCHandlers == {h1}
=============================================================================
