---------------------------- MODULE MCLiveServer ----------------------------
(***************************************************************************)
(* LiveServer for TLC: a page that acts and is loaded again, and one that  *)
(* only listens.                                                           *)
(***************************************************************************)
EXTENDS LiveServer, TLC

MCMaxLoads == ("actor" :> 2) @@ ("listener" :> 1)
=============================================================================
