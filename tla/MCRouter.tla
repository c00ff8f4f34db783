------------------------------ MODULE MCRouter ------------------------------
(* A page of three sections: home, a board that needs a token and sends the *)
(* visitor to a user's page, and the users' pages, which need an account    *)
(* and send everybody else to one of them.  One path matches nothing and    *)
(* one cannot be decoded.                                                  *)
EXTENDS Router

MCPaths == {"home", "board", "user", "malformed", "nowhere"}
MCPatterns == {"home", "board", ":user"}
MCMatches == {<<"home", "home">>, <<"board", "board">>, <<":user", "user">>}
MCMalformed == {<<":user", "malformed">>}
MCRoutes == <<"home", "board", ":user">>
MCGuards == <<[path |-> "board", var |-> "token", redirect |-> "user"],
              [path |-> ":user", var |-> "account", redirect |-> "user"]>>

=============================================================================
