----------------------------- MODULE MCGateway -----------------------------
(***************************************************************************)
(* A plugin that has a backend and filters of its own, behind one that     *)
(* identifies callers.                                                     *)
(***************************************************************************)
EXTENDS Gateway

CONSTANTS app, idp

Filter(p) == [plugin |-> p, routes |-> Paths, rewrites |-> {}, failClosed |-> FALSE,
              needsBody |-> FALSE, allowIdentity |-> FALSE]

SmallChain ==
  [phase \in Phases |->
     CASE phase = "pre_route"    -> <<[Filter(app) EXCEPT !.rewrites = {app}]>>
       [] phase = "authenticate" -> <<[Filter(idp) EXCEPT !.failClosed = TRUE,
                                                          !.allowIdentity = TRUE,
                                                          !.needsBody = TRUE,
                                                          !.rewrites = {"bare"}]>>
       [] phase = "post_handler" -> <<[Filter(app) EXCEPT !.failClosed = TRUE]>>
       [] phase = "log"          -> <<Filter(app)>>
       [] OTHER                  -> <<>>]

SmallGenerations == [p \in Plugins |-> IF p = app THEN 2 ELSE 1]
=============================================================================
