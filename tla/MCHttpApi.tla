------------------------------ MODULE MCHttpApi -----------------------------
(* HttpApi over one backend, one alias and one route.                      *)
EXTENDS HttpApi, TLC

CONSTANT b1

MCRoute(b, p) == [backend |-> b, priority |-> p]
MCRoutes == "chat" :> << MCRoute(b1, 0) >>
MCMaxInflight == b1 :> 1
=============================================================================
