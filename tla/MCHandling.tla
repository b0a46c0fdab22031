----------------------------- MODULE MCHandling -----------------------------
(* A request is routed, for TLC, and if it comes to the handler at /a/b, that *)
(* is the ProxyHandler, which is then called with it from several threads.   *)
(* What the threads have in common is only the handler, so the others route  *)
(* and call it unseen; one request is taken on from the routes.              *)
EXTENDS MCRouteLoop, MCProxyHandler

ProxyRequest == [uri |-> <<"a", "b", "b">>, referers |-> << >>]

ToProxy == request = ProxyRequest /\ pc = "routed" /\ chosen = <<"a", "b">>

handlingVars == <<loopVars, proxyVars>>

Routes == LoopNext /\ UNCHANGED proxyVars
Proxies == ToProxy /\ ProxyNext /\ UNCHANGED loopVars

HandlingInit == LoopInit /\ ProxyInit

HandlingSpec ==
    /\ HandlingInit
    /\ [][Routes \/ Proxies]_handlingVars
    /\ WF_loopVars(LoopNext)
    /\ \A t \in Threads : WF_proxyVars(~terminated /\ Proceed(t))
=============================================================================
