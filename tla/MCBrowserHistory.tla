-------------------------- MODULE MCBrowserHistory --------------------------
(* One page of one site, and policies that cut it in every way: to the     *)
(* domain, to one entry, to nothing.                                       *)
EXTENDS BrowserHistory, TLC
CONSTANTS p1, s1

MCSite == p1 :> s1
MCTitle == p1 :> p1
Full(n) == [collect |-> TRUE, mode |-> "full_url", limit |-> n]
Domains == [Full(0) EXCEPT !.mode = "domain_only"]
MCPolicies == {Domains, Full(1), [Full(0) EXCEPT !.mode = "disabled"]}
=============================================================================
