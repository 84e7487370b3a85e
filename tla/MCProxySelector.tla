-------------------------- MODULE MCProxySelector --------------------------
(* ProxySelector with a small catalogue of CF proxy dictionaries.         *)
EXTENDS ProxySelector

(* Proxy dictionaries: each Plain kind, one without a type, and two PAC   *)
(* entries whose scripts answer one and two proxies.                      *)
MCEntries ==
  {[type |-> t, answer |-> <<>>] : t \in Plain \cup {"bad"}}
  \cup {[type |-> "pac", answer |-> <<"socks">>],
        [type |-> "pac", answer |-> <<"none", "http">>]}

(* The lists CFNetworkCopyProxiesForURL returns: up to two entries,       *)
(* the empty list included.                                               *)
MCInputs == BoundedSeq(MCEntries, 2)
=============================================================================
