--------------------------- MODULE MCProxyServer ---------------------------
(* Instances of ProxyServer for TLC. *)
EXTENDS ProxyServer, TLC

IdsRegistry   == {-2, 0, 1, 7}
HostsRegistry == {-2, 0, 1}     \* 7 is not configured
IdsOne        == {1}

Symmetry == Permutations(Conn)
=============================================================================
