---------------------------- MODULE MCTunConfig ----------------------------
(* Route destinations for TunConfig: one IPv6 and one IPv4 destination.    *)
EXTENDS TunConfig

MCRouteDestinations == << "v6", "v4" >>
=============================================================================
