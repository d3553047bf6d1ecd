---------------------------- MODULE MCFullTunnel ----------------------------
(* Values for the constants of FullTunnel. *)
EXTENDS FullTunnel

CONSTANTS host, net, t1, u1, keeper, full, bylist, exclude

\* No rules, and a single address past the tunnel.
Files == {Blank, [Blank EXCEPT ![exclude] = <<host>>]}
=============================================================================
