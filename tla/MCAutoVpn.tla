----------------------------- MODULE MCAutoVpn -----------------------------
(* Values for the constants of AutoVpn, shared by its configurations. *)
EXTENDS AutoVpn, TLC

CONSTANTS a, b, c3, link, watch, c1, c2, u1

Configured(results, auto, active) ==
  [url |-> link, active |-> active, auto |-> auto, liveCheck |-> TRUE,
   live |-> "never", results |-> results]

\* The state after the link was saved and one check with its switch, with
\* and without permission to switch; and that of a first start.
Checked == {Configured(<<a, b>>, auto, a) : auto \in BOOLEAN}
Started == {Configured(<<a, b>>, TRUE, a), Configured(<<>>, TRUE, None)}

ThreeChecked == {Configured(<<a, b, c3>>, TRUE, a)}
ThreeLink == [u \in {link} |-> {a, b, c3}]
Unswitched == {[Configured(<<>>, TRUE, None) EXCEPT !.liveCheck = FALSE]}
OneServer == [u \in {link} |-> {a}]
OneLink == [u \in {link} |-> {a, b}]

ToggleQuiescent == {[url |-> link, auto |-> x, liveCheck |-> FALSE] : x \in BOOLEAN}
NoSettings == {}
Toggle == {[url |-> link, auto |-> x, liveCheck |-> TRUE] :
           x \in BOOLEAN}
=============================================================================
