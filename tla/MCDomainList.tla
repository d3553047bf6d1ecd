---------------------------- MODULE MCDomainList ----------------------------
(* Values for the constants of DomainList. *)
EXTENDS DomainList, TLC

CONSTANTS t1, t2, ex, exex, junk

\* ex.com and ex.com.ex.com, which begins with it, ends with it and holds it.
Domains == {ex, exex}
Same == {<<d, d>> : d \in Domains}
StartsWith == Same \cup {<<exex, ex>>}
EndsWith == Same \cup {<<exex, ex>>}
Contains == StartsWith \cup EndsWith
OneTag == {Domains \cup {junk}}
OneText == {{ex}}
Tabs == Permutations(Tab)
=============================================================================
