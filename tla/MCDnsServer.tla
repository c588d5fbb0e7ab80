----------------------------- MODULE MCDnsServer -----------------------------
(***************************************************************************)
(* Finite instances of DnsServer.                                          *)
(***************************************************************************)
EXTENDS DnsServer

CONSTANTS a, b, n1, n2, q

P(suffix, n, d) == [Suffix |-> suffix, Network |-> n, Device |-> d]
Whole == P(<<Dot, q>>, None, None)
Preset == P(<<q>>, n1, a)

\* The example configuration; a name of its own for one device, before and
\* after it; one suffix that ends in another; and lists that are refused.
MCParentConfigs ==
  {<<Whole>>, <<Preset>>, <<Whole, Preset>>, <<Preset, Whole>>,
   <<P(<<Dot, b, Dot, q>>, None, None), Whole>>, <<Whole, P(<<Dot, b, Dot, q>>, None, None)>>,
   <<>>, <<P(<<>>, None, None)>>, <<P(<<Dot, q, Dot>>, None, None)>>,
   <<P(<<q>>, None, None)>>, <<P(<<Dot, q>>, n1, a)>>, <<P(<<q>>, n1, None)>>,
   <<Whole, Whole>>}

\* The machine is device a of every network.
MCOwnDevice == [n \in Network |-> a]

\* Device a alone, with a prefix next to its address; a and b; a without address.
MCViews ==
  [n \in Network |->
     {[d \in {a} |-> {1, 3}], [d \in {a, b} |-> IF d = a THEN {1} ELSE {2, 3}],
      [d \in {a} |-> {}]}]
=============================================================================
