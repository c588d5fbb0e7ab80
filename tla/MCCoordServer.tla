---------------------------- MODULE MCCoordServer ----------------------------
(***************************************************************************)
(* Finite instances of CoordServer.                                        *)
(***************************************************************************)
EXTENDS CoordServer

CONSTANTS n1, n2, a, b

\* A device as the configuration file describes it: no key and nothing to
\* forward yet.
Device(all, only) ==
  [attrs |-> [f \in Attribute |-> NoKey], Accessible |-> {},
   AccessAll |-> all, AccessOnly |-> only]

Full == Device(TRUE, {})

\* One network: both devices see all; b sees only itself; b is not there.
MCOneNetwork ==
  {[n \in {n1} |-> [d \in {a, b} |-> Full]],
   [n \in {n1} |-> [d \in {a, b} |-> IF d = a THEN Full ELSE Device(FALSE, {b})]],
   [n \in {n1} |-> [d \in {a} |-> Full]]}

\* Two networks, of which b sees only itself in the first; then only the second
\* one, with one device more.
MCTwoNetworks ==
  {[n \in {n1, n2} |->
      [d \in (IF n = n1 THEN {a, b} ELSE {a}) |->
         IF d = a THEN Full ELSE Device(FALSE, {b})]],
   [n \in {n2} |-> [d \in {a, b} |-> Full]]}

\* What the operator may write into the configuration file.
MCConfigs == MCOneNetwork \cup MCTwoNetworks

\* ta is the token of device a, tb that of device b, in every network.
MCIdentities ==
  [tok \in Token |-> NetworkName \X {IF tok = "ta" THEN a ELSE b}]
=============================================================================
