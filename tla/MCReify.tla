------------------------------- MODULE MCReify -------------------------------
(***************************************************************************)
(* Finite instances of Reify, on one network of up to three devices.       *)
(***************************************************************************)
EXTENDS Reify

CONSTANTS n1, a, b, c,
  v4, v6   \* an IPv4 address, an IPv6 address

Device(only) ==
  [attrs |-> [f \in Attribute |-> IF f = "Addresses" THEN v4 ELSE NoKey], Accessible |-> {},
   AccessAll |-> only = {}, AccessOnly |-> only]

NetworkOf(devices) == [n \in {n1} |-> [d \in devices |-> Device({})]]

MCTwoDevices == {NetworkOf({a, b})}

\* c sees itself and a, as a device with AccessOnly does.
MCCensored ==
  {[n \in {n1} |-> [d \in {a, b, c} |-> Device(IF d = c THEN {a, c} ELSE {})]]}

\* The same, or a network where everybody sees everybody.
MCThreeDevices == MCCensored \cup {NetworkOf({a, b, c})}

\* The operator edits the file: b is removed, or is given an IPv6 address and no
\* access any more, not even to itself.
MCEdited ==
  {NetworkOf({a, b}), NetworkOf({a}),
   [n \in {n1} |-> [d \in {a, b} |->
      IF d = a THEN Device({})
               ELSE [Device({}) EXCEPT !.attrs["Addresses"] = v6, !.AccessAll = FALSE]]]}

MCClient == NetworkName \X DeviceName
MCTokenOf == [i \in Client |-> i[2]]
MCIdentities == [t \in Token |-> NetworkName \X {t}]
MCValue == {NoKey, v4, v6} \cup (MCClient \X (1 .. MaxKeys))
MCDeviceOrder == SelectSeq(<<a, b, c>>, LAMBDA d : d \in DeviceName)

OnlyA == {<<n1, a>>}
AandB == {<<n1, a>>, <<n1, b>>}

\* The endpoints that answer: all, except that b and c do not reach each other,
\* or that a does not reach c.
MCReaches ==
  {[i \in MCClient |-> DeviceName \ CASE i[2] = a -> {a}
                                       [] i[2] = b -> {b, c}
                                       [] OTHER -> {b, c}],
   [i \in MCClient |-> DeviceName \ (IF i[2] = a THEN {a, c} ELSE {i[2]})]}

InitHub == Start /\ reach \in MCReaches
SpecHub == InitHub /\ [][Next]_vars
FairSpecHub == SpecHub /\ Fairness
=============================================================================
