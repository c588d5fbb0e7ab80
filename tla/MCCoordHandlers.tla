--------------------------- MODULE MCCoordHandlers ---------------------------
(***************************************************************************)
(* Finite instances of CoordHandlers: one network.                         *)
(***************************************************************************)
EXTENDS CoordHandlers

CONSTANTS n1, a, b

NetworkOf(devices) ==
  [n \in {n1} |-> [d \in devices |->
     [attrs |-> [f \in Attribute |-> NoKey], Accessible |-> {},
      AccessAll |-> TRUE, AccessOnly |-> {}]]]

\* Both devices; or b was removed.
MCConfigs == {NetworkOf({a, b}), NetworkOf({a})}

MCIdentities == [tok \in Token |-> NetworkName \X {tok}]

\* Two connections with everything of device a and updateSpec, and one that
\* only asks, also with the token of b, for itself and for a.
MCRequests ==
  [s \in Slot |->
     IF s < 3 THEN [kind : Kind, tok : {a}, net : {n1}, dev : {a}]
              ELSE [kind : {"latest", "spec"}, tok : {a}, net : {n1}, dev : {a}]
                     \cup [kind : {"spec"}, tok : {b}, net : {n1}, dev : {a, b}]]

\* A key is published; a device that can be reached is, which is refused with
\* 400 when that device was removed.
MCPatchBody ==
  {[attrs |-> [f \in {"PublicKey"} |-> 1], AccessibleSet |-> FALSE, Accessible |-> {}],
   [attrs |-> <<>>, AccessibleSet |-> TRUE, Accessible |-> {b}]}

\* The views of a: of a configured spec and of the patched one.
MCPostBody ==
  {Server!CensorForDevice(s, n1, a) : s \in
     {NetworkOf({a, b}), [NetworkOf({a, b}) EXCEPT ![n1][a].attrs["PublicKey"] = 1]}}
=============================================================================
