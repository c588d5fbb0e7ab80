----------------------------- MODULE Forwarding ------------------------------
(***************************************************************************)
(* How a client decides to reach the other devices (chooseEndpoints) and   *)
(* what that makes of its machine (CompileMachine).                        *)
(*                                                                         *)
(* A way of device d maps each device that it has chosen how to reach to   *)
(* itself, if one of its endpoints answers, or else to the device that     *)
(* forwards to it.  Addresses and prefixes of a device stand for it: a set *)
(* of AllowedIPs is a set of devices.                                      *)
(***************************************************************************)
EXTENDS NetworkSpec, Sequences

CONSTANTS
  DeviceOrder,   \* the order of the devices in the configuration
  IPv4, IPv6     \* the lists of Addresses that hold an address of the family

ASSUME ForwardingAssumption ==
  /\ DeviceOrder \in Seq(DeviceName)
  /\ "Addresses" \in Attribute
  /\ IPv4 \subseteq Value /\ IPv6 \subseteq Value

Others(nc, d) == DOMAIN nc.Devices \ {d}

\* Mutation of GetForwardersFor: what the chosen device offers is not looked at.
GetAnyForwarder(nc, e, chosen) == chosen

\* The devices that offer to forward to e, of those chosen already.
GetForwardersFor(nc, e, chosen) == {f \in chosen : e \in nc.Devices[f].Accessible}

\* f comes before e in the list of devices.
Before(f, e) ==
  \E k, l \in DOMAIN DeviceOrder : k < l /\ DeviceOrder[k] = f /\ DeviceOrder[l] = e

\* The devices of way that are chosen when e asks for a forwarder: all that
\* answer, and those that got a forwarder before it.
ChosenBefore(way, answering, e) == {f \in DOMAIN way : f \in answering \/ Before(f, e)}

\* The ways that chooseEndpoints may end with: whoever answers is reached
\* directly; for the others rand.Intn picks one of their forwarders, if any.
Ways(nc, d, answering) ==
  {way \in UNION {[D -> Others(nc, d)] : D \in SUBSET Others(nc, d)} :
     \A e \in Others(nc, d) :
       LET forwarders == GetForwardersFor(nc, e, ChosenBefore(way, answering, e))
       IN /\ e \in DOMAIN way <=> e \in answering \/ forwarders # {}
          /\ e \in DOMAIN way => IF e \in answering THEN way[e] = e
                                                   ELSE way[e] \in forwarders}

\* A goal.Machine with the one interface of a network: its peers, by name.
Machine ==
  [peers : UNION {[D -> [PublicKey : Value, AllowedIPs : SUBSET DeviceName]] :
                    D \in SUBSET DeviceName},
   forwardsIPv4 : BOOLEAN, forwardsIPv6 : BOOLEAN]

\* Device d offers a device with an address of that family.
ForwardsFamily(nc, d, family) ==
  \E e \in nc.Devices[d].Accessible : nc.Devices[e].attrs["Addresses"] \in family

\* CompileMachine, for one network and with ignoreIncomplete.  Devices without
\* a key are left out.  A device that is reached through another is no peer:
\* its addresses go to the AllowedIPs of the other, if that is one.  Accessible
\* holds devices of nc only: patchAccessible has just put it together.
CompileMachine(nc, d, way) ==
  LET keyed == {e \in Others(nc, d) : nc.Devices[e].attrs["PublicKey"] # NoKey}
      forwarded == {e \in keyed \cap DOMAIN way : way[e] # e}
  IN [peers |-> [e \in keyed \ forwarded |->
                   [PublicKey |-> nc.Devices[e].attrs["PublicKey"],
                    AllowedIPs |-> {e} \cup {g \in forwarded : way[g] = e}]],
      forwardsIPv4 |-> ForwardsFamily(nc, d, IPv4),
      forwardsIPv6 |-> ForwardsFamily(nc, d, IPv6)]

\* The peers to which machine m sends what is for e.
Hops(m, e) == {p \in DOMAIN m.peers : e \in m.peers[p].AllowedIPs}
=============================================================================
