----------------------------- MODULE NetworkSpec -----------------------------
(***************************************************************************)
(* The data of package spec: a Spec maps network names to networks, a      *)
(* network maps device names to devices.  Names are unique within their    *)
(* list in every configuration the server is given, and no operation       *)
(* reorders a list, so a list of named records is a function from names.   *)
(*                                                                         *)
(* A device keeps the fields that NetworkDeviceCensored.Equal compares:    *)
(*   attrs       its scalar fields, by name (PublicKey, ListenPort, ...)   *)
(*   Accessible  the devices it offers to forward packets to               *)
(* and the two fields of AccessControl.  The choices a client makes among  *)
(* endpoints and forwarders are not here: JSON never carries them (they    *)
(* are absent from networkDeviceCensoredJSON) and Equal ignores them, so   *)
(* they are state of the client alone (module Reify).                      *)
(***************************************************************************)
EXTENDS Naturals

CONSTANTS
  NetworkName,   \* names of networks
  DeviceName,    \* names of devices
  Attribute,     \* the scalar fields of a device that are modelled
  Value,         \* what an attribute can hold
  NoKey          \* the zero goal.Key: no public key is known yet

\* The fields PatchReifySpecRequest can set, Accessible apart.
PatchableField ==
  {"ListenPort", "PublicKey", "PresharedKey", "PersistentKeepalive"}

\* The fields only the configuration of the server sets.
FixedField == {"Endpoints", "Addresses"}

ASSUME AttributeAssumption ==
  /\ "PublicKey" \in Attribute
  /\ Attribute \subseteq PatchableField \cup FixedField
  /\ NoKey \in Value

Patchable == Attribute \cap PatchableField

-----------------------------------------------------------------------------
(* Types *)

NetworkDeviceCensored ==
  [attrs : [Attribute -> Value], Accessible : SUBSET DeviceName]

NetworkDevice ==
  [attrs : [Attribute -> Value], Accessible : SUBSET DeviceName,
   AccessAll : BOOLEAN, AccessOnly : SUBSET DeviceName]

IsNetwork(sn) ==
  DOMAIN sn \subseteq DeviceName /\ sn \in [DOMAIN sn -> NetworkDevice]

IsSpec(s) ==
  /\ DOMAIN s \subseteq NetworkName
  /\ s = [n \in DOMAIN s |-> s[n]]
  /\ \A n \in DOMAIN s : IsNetwork(s[n])

NetworkCensored ==
  [Name : NetworkName, CensoredFor : DeviceName,
   Devices : UNION {[D -> NetworkDeviceCensored] : D \in SUBSET DeviceName}]

\* What a device is shown, once it is told about a network and a device name.
Identity == NetworkName \X DeviceName

-----------------------------------------------------------------------------
(* Lookup, copying, censoring and comparison *)

\* GetNetwork(n) and then GetDevice(d) both find something.
Known(s, n, d) == n \in DOMAIN s /\ d \in DOMAIN s[n]

\* Mutation of CloneDevice: PublicKey is forgotten like Accessible.
CloneDeviceDropsKey(nd) == [nd EXCEPT !.Accessible = {}, !.attrs["PublicKey"] = NoKey]

\* NetworkDevice.Clone.  The copy of the embedded NetworkDeviceCensored is
\* built field by field and leaves Accessible out.
CloneDevice(nd) == [nd EXCEPT !.Accessible = {}]

Clone(s) ==
  [n \in DOMAIN s |-> [d \in DOMAIN s[n] |-> CloneDevice(s[n][d])]]

\* The embedded NetworkDeviceCensored of a NetworkDevice.
Censored(nd) == [attrs |-> nd.attrs, Accessible |-> nd.Accessible]

\* Mutation of Visible: access to all devices is not looked at.
VisibleListed(sn, d) == {e \in DOMAIN sn : e \in sn[d].AccessOnly}

\* The devices of sn that the access control of device d lets it see.
Visible(sn, d) ==
  {e \in DOMAIN sn : sn[d].AccessAll \/ e \in sn[d].AccessOnly}

CensorForDevice(s, n, d) ==
  [Name |-> n, CensoredFor |-> d,
   Devices |-> [e \in Visible(s[n], d) |-> Censored(s[n][e])]]

DeviceEqual(a, b) == a.attrs = b.attrs /\ a.Accessible = b.Accessible

NetworkCensoredEqual(a, b) ==
  /\ a.Name = b.Name
  /\ DOMAIN a.Devices = DOMAIN b.Devices
  /\ \A e \in DOMAIN a.Devices : DeviceEqual(a.Devices[e], b.Devices[e])
  /\ a.CensoredFor = b.CensoredFor
=============================================================================
