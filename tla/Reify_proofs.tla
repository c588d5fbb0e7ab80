----------------------------- MODULE Reify_proofs -----------------------------
(***************************************************************************)
(* What the device clients and the coordination server achieve together,   *)
(* for any number of clients, forwarders, networks and restarts.           *)
(***************************************************************************)
EXTENDS Reify, TLAPS

\* The theorems of the server, about the server of Reify.
Proved == INSTANCE CoordServer_proofs

-----------------------------------------------------------------------------
(* Server and Proved are the same server *)

LEMMA SameData ==
  /\ Server!PatchReifySpecRequest = Proved!PatchReifySpecRequest
  /\ Server!NetworkCensored = Proved!NetworkCensored
  /\ Server!NetworkCensored = NetworkCensored
  /\ Server!Identity = Identity
BY DEF Server!PatchReifySpecRequest, Proved!PatchReifySpecRequest,
   Server!Patchable, Proved!Patchable, Server!PatchableField,
   Proved!PatchableField, Server!NetworkCensored, Proved!NetworkCensored,
   Server!NetworkDeviceCensored, Proved!NetworkDeviceCensored,
   Server!Identity, Proved!Identity,
   NetworkCensored, NetworkDeviceCensored, Identity

LEMMA SamePatch ==
  ASSUME NEW tok, NEW n, NEW d, NEW req
  PROVE  Server!PatchReifySpec(tok, n, d, req) <=> Proved!PatchReifySpec(tok, n, d, req)
BY ZenonT(30) DEF
   Server!PatchReifySpec, Proved!PatchReifySpec, Server!Admitted,
   Proved!Admitted, Server!VerifyIdentity, Proved!VerifyIdentity,
   Server!PatchValid, Proved!PatchValid, Server!Patched, Proved!Patched,
   Server!Clone, Proved!Clone, Server!CloneDevice, Proved!CloneDevice,
   Server!UpdateSpecNoLock, Proved!UpdateSpecNoLock, Server!Kept, Proved!Kept,
   Server!Keep, Proved!Keep, Server!SliceUnion, Proved!SliceUnion,
   Server!NoMarks, Proved!NoMarks, Server!StillAccepted, Proved!StillAccepted,
   Server!IsSpec, Proved!IsSpec, Server!IsNetwork, Proved!IsNetwork,
   Server!NetworkDevice, Proved!NetworkDevice, Server!Identity,
   Proved!Identity, Server!NetworkCensored, Proved!NetworkCensored,
   Server!NetworkDeviceCensored, Proved!NetworkDeviceCensored, Server!Known,
   Proved!Known, Server!NetworkCensoredEqual, Proved!NetworkCensoredEqual,
   Server!DeviceEqual, Proved!DeviceEqual, Server!CensorForDevice,
   Proved!CensorForDevice, Server!Visible, Proved!Visible, Server!Censored,
   Proved!Censored

LEMMA SamePost ==
  ASSUME NEW tok, NEW n, NEW d, NEW rep
  PROVE  Server!PostReifyStatus(tok, n, d, rep) <=> Proved!PostReifyStatus(tok, n, d, rep)
BY DEF
   Server!PostReifyStatus, Proved!PostReifyStatus, Server!Admitted,
   Proved!Admitted, Server!VerifyIdentity, Proved!VerifyIdentity,
   Server!ReportIsCurrent, Proved!ReportIsCurrent, Server!IsSpec,
   Proved!IsSpec, Server!IsNetwork, Proved!IsNetwork, Server!NetworkDevice,
   Proved!NetworkDevice, Server!Identity, Proved!Identity,
   Server!NetworkCensored, Proved!NetworkCensored,
   Server!NetworkDeviceCensored, Proved!NetworkDeviceCensored, Server!Known,
   Proved!Known, Server!NetworkCensoredEqual, Proved!NetworkCensoredEqual,
   Server!DeviceEqual, Proved!DeviceEqual, Server!CensorForDevice,
   Proved!CensorForDevice, Server!Visible, Proved!Visible, Server!Censored,
   Proved!Censored

LEMMA SameUpdate ==
  ASSUME NEW newSpec
  PROVE  Server!UpdateSpec(newSpec) <=> Proved!UpdateSpec(newSpec)
BY ZenonT(30) DEF
   Server!UpdateSpec, Proved!UpdateSpec, Server!UpdateSpecNoLock,
   Proved!UpdateSpecNoLock, Server!Kept, Proved!Kept, Server!Keep,
   Proved!Keep, Server!SliceUnion, Proved!SliceUnion, Server!NoMarks,
   Proved!NoMarks, Server!StillAccepted, Proved!StillAccepted, Server!IsSpec,
   Proved!IsSpec, Server!IsNetwork, Proved!IsNetwork, Server!NetworkDevice,
   Proved!NetworkDevice, Server!Identity, Proved!Identity,
   Server!NetworkCensored, Proved!NetworkCensored,
   Server!NetworkDeviceCensored, Proved!NetworkDeviceCensored, Server!Known,
   Proved!Known, Server!NetworkCensoredEqual, Proved!NetworkCensoredEqual,
   Server!DeviceEqual, Proved!DeviceEqual, Server!CensorForDevice,
   Proved!CensorForDevice, Server!Visible, Proved!Visible, Server!Censored,
   Proved!Censored

LEMMA SameRestart ==
  ASSUME NEW config
  PROVE  Server!Restart(config) <=> Proved!Restart(config)
BY DEF Server!Restart, Proved!Restart, Server!Identity, Proved!Identity,
   Server!NoMarks, Proved!NoMarks

LEMMA SameInit == Server!Init <=> Proved!Init
BY DEF Server!Init, Proved!Init, Server!Identity, Proved!Identity, Server!NoMarks,
   Proved!NoMarks

LEMMA SameNext == Server!Next <=> Proved!Next
BY SameData, SamePatch, SamePost, SameUpdate, SameRestart DEF Server!Next, Proved!Next

ServerInv == Server!TypeOK /\ Server!LatestIsCurrent

LEMMA SameInv == ServerInv <=> Proved!Inv
BY DEF ServerInv,
   Server!TypeOK, Proved!TypeOK, Server!LatestIsCurrent,
   Proved!LatestIsCurrent, Server!IsSpec, Proved!IsSpec, Server!IsNetwork,
   Proved!IsNetwork, Server!NetworkDevice, Proved!NetworkDevice,
   Server!Identity, Proved!Identity, Server!NetworkCensored,
   Proved!NetworkCensored, Server!NetworkDeviceCensored,
   Proved!NetworkDeviceCensored, Server!Known, Proved!Known,
   Server!NetworkCensoredEqual, Proved!NetworkCensoredEqual,
   Server!DeviceEqual, Proved!DeviceEqual, Server!CensorForDevice,
   Proved!CensorForDevice, Server!Visible, Proved!Visible, Server!Censored,
   Proved!Censored, Proved!Inv

LEMMA ServerInit ==
  ASSUME Server!Init PROVE ServerInv
<1>1. Proved!Init
  BY SameInit
<1>2. Proved!Inv
  BY <1>1, Proved!InitInv, ServerAssumption, AttributeAssumption
  DEF Identity, Proved!Identity, NetworkCensored, Proved!NetworkCensored,
      NetworkDeviceCensored, Proved!NetworkDeviceCensored, IsSpec,
      Proved!IsSpec, IsNetwork, Proved!IsNetwork, NetworkDevice,
      Proved!NetworkDevice, PatchableField, Proved!PatchableField,
      FixedField, Proved!FixedField
<1>. QED BY <1>2, SameInv

LEMMA ServerStep ==
  ASSUME ServerInv, [Server!Next]_serverVars PROVE ServerInv'
<1>1. Proved!Inv
  BY SameInv
<1>2. [Proved!Next]_Proved!vars
  BY SameNext DEF serverVars, Proved!vars
<1>3. Proved!Inv'
  BY <1>1, <1>2, Proved!StepInv, ServerAssumption, AttributeAssumption
  DEF Identity, Proved!Identity, NetworkCensored, Proved!NetworkCensored,
      NetworkDeviceCensored, Proved!NetworkDeviceCensored, IsSpec,
      Proved!IsSpec, IsNetwork, Proved!IsNetwork, NetworkDevice,
      Proved!NetworkDevice, PatchableField, Proved!PatchableField,
      FixedField, Proved!FixedField
<1>. QED BY <1>3, SameInv, PTL
-----------------------------------------------------------------------------
(* The inductive invariants *)

AtWork == {"keys", "accessible", "apply", "post"}

\* A client in ReifySpec works on a view; once it is through updateMyKeys, on
\* one that holds its own device with its own key.
HasView(c) == pc[c] \in AtWork => nc[c] \in NetworkCensored

HasPublished(c) ==
  pc[c] \in AtWork \ {"keys"} => SeesItself(c) /\ KeyPublished(c, PublicKey(c, key[c]))

\* And such a view is all that a machine is ever configured from.
OwnKeyApplied(c) ==
  applied[c] # NotApplied =>
    /\ c[2] \in DOMAIN applied[c].nc.Devices
    /\ applied[c].nc.Devices[c[2]].attrs["PublicKey"] = PublicKey(c, applied[c].key)

Inv ==
  /\ TypeOK
  /\ Server!LatestIsCurrent
  /\ \A c \in Client : HasView(c) /\ HasPublished(c) /\ OwnKeyApplied(c)

\* What follows needs more of the world: requests do not outlive their client's
\* interest in them, and the machine keeps what was applied.
Tame == Faults \cap {"delayed", "apply", "reboot"} = {}

\* A client on the list that runs ReifySpec again works on the view that put it
\* there: whatever else it may be shown takes it off the list.
WorksOnAccepted(c) ==
  c \in Server!Listed /\ pc[c] \in AtWork => nc[c] = accepted[c]

\* The machine has what the client is about to report.
ReportsApplied(c) == pc[c] = "post" => applied[c] # NotApplied /\ applied[c].nc = nc[c]

\* And what it last reported.
AppliedAccepted(c) ==
  c \in Server!Listed => applied[c] # NotApplied /\ applied[c].nc = accepted[c]

TameInv ==
  /\ late = {}
  /\ \A c \in Client : WorksOnAccepted(c) /\ ReportsApplied(c) /\ AppliedAccepted(c)

-----------------------------------------------------------------------------
(* Types *)

LEMMA ClientFacts ==
  ASSUME NEW c \in Client
  PROVE  /\ c \in Identity /\ c = <<c[1], c[2]>>
         /\ c[1] \in NetworkName /\ c[2] \in DeviceName
         /\ TokenOf[c] \in Token
BY ClientAssumption DEF Identity

LEMMA ViewShape ==
  ASSUME NEW x \in NetworkCensored
  PROVE  /\ x.Name \in NetworkName /\ x.CensoredFor \in DeviceName
         /\ DOMAIN x.Devices \subseteq DeviceName
         /\ x.Devices \in [DOMAIN x.Devices -> NetworkDeviceCensored]
<1>1. PICK D \in SUBSET DeviceName : x.Devices \in [D -> NetworkDeviceCensored]
  BY DEF NetworkCensored
<1>. QED BY <1>1 DEF NetworkCensored

LEMMA EmptyFunction ==
  ASSUME NEW S PROVE <<>> \in [{} -> S]
<1>1. DOMAIN <<>> = {}
  OBVIOUS
<1>. QED BY <1>1

LEMMA KeyBody ==
  ASSUME NEW k \in Value
  PROVE  [attrs |-> [f \in {"PublicKey"} |-> k], AccessibleSet |-> FALSE, Accessible |-> {}]
           \in Server!PatchReifySpecRequest
<1>1. {"PublicKey"} \in SUBSET Server!Patchable
  BY AttributeAssumption DEF Server!Patchable, Server!PatchableField
<1>2. [f \in {"PublicKey"} |-> k] \in [{"PublicKey"} -> Value]
  OBVIOUS
<1>. QED BY <1>1, <1>2 DEF Server!PatchReifySpecRequest

LEMMA AccessibleBody ==
  ASSUME NEW accessible \in SUBSET DeviceName
  PROVE  [attrs |-> <<>>, AccessibleSet |-> TRUE, Accessible |-> accessible]
           \in Server!PatchReifySpecRequest
<1>1. <<>> \in UNION {[A -> Value] : A \in SUBSET Server!Patchable}
  BY EmptyFunction
<1>. QED BY <1>1 DEF Server!PatchReifySpecRequest

\* One device of a view is replaced.
LEMMA WithDevice ==
  ASSUME NEW x \in NetworkCensored, NEW d \in DOMAIN x.Devices,
         NEW dev \in NetworkDeviceCensored
  PROVE  /\ [x EXCEPT !.Devices[d] = dev] \in NetworkCensored
         /\ DOMAIN [x EXCEPT !.Devices[d] = dev].Devices = DOMAIN x.Devices
         /\ [x EXCEPT !.Devices[d] = dev].Devices[d] = dev
<1>1. x.Devices \in [DOMAIN x.Devices -> NetworkDeviceCensored] /\ DOMAIN x.Devices \subseteq DeviceName
  BY ViewShape
<1>2. [x.Devices EXCEPT ![d] = dev] \in [DOMAIN x.Devices -> NetworkDeviceCensored]
  BY <1>1
<1>. QED BY <1>1, <1>2 DEF NetworkCensored

LEMMA WithKeyType ==
  ASSUME nc \in [Client -> NetworkCensored \cup {NoReport}], NEW c \in Client,
         nc[c] \in NetworkCensored, SeesItself(c), NEW k \in Value
  PROVE  /\ WithKey(c, k) \in [Client -> NetworkCensored \cup {NoReport}]
         /\ \A e \in Client \ {c} : WithKey(c, k)[e] = nc[e]
         /\ WithKey(c, k)[c] \in NetworkCensored
         /\ c[2] \in DOMAIN WithKey(c, k)[c].Devices
         /\ WithKey(c, k)[c].Devices[c[2]].attrs["PublicKey"] = k
<1>. DEFINE d == c[2]
            dev == [Mine(c) EXCEPT !.attrs["PublicKey"] = k]
            x == [nc[c] EXCEPT !.Devices[d] = dev]
<1>1. Mine(c) \in NetworkDeviceCensored
  BY ViewShape DEF Mine, SeesItself
<1>2. dev \in NetworkDeviceCensored /\ dev.attrs["PublicKey"] = k
  BY <1>1, AttributeAssumption DEF NetworkDeviceCensored
<1>3. x \in NetworkCensored /\ d \in DOMAIN x.Devices /\ x.Devices[d] = dev
  BY <1>2, WithDevice DEF SeesItself
<1>4. WithKey(c, k) = [nc EXCEPT ![c] = x]
  BY DEF WithKey, Mine
<1>. QED BY <1>2, <1>3, <1>4

LEMMA WithAccessibleType ==
  ASSUME nc \in [Client -> NetworkCensored \cup {NoReport}], NEW c \in Client,
         nc[c] \in NetworkCensored, SeesItself(c), NEW accessible \in SUBSET DeviceName
  PROVE  /\ WithAccessible(c, accessible) \in [Client -> NetworkCensored \cup {NoReport}]
         /\ \A e \in Client \ {c} : WithAccessible(c, accessible)[e] = nc[e]
         /\ WithAccessible(c, accessible)[c] \in NetworkCensored
         /\ c[2] \in DOMAIN WithAccessible(c, accessible)[c].Devices
         /\ WithAccessible(c, accessible)[c].Devices[c[2]].attrs = Mine(c).attrs
<1>. DEFINE d == c[2]
            dev == [Mine(c) EXCEPT !.Accessible = accessible]
            x == [nc[c] EXCEPT !.Devices[d] = dev]
<1>1. Mine(c) \in NetworkDeviceCensored
  BY ViewShape DEF Mine, SeesItself
<1>2. dev \in NetworkDeviceCensored /\ dev.attrs = Mine(c).attrs
  BY <1>1 DEF NetworkDeviceCensored
<1>3. x \in NetworkCensored /\ d \in DOMAIN x.Devices /\ x.Devices[d] = dev
  BY <1>2, WithDevice DEF SeesItself
<1>4. WithAccessible(c, accessible) = [nc EXCEPT ![c] = x]
  BY DEF WithAccessible, Mine
<1>. QED BY <1>2, <1>3, <1>4

\* chooseEndpoints chooses ways to devices.
LEMMA WaysType ==
  ASSUME NEW x \in NetworkCensored, NEW d, NEW answering, NEW w \in Ways(x, d, answering)
  PROVE  w \in UNION {[D -> DeviceName] : D \in SUBSET DeviceName}
<1>1. PICK D \in SUBSET Others(x, d) : w \in [D -> Others(x, d)]
  BY DEF Ways
<1>2. Others(x, d) \subseteq DeviceName
  BY ViewShape DEF Others
<1>3. D \in SUBSET DeviceName /\ w \in [D -> DeviceName]
  BY <1>1, <1>2
<1>. QED BY <1>3

LEMMA CompileType ==
  ASSUME NEW x \in NetworkCensored, NEW d, NEW w
  PROVE  CompileMachine(x, d, w) \in Machine
<1>. DEFINE keyed == {e \in Others(x, d) : x.Devices[e].attrs["PublicKey"] # NoKey}
            forwarded == {e \in keyed \cap DOMAIN w : w[e] # e}
            D == keyed \ forwarded
            peer(e) == [PublicKey |-> x.Devices[e].attrs["PublicKey"],
                        AllowedIPs |-> {e} \cup {g \in forwarded : w[g] = e}]
            P == [PublicKey : Value, AllowedIPs : SUBSET DeviceName]
<1>1. keyed \subseteq DeviceName /\ keyed \subseteq DOMAIN x.Devices
  BY ViewShape DEF Others
<1>2. ASSUME NEW e \in D PROVE peer(e) \in P
  <2>1. x.Devices[e] \in NetworkDeviceCensored
    BY <1>1, ViewShape
  <2>2. x.Devices[e].attrs["PublicKey"] \in Value
    BY <2>1, AttributeAssumption DEF NetworkDeviceCensored
  <2>3. {e} \cup {g \in forwarded : w[g] = e} \subseteq DeviceName
    BY <1>1
  <2>. QED BY <2>2, <2>3
<1>3. [e \in D |-> peer(e)] \in [D -> P] /\ D \in SUBSET DeviceName
  BY <1>1, <1>2
<1>4. CompileMachine(x, d, w) = [peers |-> [e \in D |-> peer(e)],
                                 forwardsIPv4 |-> ForwardsFamily(x, d, IPv4),
                                 forwardsIPv6 |-> ForwardsFamily(x, d, IPv6)]
  BY DEF CompileMachine
<1>5. [e \in D |-> peer(e)] \in UNION {[E -> P] : E \in SUBSET DeviceName}
  <2>. HIDE DEF D, P
  <2>. QED BY <1>3
<1>6. ForwardsFamily(x, d, IPv4) \in BOOLEAN /\ ForwardsFamily(x, d, IPv6) \in BOOLEAN
  BY DEF ForwardsFamily
<1>. HIDE DEF D, peer
<1>. QED BY <1>4, <1>5, <1>6 DEF Machine

-----------------------------------------------------------------------------
(* What a request does is a step of the server *)

LEMMA HandleStep ==
  ASSUME NEW q \in Request, Handle(q)
  PROVE  [Server!Next]_serverVars
<1>1. /\ q.from \in Client /\ q.kind \in {"patch", "post"}
      /\ q.kind = "patch" => q.body \in Server!PatchReifySpecRequest
      /\ q.kind = "post" => q.body \in Server!NetworkCensored
  BY SameData DEF Request
<1>2. /\ TokenOf[q.from] \in Token
      /\ q.from[1] \in NetworkName /\ q.from[2] \in DeviceName
  BY <1>1, ClientFacts
<1>3. CASE q.kind = "patch" /\ Server!PatchReifySpec(TokenOf[q.from], q.from[1], q.from[2], q.body)
  BY <1>1, <1>2, <1>3 DEF Server!Next
<1>4. CASE q.kind = "post" /\ Server!PostReifyStatus(TokenOf[q.from], q.from[1], q.from[2], q.body)
  BY <1>1, <1>2, <1>4 DEF Server!Next
<1>5. CASE UNCHANGED serverVars
  BY <1>5
<1>. QED BY <1>3, <1>4, <1>5 DEF Handle

LEMMA CallStep ==
  ASSUME TypeOK, NEW q \in Request, NEW out, Call(q, out)
  PROVE  /\ [Server!Next]_serverVars
         /\ late' \subseteq Request
         /\ faults' \in 0 .. MaxFaults
<1>1. late \subseteq Request /\ faults \in 0 .. MaxFaults /\ MaxFaults \in Nat
  BY ClientAssumption DEF TypeOK
<1>2. CASE UNCHANGED serverVars /\ late' \subseteq late \cup {q} /\ (faults' = faults + 1 /\ faults < MaxFaults)
  BY <1>1, <1>2
<1>3. CASE Handle(q) /\ late' = late /\ (faults' = faults \/ (faults' = faults + 1 /\ faults < MaxFaults))
  BY <1>1, <1>3, HandleStep
<1>. QED BY <1>2, <1>3 DEF Call, Fault

-----------------------------------------------------------------------------
(* Inv is an invariant *)

LEMMA InitInv ==
  ASSUME Init PROVE Inv
<1>1. ServerInv
  BY ServerInit DEF Init, Start
<1>2. <<>> \in UNION {[D -> DeviceName] : D \in SUBSET DeviceName}
  BY EmptyFunction
<1>3. TypeOK
  <2>1. /\ pc \in [Client -> {"idle", "keys", "accessible", "apply", "post", "panicked"}]
        /\ clLatest \in [Client -> BOOLEAN]
        /\ key \in [Client -> 1 .. MaxKeys]
        /\ nc \in [Client -> NetworkCensored \cup {NoReport}]
        /\ applied \in [Client -> Configuration \cup {NotApplied}]
        /\ reach \in [Client -> SUBSET DeviceName]
        /\ late \subseteq Request
        /\ faults \in 0 .. MaxFaults
    BY ClientAssumption DEF Init, Start
  <2>2. way \in [Client -> UNION {[D -> DeviceName] : D \in SUBSET DeviceName}]
    BY <1>2 DEF Init, Start
  <2>. QED BY <1>1, <2>1, <2>2 DEF TypeOK, ServerInv
<1>4. ASSUME NEW c \in Client PROVE HasView(c) /\ HasPublished(c) /\ OwnKeyApplied(c)
  BY DEF Init, Start, HasView, HasPublished, OwnKeyApplied, AtWork
<1>. QED BY <1>1, <1>3, <1>4 DEF Inv, ServerInv

\* What client c does leaves the others where they are.
OthersSame(c) ==
  \A e \in Client \ {c} : /\ pc'[e] = pc[e] /\ key'[e] = key[e]
                          /\ nc'[e] = nc[e] /\ applied'[e] = applied[e]

LEMMA OthersFrame ==
  ASSUME Inv, NEW c \in Client, OthersSame(c), TypeOK', Server!LatestIsCurrent',
         HasView(c)', HasPublished(c)', OwnKeyApplied(c)'
  PROVE  Inv'
<1>1. ASSUME NEW e \in Client \ {c} PROVE (HasView(e) /\ HasPublished(e) /\ OwnKeyApplied(e))'
  BY <1>1 DEF Inv, OthersSame, HasView, HasPublished, OwnKeyApplied, SeesItself, KeyPublished, Mine
<1>. QED BY <1>1 DEF Inv

LEMMA ClientTypes ==
  ASSUME Inv
  PROVE  /\ pc \in [Client -> {"idle", "keys", "accessible", "apply", "post", "panicked"}]
         /\ clLatest \in [Client -> BOOLEAN]
         /\ key \in [Client -> 1 .. MaxKeys]
         /\ nc \in [Client -> NetworkCensored \cup {NoReport}]
         /\ way \in [Client -> UNION {[D -> DeviceName] : D \in SUBSET DeviceName}]
         /\ applied \in [Client -> Configuration \cup {NotApplied}]
         /\ reach \in [Client -> SUBSET DeviceName]
         /\ late \subseteq Request
         /\ faults \in 0 .. MaxFaults /\ MaxFaults \in Nat
BY ClientAssumption DEF Inv, TypeOK

LEMMA GiveUpTypes ==
  ASSUME Inv, NEW c \in Client, GiveUp(c)
  PROVE  /\ pc' \in [Client -> {"idle", "keys", "accessible", "apply", "post", "panicked"}]
         /\ nc' \in [Client -> NetworkCensored \cup {NoReport}]
         /\ way' \in [Client -> UNION {[D -> DeviceName] : D \in SUBSET DeviceName}]
         /\ pc'[c] = "idle" /\ \A e \in Client \ {c} : pc'[e] = pc[e] /\ nc'[e] = nc[e]
<1>1. <<>> \in UNION {[D -> DeviceName] : D \in SUBSET DeviceName}
  BY EmptyFunction
<1>. QED BY <1>1, ClientTypes DEF GiveUp, Goto

\* A client gives up: whatever it did to the server, it holds nothing itself.
LEMMA GivesUp ==
  ASSUME Inv, NEW c \in Client, GiveUp(c), ServerInv',
         clLatest' \in [Client -> BOOLEAN], key' \in [Client -> 1 .. MaxKeys],
         applied' \in [Client -> Configuration \cup {NotApplied}],
         \A e \in Client : applied'[e] = applied[e] \/ applied'[e] = NotApplied,
         \A e \in Client \ {c} : key'[e] = key[e] /\ applied'[e] = applied[e],
         reach' = reach, late' \subseteq Request, faults' \in 0 .. MaxFaults
  PROVE  Inv'
<1>1. TypeOK'
  BY ClientTypes, GiveUpTypes DEF TypeOK, ServerInv
<1>2. OthersSame(c)
  BY GiveUpTypes DEF OthersSame
<1>3. HasView(c)' /\ HasPublished(c)'
  BY GiveUpTypes DEF HasView, HasPublished, AtWork
<1>4. OwnKeyApplied(c)'
  BY DEF Inv, OwnKeyApplied
<1>. QED BY <1>1, <1>2, <1>3, <1>4, OthersFrame DEF ServerInv

\* A client goes on to l with another copy of its view.
LEMMA GoesOn ==
  ASSUME Inv, NEW c \in Client, NEW l \in AtWork, Goto(c, l), ServerInv',
         nc' \in [Client -> NetworkCensored \cup {NoReport}],
         \A e \in Client \ {c} : nc'[e] = nc[e],
         nc'[c] \in NetworkCensored,
         l # "keys" => /\ c[2] \in DOMAIN nc'[c].Devices
                       /\ nc'[c].Devices[c[2]].attrs["PublicKey"] = PublicKey(c, key[c]),
         way' \in [Client -> UNION {[D -> DeviceName] : D \in SUBSET DeviceName}],
         UNCHANGED <<clLatest, key, applied, reach>>,
         late' \subseteq Request, faults' \in 0 .. MaxFaults
  PROVE  Inv'
<1>1. pc' \in [Client -> {"idle", "keys", "accessible", "apply", "post", "panicked"}]
  BY ClientTypes DEF Goto, AtWork
<1>2. pc'[c] = l /\ \A e \in Client \ {c} : pc'[e] = pc[e]
  BY ClientTypes DEF Goto
<1>3. TypeOK'
  BY <1>1, ClientTypes DEF TypeOK, ServerInv
<1>4. OthersSame(c)
  BY <1>2 DEF OthersSame
<1>5. HasView(c)' /\ HasPublished(c)'
  BY <1>2 DEF HasView, HasPublished, SeesItself, KeyPublished, Mine
<1>6. OwnKeyApplied(c)'
  BY DEF Inv, OwnKeyApplied
<1>. QED BY <1>3, <1>4, <1>5, <1>6, OthersFrame DEF ServerInv

\* Nothing of what the clients hold changes.
LEMMA ClientsStay ==
  ASSUME Inv, ServerInv', UNCHANGED <<pc, key, nc, way, applied>>,
         clLatest' \in [Client -> BOOLEAN], reach' \in [Client -> SUBSET DeviceName],
         late' \subseteq Request, faults' \in 0 .. MaxFaults
  PROVE  Inv'
<1>1. TypeOK'
  BY ClientTypes DEF TypeOK, ServerInv
<1>2. ASSUME NEW e \in Client PROVE (HasView(e) /\ HasPublished(e) /\ OwnKeyApplied(e))'
  BY <1>2 DEF Inv, HasView, HasPublished, OwnKeyApplied, SeesItself, KeyPublished, Mine
<1>. QED BY <1>1, <1>2 DEF Inv, ServerInv

LEMMA ViewType ==
  ASSUME Inv, NEW c \in Client, Server!Known(spec, c[1], c[2])
  PROVE  Server!GetReifySpec(c[1], c[2]) \in NetworkCensored
<1>1. Proved!IsSpec(spec) /\ Proved!Known(spec, c[1], c[2])
  BY DEF Inv, TypeOK, Server!TypeOK, Server!IsSpec, Server!IsNetwork, Server!NetworkDevice,
         Proved!IsSpec, Proved!IsNetwork, Proved!NetworkDevice, Server!Known, Proved!Known
<1>2. Proved!CensorForDevice(spec, c[1], c[2]) \in Proved!NetworkCensored
  BY <1>1, Proved!CensorType, ServerAssumption, AttributeAssumption
  DEF Identity, Proved!Identity, NetworkCensored, Proved!NetworkCensored,
      NetworkDeviceCensored, Proved!NetworkDeviceCensored, IsSpec, Proved!IsSpec,
      IsNetwork, Proved!IsNetwork, NetworkDevice, Proved!NetworkDevice,
      PatchableField, Proved!PatchableField, FixedField, Proved!FixedField
<1>3. Server!GetReifySpec(c[1], c[2]) = Proved!CensorForDevice(spec, c[1], c[2])
  BY DEF Server!GetReifySpec, Server!CensorForDevice, Server!Visible, Server!Censored,
         Proved!CensorForDevice, Proved!Visible, Proved!Censored
<1>. QED BY <1>2, <1>3, SameData

LEMMA InvServer ==
  ASSUME Inv, [Server!Next]_serverVars PROVE ServerInv'
BY ServerStep DEF Inv, TypeOK, ServerInv

LEMMA GetLatestInv ==
  ASSUME Inv, NEW c \in Client, GetLatest(c) PROVE Inv'
<1>1. ServerInv'
  BY InvServer DEF GetLatest
<1>2. clLatest' \in [Client -> BOOLEAN]
  BY ClientTypes DEF GetLatest, Server!GetReifyLatest
<1>. QED BY <1>1, <1>2, ClientsStay, ClientTypes DEF GetLatest

LEMMA GetSpecInv ==
  ASSUME Inv, NEW c \in Client, GetSpec(c) PROVE Inv'
<1>1. ServerInv'
  BY InvServer DEF GetSpec
<1>2. Server!GetReifySpec(c[1], c[2]) \in NetworkCensored
  BY ViewType DEF GetSpec, Admitted, Server!Admitted
<1>3. /\ nc' \in [Client -> NetworkCensored \cup {NoReport}]
      /\ nc'[c] \in NetworkCensored /\ \A e \in Client \ {c} : nc'[e] = nc[e]
  BY <1>2, ClientTypes DEF GetSpec
<1>. QED BY <1>1, <1>3, GoesOn, ClientTypes DEF GetSpec, AtWork

LEMMA PanicInv ==
  ASSUME Inv, NEW c \in Client, Panic(c) PROVE Inv'
<1>1. ServerInv'
  BY InvServer DEF Panic
<1>2. /\ pc' \in [Client -> {"idle", "keys", "accessible", "apply", "post", "panicked"}]
      /\ pc'[c] = "panicked" /\ \A e \in Client \ {c} : pc'[e] = pc[e]
  BY ClientTypes DEF Panic, Goto
<1>3. TypeOK'
  BY <1>1, <1>2, ClientTypes DEF Panic, TypeOK, ServerInv
<1>4. OthersSame(c)
  BY <1>2 DEF OthersSame, Panic
<1>5. (HasView(c) /\ HasPublished(c) /\ OwnKeyApplied(c))'
  BY <1>2 DEF Inv, Panic, HasView, HasPublished, OwnKeyApplied, AtWork
<1>. QED BY <1>1, <1>3, <1>4, <1>5, OthersFrame DEF ServerInv

\* Either way of patching, with the call or without.
LEMMA PatchSpecInv ==
  ASSUME Inv, NEW c \in Client, NEW out, NEW body \in Server!PatchReifySpecRequest,
         NEW copy \in [Client -> NetworkCensored \cup {NoReport}],
         NEW w \in [Client -> UNION {[D -> DeviceName] : D \in SUBSET DeviceName}],
         NEW l \in AtWork \ {"keys"},
         PatchSpec(c, out, body, copy, w, l),
         \A e \in Client \ {c} : copy[e] = nc[e],
         copy[c] \in NetworkCensored,
         c[2] \in DOMAIN copy[c].Devices,
         copy[c].Devices[c[2]].attrs["PublicKey"] = PublicKey(c, key[c]),
         UNCHANGED <<clLatest, key, applied, reach>>
  PROVE  Inv'
<1>. DEFINE q == [kind |-> "patch", from |-> c, body |-> body]
<1>1. q \in Request
  BY DEF Request
<1>2. Call(q, out) /\ IF Succeeds(q, out) THEN nc' = copy /\ Goto(c, l) /\ way' = w ELSE GiveUp(c)
  BY DEF PatchSpec
<1>3. late' \subseteq Request /\ faults' \in 0 .. MaxFaults /\ ServerInv'
  BY <1>1, <1>2, CallStep, InvServer DEF Inv
<1>. HIDE DEF q
<1>4. CASE Succeeds(q, out)
  BY <1>2, <1>3, <1>4, GoesOn
<1>5. CASE ~Succeeds(q, out)
  BY <1>2, <1>3, <1>5, GivesUp, ClientTypes
<1>. QED BY <1>4, <1>5

LEMMA SkipInv ==
  ASSUME Inv, NEW c \in Client, NEW out,
         NEW w \in [Client -> UNION {[D -> DeviceName] : D \in SUBSET DeviceName}],
         NEW l \in AtWork \ {"keys"},
         Skip(c, out, w, l),
         pc[c] \in AtWork, SeesItself(c), KeyPublished(c, PublicKey(c, key[c])),
         UNCHANGED <<clLatest, key, applied, reach>>
  PROVE  Inv'
<1>1. ServerInv' /\ late' \subseteq Request /\ faults' \in 0 .. MaxFaults
  BY InvServer, ClientTypes DEF Skip
<1>2. nc[c] \in NetworkCensored
  BY DEF Inv, HasView
<1>. QED BY <1>1, <1>2, GoesOn, ClientTypes DEF Skip, SeesItself, KeyPublished, Mine

LEMMA UpdateMyKeysInv ==
  ASSUME Inv, NEW c \in Client, NEW out, UpdateMyKeys(c, out) PROVE Inv'
<1>. DEFINE k == PublicKey(c, key[c])
            body == [attrs |-> [f \in {"PublicKey"} |-> k],
                     AccessibleSet |-> FALSE, Accessible |-> {}]
<1>1. /\ pc[c] = "keys" /\ SeesItself(c)
      /\ IF KeyPublished(c, k) THEN Skip(c, out, way, "accessible")
         ELSE PatchSpec(c, out, body, WithKey(c, k), way, "accessible")
      /\ UNCHANGED <<clLatest, key, applied, reach>>
  BY DEF UpdateMyKeys
<1>2. k \in Value
  BY ClientTypes, ClientAssumption
<1>3. nc[c] \in NetworkCensored
  BY <1>1 DEF Inv, HasView, AtWork
<1>4. body \in Server!PatchReifySpecRequest
  BY <1>2, KeyBody
<1>. HIDE DEF k, body
<1>5. CASE KeyPublished(c, k)
  BY <1>1, <1>5, SkipInv, ClientTypes DEF AtWork, k
<1>6. CASE ~KeyPublished(c, k)
  BY <1>1, <1>2, <1>3, <1>4, <1>6, PatchSpecInv, WithKeyType, ClientTypes DEF AtWork, k
<1>. QED BY <1>5, <1>6

LEMMA PatchAccessibleInv ==
  ASSUME Inv, NEW c \in Client, NEW out, PatchAccessible(c, out) PROVE Inv'
<1>1. PICK w \in Ways(nc[c], c[2], Answering(c)) :
        \E accessible \in {IF c \in CanForward THEN DOMAIN w ELSE {}} :
        \E chosen \in {[way EXCEPT ![c] = w]} :
          IF AccessibleKnown(c, accessible)
          THEN Skip(c, out, chosen, "apply")
          ELSE PatchSpec(c, out, [attrs |-> <<>>,
                                  AccessibleSet |-> TRUE, Accessible |-> accessible],
                         WithAccessible(c, accessible), chosen, "apply")
  BY DEF PatchAccessible
<1>. DEFINE accessible == IF c \in CanForward THEN DOMAIN w ELSE {}
            chosen == [way EXCEPT ![c] = w]
            body == [attrs |-> <<>>, AccessibleSet |-> TRUE, Accessible |-> accessible]
<1>2. IF AccessibleKnown(c, accessible) THEN Skip(c, out, chosen, "apply")
      ELSE PatchSpec(c, out, body, WithAccessible(c, accessible), chosen, "apply")
  BY <1>1
<1>3. pc[c] = "accessible" /\ UNCHANGED <<clLatest, key, applied, reach>>
  BY DEF PatchAccessible
<1>4. nc[c] \in NetworkCensored /\ SeesItself(c) /\ KeyPublished(c, PublicKey(c, key[c]))
  BY <1>3 DEF Inv, HasView, HasPublished, AtWork
<1>5. w \in UNION {[D -> DeviceName] : D \in SUBSET DeviceName}
  BY <1>4, WaysType
<1>6. DOMAIN w \subseteq DeviceName
  BY <1>5
<1>7. accessible \in SUBSET DeviceName
  BY <1>6
<1>8. chosen \in [Client -> UNION {[D -> DeviceName] : D \in SUBSET DeviceName}]
  BY <1>5, ClientTypes
<1>9. body \in Server!PatchReifySpecRequest
  BY <1>7, AccessibleBody
<1>. HIDE DEF accessible, chosen, body
<1>10. CASE AccessibleKnown(c, accessible)
  BY <1>2, <1>3, <1>4, <1>8, <1>10, SkipInv DEF AtWork
<1>11. CASE ~AccessibleKnown(c, accessible)
  BY <1>2, <1>3, <1>4, <1>7, <1>8, <1>9, <1>11, PatchSpecInv, WithAccessibleType, ClientTypes
  DEF AtWork, KeyPublished
<1>. QED BY <1>10, <1>11

\* What a machine is told to be is made of what the client works on.
LEMMA CompiledType ==
  ASSUME Inv, NEW c \in Client, nc[c] \in NetworkCensored
  PROVE  Compiled(c) \in Configuration
BY CompileType, ClientTypes DEF Compiled, Configuration

LEMMA ApplyInv ==
  ASSUME Inv, NEW c \in Client, NEW out, Apply(c, out) PROVE Inv'
<1>1. pc[c] = "apply" /\ UNCHANGED <<serverVars, clLatest, key, reach, late>>
  BY DEF Apply
<1>2. ServerInv'
  BY <1>1, InvServer
<1>3. nc[c] \in NetworkCensored /\ SeesItself(c) /\ KeyPublished(c, PublicKey(c, key[c]))
  BY <1>1 DEF Inv, HasView, HasPublished, AtWork
<1>4. CASE /\ applied' = [applied EXCEPT ![c] = Compiled(c)]
           /\ Goto(c, "post")
           /\ UNCHANGED <<nc, way, faults>>
  <2>1. /\ applied' \in [Client -> Configuration \cup {NotApplied}]
        /\ applied'[c] = Compiled(c)
        /\ \A e \in Client \ {c} : applied'[e] = applied[e]
    BY <1>3, <1>4, CompiledType, ClientTypes
  <2>2. /\ pc' \in [Client -> {"idle", "keys", "accessible", "apply", "post", "panicked"}]
        /\ pc'[c] = "post" /\ \A e \in Client \ {c} : pc'[e] = pc[e]
    BY <1>4, ClientTypes DEF Goto
  <2>3. TypeOK'
    BY <1>1, <1>2, <1>4, <2>1, <2>2, ClientTypes DEF TypeOK, ServerInv
  <2>4. OthersSame(c)
    BY <1>1, <1>4, <2>1, <2>2 DEF OthersSame
  <2>5. HasView(c)' /\ HasPublished(c)'
    BY <1>1, <1>3, <1>4 DEF HasView, HasPublished, SeesItself, KeyPublished, Mine
  <2>6. OwnKeyApplied(c)'
    BY <1>1, <1>3, <2>1 DEF OwnKeyApplied, Compiled, SeesItself, KeyPublished, Mine
  <2>. QED BY <1>2, <2>3, <2>4, <2>5, <2>6, OthersFrame DEF ServerInv
<1>5. CASE Fault("dns") /\ GiveUp(c) /\ UNCHANGED applied
  BY <1>1, <1>2, <1>5, GivesUp, ClientTypes DEF Fault
<1>6. CASE Fault("apply") /\ GiveUp(c) /\ applied' = [applied EXCEPT ![c] = NotApplied]
  BY <1>1, <1>2, <1>6, GivesUp, ClientTypes DEF Fault
<1>. QED BY <1>4, <1>5, <1>6 DEF Apply

LEMMA ApplyPanicsInv ==
  ASSUME Inv, NEW c \in Client, ApplyPanics(c) PROVE Inv'
<1>1. ServerInv'
  BY InvServer DEF ApplyPanics
<1>2. nc[c] \in NetworkCensored /\ SeesItself(c) /\ KeyPublished(c, PublicKey(c, key[c]))
  BY DEF ApplyPanics, Inv, HasView, HasPublished, AtWork
<1>3. /\ applied' \in [Client -> Configuration \cup {NotApplied}]
      /\ applied'[c] = Compiled(c)
      /\ \A e \in Client \ {c} : applied'[e] = applied[e]
  BY <1>2, CompiledType, ClientTypes DEF ApplyPanics
<1>4. /\ pc' \in [Client -> {"idle", "keys", "accessible", "apply", "post", "panicked"}]
      /\ pc'[c] = "panicked" /\ \A e \in Client \ {c} : pc'[e] = pc[e]
  BY ClientTypes DEF ApplyPanics, Goto
<1>5. TypeOK'
  BY <1>1, <1>3, <1>4, ClientTypes DEF ApplyPanics, TypeOK, ServerInv
<1>6. OthersSame(c)
  BY <1>3, <1>4 DEF OthersSame, ApplyPanics
<1>7. HasView(c)' /\ HasPublished(c)'
  BY <1>4 DEF HasView, HasPublished, AtWork
<1>8. OwnKeyApplied(c)'
  BY <1>2, <1>3 DEF OwnKeyApplied, Compiled, SeesItself, KeyPublished, Mine
<1>. QED BY <1>1, <1>5, <1>6, <1>7, <1>8, OthersFrame DEF ServerInv

LEMMA PostInv ==
  ASSUME Inv, NEW c \in Client, NEW out, Post(c, out) PROVE Inv'
<1>. DEFINE q == [kind |-> "post", from |-> c, body |-> nc[c]]
<1>1. /\ pc[c] = "post" /\ Call(q, out) /\ GiveUp(c) /\ UNCHANGED <<key, applied, reach>>
      /\ clLatest' = [clLatest EXCEPT ![c] = IF Succeeds(q, out) THEN Current(q) ELSE @]
  BY DEF Post
<1>2. nc[c] \in NetworkCensored
  BY <1>1 DEF Inv, HasView, AtWork
<1>3. q \in Request
  BY <1>2 DEF Request
<1>. HIDE DEF q
<1>4. late' \subseteq Request /\ faults' \in 0 .. MaxFaults /\ ServerInv'
  BY <1>1, <1>3, CallStep, InvServer DEF Inv
<1>5. Current(q) \in BOOLEAN
  BY DEF Current
<1>6. clLatest' \in [Client -> BOOLEAN]
  BY <1>1, <1>5, ClientTypes
<1>. QED BY <1>1, <1>4, <1>6, GivesUp, ClientTypes

LEMMA HandleLateInv ==
  ASSUME Inv, NEW q \in late, HandleLate(q) PROVE Inv'
<1>1. q \in Request
  BY ClientTypes
<1>2. ServerInv'
  BY <1>1, HandleStep, InvServer DEF HandleLate
<1>. QED BY <1>2, ClientsStay, ClientTypes DEF HandleLate, clientVars

LEMMA RestartedInv ==
  ASSUME Inv, NEW c \in Client, NEW f, Fault(f), Restarted(c),
         \/ UNCHANGED applied
         \/ applied' = [applied EXCEPT ![c] = NotApplied]
  PROVE  Inv'
<1>1. ServerInv'
  BY InvServer DEF Restarted
<1>2. /\ key' \in [Client -> 1 .. MaxKeys]
      /\ \A e \in Client \ {c} : key'[e] = key[e]
  BY ClientTypes, ClientAssumption DEF Restarted
<1>3. /\ applied' \in [Client -> Configuration \cup {NotApplied}]
      /\ \A e \in Client : applied'[e] = applied[e] \/ applied'[e] = NotApplied
      /\ \A e \in Client \ {c} : applied'[e] = applied[e]
  BY ClientTypes
<1>4. clLatest' \in [Client -> BOOLEAN] /\ GiveUp(c) /\ reach' = reach /\ late' \subseteq Request
  BY ClientTypes DEF Restarted
<1>5. faults' \in 0 .. MaxFaults
  BY ClientTypes DEF Fault
<1>. QED BY <1>1, <1>2, <1>3, <1>4, <1>5, GivesUp

LEMMA RestartServerStep ==
  ASSUME NEW config \in Configs, RestartServer(config) PROVE [Server!Next]_serverVars
BY DEF RestartServer, Server!Next

LEMMA RestartServerInv ==
  ASSUME Inv, NEW config \in Configs, RestartServer(config) PROVE Inv'
<1>1. ServerInv'
  BY RestartServerStep, InvServer
<1>. QED BY <1>1, ClientsStay, ClientTypes DEF RestartServer, clientVars, Fault

LEMMA ReachInv ==
  ASSUME Inv, NEW c \in Client, NEW e \in DeviceName, Reach(c, e) PROVE Inv'
<1>1. ServerInv'
  BY InvServer DEF Reach
<1>2. reach' \in [Client -> SUBSET DeviceName]
  BY ClientTypes DEF Reach
<1>. QED BY <1>1, <1>2, ClientsStay, ClientTypes DEF Reach, clientVars, Fault

LEMMA StepInv ==
  ASSUME Inv, [Next]_vars PROVE Inv'
<1>1. ASSUME NEW c \in Client, NEW out \in Outcome, Step(c, out) PROVE Inv'
  BY <1>1, GetLatestInv, GetSpecInv, PanicInv, UpdateMyKeysInv, PatchAccessibleInv,
     ApplyInv, ApplyPanicsInv, PostInv DEF Step
<1>2. ASSUME NEW q \in late, HandleLate(q) PROVE Inv'
  BY <1>2, HandleLateInv
<1>3. ASSUME NEW c \in Client, Crash(c) \/ Reboot(c) PROVE Inv'
  BY <1>3, RestartedInv DEF Crash, Reboot
<1>4. ASSUME NEW config \in Configs, RestartServer(config) PROVE Inv'
  BY <1>4, RestartServerInv
<1>5. ASSUME NEW c \in Client, NEW e \in DeviceName \ {c[2]}, Reach(c, e) PROVE Inv'
  BY <1>5, ReachInv
<1>6. CASE UNCHANGED vars
  <2>1. ServerInv'
    BY <1>6, InvServer DEF vars, serverVars
  <2>. QED BY <1>6, <2>1, ClientsStay, ClientTypes DEF vars
<1>. QED BY <1>1, <1>2, <1>3, <1>4, <1>5, <1>6 DEF Next

LEMMA Invariance == Spec => []Inv
<1>1. Init => Inv
  BY InitInv
<1>2. Inv /\ [Next]_vars => Inv'
  BY StepInv
<1>. QED BY <1>1, <1>2, PTL DEF Spec

\* Whatever is lost, late or restarted, a client in ReifySpec holds a view, a
\* machine is only configured from a view with a key, and what is sent to the
\* server is a request it understands.
THEOREM TypeCorrect == Spec => []TypeOK
<1>1. Inv => TypeOK
  BY DEF Inv
<1>. QED BY <1>1, Invariance, PTL
-----------------------------------------------------------------------------
(* TameInv is an invariant of a tame world *)

\* What the server shows client c now.
View(c) == Server!GetReifySpec(c[1], c[2])

LEMMA ListedView ==
  ASSUME ServerInv, NEW c \in Client, c \in Server!Listed
  PROVE  /\ Server!Known(spec, c[1], c[2])
         /\ accepted[c] \in NetworkCensored
         /\ accepted[c] = View(c)
<1>1. c = <<c[1], c[2]>> /\ c[1] \in NetworkName /\ c[2] \in DeviceName
  BY ClientFacts
<1>2. /\ Server!Known(spec, c[1], c[2])
      /\ accepted[c] \in Server!NetworkCensored
      /\ Server!NetworkCensoredEqual(accepted[c], View(c))
  BY <1>1 DEF ServerInv, Server!LatestIsCurrent, Server!Listed, View, Server!GetReifySpec
<1>. DEFINE x == accepted[c]
            y == View(c)
<1>3. x = [Name |-> x.Name, CensoredFor |-> x.CensoredFor, Devices |-> x.Devices]
  BY <1>2 DEF Server!NetworkCensored
<1>4. PICK D \in SUBSET DeviceName : x.Devices \in [D -> Server!NetworkDeviceCensored]
  BY <1>2 DEF Server!NetworkCensored
<1>5. DOMAIN y.Devices = DOMAIN x.Devices
  BY <1>2 DEF Server!NetworkCensoredEqual
<1>6. ASSUME NEW e \in D PROVE x.Devices[e] = y.Devices[e]
  <2>1. y.Devices[e] = Server!Censored(spec[c[1]][e])
    BY <1>4, <1>5 DEF View, Server!GetReifySpec, Server!CensorForDevice
  <2>2. x.Devices[e] \in Server!NetworkDeviceCensored
    BY <1>4
  <2>3. Server!DeviceEqual(x.Devices[e], y.Devices[e])
    BY <1>2, <1>4 DEF Server!NetworkCensoredEqual
  <2>. QED BY <2>1, <2>2, <2>3 DEF Server!DeviceEqual, Server!NetworkDeviceCensored, Server!Censored
<1>7. y.Devices = [e \in DOMAIN y.Devices |-> y.Devices[e]]
  BY DEF View, Server!GetReifySpec, Server!CensorForDevice
<1>8. x.Devices = y.Devices
  <2>. HIDE DEF x, y
  <2>. QED BY <1>4, <1>5, <1>6, <1>7
<1>9. y = [Name |-> y.Name, CensoredFor |-> y.CensoredFor, Devices |-> y.Devices]
  BY DEF View, Server!GetReifySpec, Server!CensorForDevice
<1>10. x.Name = y.Name /\ x.CensoredFor = y.CensoredFor
  BY <1>2 DEF Server!NetworkCensoredEqual
<1>11. x = y
  <2>. HIDE DEF x, y
  <2>. QED BY <1>3, <1>8, <1>9, <1>10
<1>. QED BY <1>2, <1>11, SameData

ListedAreShown == \A c \in Client : c \in Server!Listed => accepted[c] = View(c)

LEMMA ListedViews == ServerInv => ListedAreShown
BY ListedView DEF ListedAreShown

\* A step of the server that puts identity id on no list.
Unposted(id) ==
  id \in Server!Listed' => id \in Server!Listed /\ accepted'[id] = accepted[id]

LEMMA UnchangedUnposted ==
  ASSUME UNCHANGED serverVars, NEW id PROVE Unposted(id)
BY DEF Unposted, Server!Listed, serverVars

LEMMA PatchUnposted ==
  ASSUME ServerInv, NEW tok, NEW n, NEW d, NEW req, Server!PatchReifySpec(tok, n, d, req),
         NEW id \in Identity
  PROVE  Unposted(id)
<1>1. PICK newSpec : Server!UpdateSpecNoLock(newSpec)
  BY DEF Server!PatchReifySpec
<1>2. latest' = Server!Kept(newSpec) /\ accepted' = Server!StillAccepted
  BY <1>1 DEF Server!UpdateSpecNoLock
<1>3. id[1] \in NetworkName /\ id[2] \in DeviceName /\ id \in Server!Identity
  BY SameData DEF Identity
<1>4. ASSUME latest'[id[1]][id[2]] > 0 PROVE latest[id[1]][id[2]] > 0
  <2>1. CASE latest'[id[1]] = Server!NoMarks
    BY <1>3, <1>4, <2>1 DEF Server!NoMarks
  <2>2. CASE latest'[id[1]] = Server!SliceUnion(Server!Keep(newSpec, id[1]), latest[id[1]])
    BY <1>3, <1>4, <2>2 DEF Server!SliceUnion
  <2>3. CASE latest'[id[1]] = latest[id[1]]
    BY <1>4, <2>3
  <2>. QED BY <1>2, <1>3, <2>1, <2>2, <2>3 DEF Server!Kept
<1>5. ASSUME latest'[id[1]][id[2]] > 0 PROVE accepted'[id] = accepted[id]
  BY <1>2, <1>3, <1>5 DEF Server!StillAccepted
<1>. QED BY <1>4, <1>5, <1>3 DEF Unposted, Server!Listed

LEMMA PostUnposted ==
  ASSUME ServerInv, NEW c \in Client, NEW rep,
         Server!PostReifyStatus(TokenOf[c], c[1], c[2], rep)
  PROVE  /\ \A id \in Identity \ {c} : Unposted(id)
         /\ accepted'[c] = rep
<1>1. c = <<c[1], c[2]>> /\ c[1] \in NetworkName /\ c[2] \in DeviceName /\ c \in Identity
  BY ClientFacts
<1>2. /\ latest \in [NetworkName -> [DeviceName -> 0 .. MaxMarks]]
      /\ accepted \in [Identity -> Server!NetworkCensored \cup {NoReport}]
  BY SameData DEF ServerInv, Server!TypeOK
<1>3. PICK m : latest' = [latest EXCEPT ![c[1]][c[2]] = m]
  BY DEF Server!PostReifyStatus
<1>4. accepted' = [accepted EXCEPT ![c] = rep]
  BY <1>1 DEF Server!PostReifyStatus
<1>5. ASSUME NEW id \in Identity \ {c} PROVE Unposted(id)
  <2>1. id = <<id[1], id[2]>> /\ id[1] \in NetworkName /\ id[2] \in DeviceName
    BY DEF Identity
  <2>2. latest'[id[1]][id[2]] = latest[id[1]][id[2]]
    BY <1>1, <1>2, <1>3, <2>1
  <2>3. accepted'[id] = accepted[id]
    BY <1>2, <1>4
  <2>. QED BY <2>2, <2>3 DEF Unposted, Server!Listed
<1>. QED BY <1>1, <1>2, <1>4, <1>5

\* A client changes nothing but its own work, and lists nobody else.
LEMMA TameFrame ==
  ASSUME TameInv, NEW c \in Client, OthersSame(c), late' = {},
         \A e \in Client \ {c} : Unposted(e),
         WorksOnAccepted(c)', ReportsApplied(c)', AppliedAccepted(c)'
  PROVE  TameInv'
<1>1. ASSUME NEW e \in Client \ {c}
      PROVE  (WorksOnAccepted(e) /\ ReportsApplied(e) /\ AppliedAccepted(e))'
  <2>1. /\ pc'[e] = pc[e] /\ nc'[e] = nc[e] /\ applied'[e] = applied[e]
        /\ e \in Server!Listed' => e \in Server!Listed /\ accepted'[e] = accepted[e]
    BY DEF OthersSame, Unposted
  <2>2. WorksOnAccepted(e) /\ ReportsApplied(e) /\ AppliedAccepted(e)
    BY DEF TameInv
  <2>. QED BY <2>1, <2>2 DEF WorksOnAccepted, ReportsApplied, AppliedAccepted
<1>. QED BY <1>1 DEF TameInv
\* A patch that changes what a client sees of itself takes it off the list.
Differs(c, body) ==
  \/ /\ "PublicKey" \in DOMAIN body.attrs
     /\ body.attrs["PublicKey"] # Mine(c).attrs["PublicKey"]
  \/ body.AccessibleSet /\ body.Accessible # Mine(c).Accessible

LEMMA PatchedDevice ==
  ASSUME ServerInv, NEW n, NEW d, Server!Known(spec, n, d),
         NEW req \in Server!PatchReifySpecRequest
  PROVE  /\ "PublicKey" \in DOMAIN req.attrs =>
               Server!Patched(n, d, req)[n][d].attrs["PublicKey"] = req.attrs["PublicKey"]
         /\ req.AccessibleSet => Server!Patched(n, d, req)[n][d].Accessible = req.Accessible
<1>. DEFINE clone == Server!Clone(spec)
            att == [f \in Attribute |->
                     IF f \in DOMAIN req.attrs THEN req.attrs[f] ELSE clone[n][d].attrs[f]]
            acc == IF req.AccessibleSet THEN req.Accessible ELSE clone[n][d].Accessible
            dev == [clone[n][d] EXCEPT !.attrs = att, !.Accessible = acc]
<1>1. /\ n \in DOMAIN clone /\ d \in DOMAIN clone[n]
      /\ clone = [m \in DOMAIN spec |-> clone[m]]
      /\ clone[n] = [e \in DOMAIN spec[n] |-> clone[n][e]]
      /\ clone[n][d] = Server!CloneDevice(spec[n][d])
  BY DEF Server!Clone, Server!Known
<1>2. Server!CloneDevice(spec[n][d]) \in Server!NetworkDevice
  <2>1. spec[n][d] \in Server!NetworkDevice
    BY DEF ServerInv, Server!TypeOK, Server!IsSpec, Server!IsNetwork, Server!Known
  <2>. QED BY <2>1 DEF Server!CloneDevice, Server!NetworkDevice
<1>3. Server!Patched(n, d, req) = [clone EXCEPT ![n] = [clone[n] EXCEPT ![d] = dev]]
  BY <1>1 DEF Server!Patched
<1>4. dev.attrs = att /\ dev.Accessible = acc
  BY <1>1, <1>2 DEF Server!NetworkDevice
<1>. HIDE DEF clone, dev
<1>5. Server!Patched(n, d, req)[n][d] = dev
  BY <1>1, <1>3
<1>. QED BY <1>4, <1>5, AttributeAssumption

LEMMA OwnPatchUnlists ==
  ASSUME ServerInv, ServerInv', NEW c \in Client, WorksOnAccepted(c), pc[c] \in AtWork,
         SeesItself(c), NEW body \in Server!PatchReifySpecRequest, Differs(c, body),
         Server!PatchReifySpec(TokenOf[c], c[1], c[2], body)
  PROVE  c \notin Server!Listed'
<1>. SUFFICES ASSUME c \in Server!Listed' PROVE FALSE
  OBVIOUS
<1>1. c \in Server!Listed /\ accepted'[c] = accepted[c]
  BY PatchUnposted, ClientFacts DEF Unposted
<1>2. accepted'[c] = View(c)'
  <2>1. ListedAreShown'
    BY ListedViews, PTL
  <2>. QED BY <2>1 DEF ListedAreShown
<1>3. nc[c] = View(c)'
  BY <1>1, <1>2 DEF WorksOnAccepted
<1>4. spec' = Server!Patched(c[1], c[2], body) /\ Server!Known(spec, c[1], c[2])
  BY DEF Server!PatchReifySpec, Server!UpdateSpecNoLock, Server!Admitted
<1>5. Mine(c).attrs = spec'[c[1]][c[2]].attrs /\ Mine(c).Accessible = spec'[c[1]][c[2]].Accessible
  BY <1>3 DEF SeesItself, Mine, View, Server!GetReifySpec, Server!CensorForDevice, Server!Censored
<1>. QED BY <1>4, <1>5, PatchedDevice DEF Differs

\* What a call of c does to the list, when requests do not outlive it.
LEMMA CallUnposted ==
  ASSUME Tame, Inv, TameInv, NEW q \in Request, NEW out, Call(q, out)
  PROVE  /\ late' = {}
         /\ UNCHANGED serverVars \/ Handle(q)
         /\ \A e \in Client \ {q.from} : Unposted(e)
<1>1. late' = {} /\ (UNCHANGED serverVars \/ Handle(q))
  BY DEF Call, Fault, Tame, TameInv
<1>2. ServerInv /\ q.from \in Client /\ \A e \in Client : e \in Identity
  BY ClientFacts DEF Inv, TypeOK, ServerInv, Request
<1>3. CASE UNCHANGED serverVars
  BY <1>1, <1>3, UnchangedUnposted
<1>4. CASE Server!PatchReifySpec(TokenOf[q.from], q.from[1], q.from[2], q.body)
  BY <1>1, <1>2, <1>4, PatchUnposted
<1>5. CASE Server!PostReifyStatus(TokenOf[q.from], q.from[1], q.from[2], q.body)
  BY <1>1, <1>2, <1>5, PostUnposted
<1>. QED BY <1>1, <1>3, <1>4, <1>5 DEF Handle

LEMMA GetLatestTame ==
  ASSUME Inv, TameInv, NEW c \in Client, GetLatest(c) PROVE TameInv'
<1>1. \A e \in Client : Unposted(e)
  BY UnchangedUnposted DEF GetLatest
<1>2. OthersSame(c)
  BY DEF OthersSame, GetLatest
<1>. QED BY <1>1, <1>2, TameFrame
     DEF GetLatest, TameInv, WorksOnAccepted, ReportsApplied, AppliedAccepted, Unposted

LEMMA GetSpecTame ==
  ASSUME Inv, TameInv, NEW c \in Client, GetSpec(c) PROVE TameInv'
<1>1. \A e \in Client : Unposted(e)
  BY UnchangedUnposted DEF GetSpec
<1>2. /\ pc'[c] = "keys" /\ nc'[c] = View(c) /\ UNCHANGED <<serverVars, applied, late>>
      /\ \A e \in Client \ {c} : pc'[e] = pc[e] /\ nc'[e] = nc[e]
      /\ UNCHANGED key
  BY ClientTypes DEF GetSpec, Goto, View
<1>3. OthersSame(c)
  BY <1>2 DEF OthersSame
<1>4. ServerInv
  BY DEF Inv, TypeOK, ServerInv
<1>5. WorksOnAccepted(c)'
  BY <1>1, <1>2, <1>4, ListedView DEF WorksOnAccepted, Unposted
<1>6. ReportsApplied(c)'
  BY <1>2 DEF ReportsApplied
<1>7. AppliedAccepted(c)'
  BY <1>1, <1>2 DEF TameInv, AppliedAccepted, Unposted
<1>. QED BY <1>1, <1>2, <1>3, <1>5, <1>6, <1>7, TameFrame DEF TameInv

LEMMA PanicTame ==
  ASSUME Inv, TameInv, NEW c \in Client, Panic(c) PROVE TameInv'
<1>1. \A e \in Client : Unposted(e)
  BY UnchangedUnposted DEF Panic
<1>2. pc'[c] = "panicked" /\ \A e \in Client \ {c} : pc'[e] = pc[e]
  BY ClientTypes DEF Panic, Goto
<1>3. OthersSame(c)
  BY <1>2 DEF OthersSame, Panic
<1>4. (WorksOnAccepted(c) /\ ReportsApplied(c) /\ AppliedAccepted(c))'
  BY <1>1, <1>2
  DEF Panic, TameInv, WorksOnAccepted, ReportsApplied, AppliedAccepted, Unposted, AtWork
<1>. QED BY <1>1, <1>3, <1>4, TameFrame DEF Panic, TameInv
LEMMA SkipTame ==
  ASSUME Inv, TameInv, NEW c \in Client, NEW out, NEW w, NEW l \in {"accessible", "apply"},
         Skip(c, out, w, l), pc[c] \in AtWork, UNCHANGED <<key, applied>>
  PROVE  TameInv'
<1>1. \A e \in Client : Unposted(e)
  BY UnchangedUnposted DEF Skip
<1>2. pc'[c] = l /\ \A e \in Client \ {c} : pc'[e] = pc[e]
  BY ClientTypes DEF Skip, Goto
<1>3. OthersSame(c)
  BY <1>2 DEF OthersSame, Skip
<1>4. (WorksOnAccepted(c) /\ ReportsApplied(c) /\ AppliedAccepted(c))'
  BY <1>1, <1>2
  DEF Skip, TameInv, WorksOnAccepted, ReportsApplied, AppliedAccepted, Unposted
<1>. QED BY <1>1, <1>3, <1>4, TameFrame DEF Skip, TameInv

\* A client that gives up keeps the machine and the place on the list it has.
LEMMA GivesUpTame ==
  ASSUME Inv, TameInv, NEW c \in Client, GiveUp(c), UNCHANGED applied, late' = {},
         \A e \in Client \ {c} : Unposted(e) /\ key'[e] = key[e],
         c \in Server!Listed' => applied[c] # NotApplied /\ applied[c].nc = accepted'[c]
  PROVE  TameInv'
<1>1. pc'[c] = "idle" /\ OthersSame(c)
  BY GiveUpTypes DEF OthersSame
<1>2. (WorksOnAccepted(c) /\ ReportsApplied(c) /\ AppliedAccepted(c))'
  BY <1>1 DEF WorksOnAccepted, ReportsApplied, AppliedAccepted, AtWork
<1>. QED BY <1>1, <1>2, TameFrame

LEMMA PatchSpecTame ==
  ASSUME Tame, Inv, Inv', TameInv, NEW c \in Client, NEW out,
         NEW body \in Server!PatchReifySpecRequest, NEW copy, NEW w,
         NEW l \in {"accessible", "apply"},
         PatchSpec(c, out, body, copy, w, l), Differs(c, body),
         pc[c] \in AtWork, SeesItself(c),
         \A e \in Client \ {c} : copy[e] = nc[e],
         UNCHANGED <<key, applied>>
  PROVE  TameInv'
<1>. DEFINE q == [kind |-> "patch", from |-> c, body |-> body]
<1>1. q \in Request /\ q.from = c
  BY DEF Request
<1>2. Call(q, out) /\ IF Succeeds(q, out) THEN nc' = copy /\ Goto(c, l) /\ way' = w ELSE GiveUp(c)
  BY DEF PatchSpec
<1>3. /\ late' = {} /\ (UNCHANGED serverVars \/ Handle(q))
      /\ \A e \in Client \ {c} : Unposted(e)
  BY <1>1, <1>2, CallUnposted
<1>4. ServerInv /\ ServerInv' /\ WorksOnAccepted(c) /\ AppliedAccepted(c)
  BY DEF Inv, TypeOK, ServerInv, TameInv
<1>5. Handle(q) /\ Accepts(q) => Server!PatchReifySpec(TokenOf[c], c[1], c[2], body)
  BY DEF Handle
<1>6. Handle(q) => UNCHANGED serverVars \/ Server!PatchReifySpec(TokenOf[c], c[1], c[2], body)
  BY DEF Handle
<1>7. CASE ~Succeeds(q, out)
  <2>1. GiveUp(c)
    BY <1>2, <1>7
  <2>2. Unposted(c)
    BY <1>3, <1>4, <1>6, UnchangedUnposted, PatchUnposted, ClientFacts
  <2>. QED BY <1>3, <1>4, <2>1, <2>2, GivesUpTame DEF Unposted, AppliedAccepted
<1>8. CASE Succeeds(q, out)
  <2>1. Handle(q) /\ Accepts(q)
    BY <1>2, <1>8 DEF Succeeds, Call
  <2>2. c \notin Server!Listed'
    BY <1>4, <1>5, <2>1, OwnPatchUnlists
  <2>3. pc'[c] = l /\ \A e \in Client \ {c} : pc'[e] = pc[e] /\ nc'[e] = nc[e]
    BY <1>2, <1>8, ClientTypes DEF Goto
  <2>4. OthersSame(c)
    BY <2>3 DEF OthersSame
  <2>5. (WorksOnAccepted(c) /\ ReportsApplied(c) /\ AppliedAccepted(c))'
    BY <2>2, <2>3 DEF WorksOnAccepted, ReportsApplied, AppliedAccepted
  <2>. QED BY <1>3, <2>4, <2>5, TameFrame
<1>. QED BY <1>7, <1>8

LEMMA UpdateMyKeysTame ==
  ASSUME Tame, Inv, Inv', TameInv, NEW c \in Client, NEW out, UpdateMyKeys(c, out)
  PROVE  TameInv'
<1>. DEFINE k == PublicKey(c, key[c])
            body == [attrs |-> [f \in {"PublicKey"} |-> k],
                     AccessibleSet |-> FALSE, Accessible |-> {}]
<1>1. /\ pc[c] = "keys" /\ SeesItself(c)
      /\ IF KeyPublished(c, k) THEN Skip(c, out, way, "accessible")
         ELSE PatchSpec(c, out, body, WithKey(c, k), way, "accessible")
      /\ UNCHANGED <<clLatest, key, applied, reach>>
  BY DEF UpdateMyKeys
<1>2. k \in Value
  BY ClientTypes, ClientAssumption
<1>3. nc[c] \in NetworkCensored
  BY <1>1 DEF Inv, HasView, AtWork
<1>4. body \in Server!PatchReifySpecRequest
  BY <1>2, KeyBody
<1>5. ~KeyPublished(c, k) => Differs(c, body)
  BY DEF Differs, KeyPublished
<1>6. \A e \in Client \ {c} : WithKey(c, k)[e] = nc[e]
  BY <1>1, <1>2, <1>3, WithKeyType, ClientTypes
<1>. HIDE DEF k, body
<1>7. CASE KeyPublished(c, k)
  BY <1>1, <1>7, SkipTame DEF AtWork
<1>8. CASE ~KeyPublished(c, k)
  BY <1>1, <1>4, <1>5, <1>6, <1>8, PatchSpecTame DEF AtWork
<1>. QED BY <1>7, <1>8

LEMMA PatchAccessibleTame ==
  ASSUME Tame, Inv, Inv', TameInv, NEW c \in Client, NEW out, PatchAccessible(c, out)
  PROVE  TameInv'
<1>1. PICK w \in Ways(nc[c], c[2], Answering(c)) :
        \E accessible \in {IF c \in CanForward THEN DOMAIN w ELSE {}} :
        \E chosen \in {[way EXCEPT ![c] = w]} :
          IF AccessibleKnown(c, accessible)
          THEN Skip(c, out, chosen, "apply")
          ELSE PatchSpec(c, out, [attrs |-> <<>>,
                                  AccessibleSet |-> TRUE, Accessible |-> accessible],
                         WithAccessible(c, accessible), chosen, "apply")
  BY DEF PatchAccessible
<1>. DEFINE accessible == IF c \in CanForward THEN DOMAIN w ELSE {}
            chosen == [way EXCEPT ![c] = w]
            body == [attrs |-> <<>>, AccessibleSet |-> TRUE, Accessible |-> accessible]
<1>2. IF AccessibleKnown(c, accessible) THEN Skip(c, out, chosen, "apply")
      ELSE PatchSpec(c, out, body, WithAccessible(c, accessible), chosen, "apply")
  BY <1>1
<1>3. pc[c] = "accessible" /\ UNCHANGED <<clLatest, key, applied, reach>>
  BY DEF PatchAccessible
<1>4. nc[c] \in NetworkCensored /\ SeesItself(c)
  BY <1>3 DEF Inv, HasView, HasPublished, AtWork
<1>5. w \in UNION {[D -> DeviceName] : D \in SUBSET DeviceName}
  BY <1>4, WaysType
<1>6. DOMAIN w \subseteq DeviceName
  BY <1>5
<1>7. accessible \in SUBSET DeviceName
  BY <1>6
<1>8. body \in Server!PatchReifySpecRequest
  BY <1>7, AccessibleBody
<1>9. ~AccessibleKnown(c, accessible) => Differs(c, body)
  BY DEF Differs, AccessibleKnown
<1>10. \A e \in Client \ {c} : WithAccessible(c, accessible)[e] = nc[e]
  BY <1>4, <1>7, WithAccessibleType, ClientTypes
<1>. HIDE DEF accessible, chosen, body
<1>11. CASE AccessibleKnown(c, accessible)
  BY <1>2, <1>3, <1>11, SkipTame DEF AtWork
<1>12. CASE ~AccessibleKnown(c, accessible)
  BY <1>2, <1>3, <1>4, <1>8, <1>9, <1>10, <1>12, PatchSpecTame DEF AtWork
<1>. QED BY <1>11, <1>12

LEMMA ApplyTame ==
  ASSUME Tame, Inv, TameInv, NEW c \in Client, NEW out, Apply(c, out) PROVE TameInv'
<1>1. pc[c] = "apply" /\ UNCHANGED <<serverVars, key, late>>
  BY DEF Apply
<1>2. \A e \in Client : Unposted(e)
  BY <1>1, UnchangedUnposted
<1>3. late' = {} /\ WorksOnAccepted(c) /\ AppliedAccepted(c)
  BY <1>1 DEF TameInv
<1>4. nc[c] \in NetworkCensored
  BY <1>1 DEF Inv, HasView, AtWork
<1>5. CASE /\ applied' = [applied EXCEPT ![c] = Compiled(c)]
           /\ Goto(c, "post")
           /\ UNCHANGED <<nc, way, faults>>
  <2>1. /\ applied'[c].nc = nc[c] /\ applied'[c] # NotApplied
        /\ \A e \in Client \ {c} : applied'[e] = applied[e]
    BY <1>4, <1>5, CompiledType, ClientTypes, ClientAssumption DEF Compiled
  <2>2. pc'[c] = "post" /\ \A e \in Client \ {c} : pc'[e] = pc[e]
    BY <1>5, ClientTypes DEF Goto
  <2>3. OthersSame(c)
    BY <1>1, <1>5, <2>1, <2>2 DEF OthersSame
  <2>4. (WorksOnAccepted(c) /\ ReportsApplied(c) /\ AppliedAccepted(c))'
    BY <1>1, <1>2, <1>3, <1>5, <2>1, <2>2
    DEF WorksOnAccepted, ReportsApplied, AppliedAccepted, Unposted, AtWork
  <2>. QED BY <1>2, <1>3, <2>3, <2>4, TameFrame
<1>6. CASE Fault("dns") /\ GiveUp(c) /\ UNCHANGED applied
  BY <1>1, <1>2, <1>3, <1>6, GivesUpTame DEF Unposted, AppliedAccepted
<1>7. ~Fault("apply")
  BY DEF Fault, Tame
<1>. QED BY <1>5, <1>6, <1>7 DEF Apply

LEMMA ApplyPanicsTame ==
  ASSUME Inv, TameInv, NEW c \in Client, ApplyPanics(c) PROVE TameInv'
<1>1. \A e \in Client : Unposted(e)
  BY UnchangedUnposted DEF ApplyPanics
<1>2. late' = {} /\ pc[c] \in AtWork /\ WorksOnAccepted(c)
  BY DEF ApplyPanics, TameInv, AtWork
<1>3. nc[c] \in NetworkCensored
  BY <1>2 DEF Inv, HasView
<1>4. /\ applied'[c].nc = nc[c] /\ applied'[c] # NotApplied
      /\ \A e \in Client \ {c} : applied'[e] = applied[e]
  BY <1>3, CompiledType, ClientTypes, ClientAssumption DEF ApplyPanics, Compiled
<1>5. pc'[c] = "panicked" /\ \A e \in Client \ {c} : pc'[e] = pc[e]
  BY ClientTypes DEF ApplyPanics, Goto
<1>6. OthersSame(c)
  BY <1>4, <1>5 DEF OthersSame, ApplyPanics
<1>7. (WorksOnAccepted(c) /\ ReportsApplied(c) /\ AppliedAccepted(c))'
  BY <1>1, <1>2, <1>4, <1>5
  DEF WorksOnAccepted, ReportsApplied, AppliedAccepted, Unposted, AtWork
<1>. QED BY <1>1, <1>2, <1>6, <1>7, TameFrame

LEMMA PostTame ==
  ASSUME Tame, Inv, TameInv, NEW c \in Client, NEW out, Post(c, out) PROVE TameInv'
<1>. DEFINE q == [kind |-> "post", from |-> c, body |-> nc[c]]
<1>1. pc[c] = "post" /\ Call(q, out) /\ GiveUp(c) /\ UNCHANGED <<key, applied>>
  BY DEF Post
<1>2. nc[c] \in NetworkCensored
  BY <1>1 DEF Inv, HasView, AtWork
<1>3. q \in Request /\ q.from = c /\ q.body = nc[c] /\ q.kind # "patch"
  BY <1>2 DEF Request
<1>. HIDE DEF q
<1>4. /\ late' = {} /\ (UNCHANGED serverVars \/ Handle(q))
      /\ \A e \in Client \ {c} : Unposted(e)
  BY <1>1, <1>3, CallUnposted
<1>5. ServerInv /\ ReportsApplied(c) /\ AppliedAccepted(c)
  BY DEF Inv, TypeOK, ServerInv, TameInv
<1>6. CASE UNCHANGED serverVars
  <2>1. Unposted(c)
    BY <1>6, UnchangedUnposted
  <2>. QED BY <1>1, <1>4, <1>5, <2>1, GivesUpTame DEF Unposted, AppliedAccepted
<1>7. CASE Server!PostReifyStatus(TokenOf[c], c[1], c[2], nc[c])
  <2>1. accepted'[c] = nc[c]
    BY <1>5, <1>7, PostUnposted
  <2>. QED BY <1>1, <1>4, <1>5, <2>1, GivesUpTame DEF ReportsApplied
<1>. QED BY <1>3, <1>4, <1>6, <1>7 DEF Handle

LEMMA RestartServerTame ==
  ASSUME Inv, TameInv, NEW config \in Configs, RestartServer(config) PROVE TameInv'
<1>1. UNCHANGED clientVars /\ late' = {} /\ Server!Restart(config)
  BY DEF RestartServer
<1>2. ASSUME NEW c \in Client PROVE c \notin Server!Listed'
  <2>1. c[1] \in NetworkName /\ c[2] \in DeviceName
    BY ClientFacts
  <2>2. latest'[c[1]][c[2]] = 0
    BY <1>1, <2>1 DEF Server!Restart, Server!NoMarks
  <2>. QED BY <2>2 DEF Server!Listed
<1>3. ASSUME NEW c \in Client
      PROVE  (WorksOnAccepted(c) /\ ReportsApplied(c) /\ AppliedAccepted(c))'
  BY <1>1, <1>2 DEF clientVars, TameInv, WorksOnAccepted, ReportsApplied, AppliedAccepted
<1>. QED BY <1>1, <1>3 DEF TameInv

LEMMA TameStep ==
  ASSUME Tame, Inv, Inv', TameInv, [Next]_vars PROVE TameInv'
<1>1. ASSUME NEW c \in Client, NEW out \in Outcome, Step(c, out) PROVE TameInv'
  BY <1>1, GetLatestTame, GetSpecTame, PanicTame, UpdateMyKeysTame, PatchAccessibleTame,
     ApplyTame, ApplyPanicsTame, PostTame DEF Step
<1>2. ASSUME NEW q \in late, HandleLate(q) PROVE TameInv'
  BY <1>2 DEF TameInv
<1>3. ASSUME NEW c \in Client, Crash(c) \/ Reboot(c) PROVE TameInv'
  <2>1. Restarted(c) /\ UNCHANGED applied
    BY <1>3 DEF Crash, Reboot, Fault, Tame
  <2>2. \A e \in Client : Unposted(e)
    BY <2>1, UnchangedUnposted DEF Restarted
  <2>3. \A e \in Client \ {c} : key'[e] = key[e]
    BY <2>1, ClientTypes DEF Restarted
  <2>4. GiveUp(c) /\ late' = {} /\ AppliedAccepted(c)
    BY <2>1 DEF Restarted, TameInv
  <2>. QED BY <2>1, <2>2, <2>3, <2>4, GivesUpTame DEF Unposted, AppliedAccepted
<1>4. ASSUME NEW config \in Configs, RestartServer(config) PROVE TameInv'
  BY <1>4, RestartServerTame
<1>5. CASE UNCHANGED <<serverVars, clientVars, late>>
  BY <1>5 DEF serverVars, clientVars, TameInv, WorksOnAccepted, ReportsApplied,
              AppliedAccepted, Server!Listed
<1>6. ASSUME NEW c \in Client, NEW e \in DeviceName, Reach(c, e) PROVE TameInv'
  BY <1>5, <1>6 DEF Reach
<1>7. CASE UNCHANGED vars
  BY <1>5, <1>7 DEF vars, serverVars, clientVars
<1>. QED BY <1>1, <1>2, <1>3, <1>4, <1>6, <1>7 DEF Next

LEMMA TameInvariance ==
  ASSUME Tame PROVE Spec => []TameInv
<1>1. Init => TameInv
  <2>. SUFFICES ASSUME Init PROVE TameInv
    OBVIOUS
  <2>1. ASSUME NEW c \in Client PROVE c \notin Server!Listed
    BY ClientFacts DEF Init, Start, Server!Init, Server!NoMarks, Server!Listed
  <2>. QED BY <2>1 DEF Init, Start, TameInv, WorksOnAccepted, ReportsApplied, AppliedAccepted
<1>2. Inv /\ Inv' /\ TameInv /\ [Next]_vars => TameInv'
  BY TameStep
<1>. QED BY <1>1, <1>2, Invariance, PTL DEF Spec

-----------------------------------------------------------------------------
(* What the list of latest is worth *)

\* "returns whether the device has applied the latest spec" (coord/api.md):
\* when no request outlives its client's interest in it and no machine loses
\* what it was configured with, a listed client's machine has been configured
\* from exactly what the server would show it now, whatever calls and answers
\* were lost, and whichever clients or servers were started again.
THEOREM LatestApplied ==
  ASSUME Tame PROVE Spec => []LatestHasApplied
<1>1. Inv /\ TameInv => LatestHasApplied
  <2>. SUFFICES ASSUME Inv, TameInv, NEW c \in ListedClients
                PROVE  /\ applied[c] # NotApplied
                       /\ NetworkCensoredEqual(applied[c].nc, Server!ViewOf(c))
    BY DEF LatestHasApplied
  <2>1. c \in Client /\ c \in Server!Listed /\ ServerInv
    BY DEF ListedClients, Inv, TypeOK, ServerInv
  <2>2. applied[c] # NotApplied /\ applied[c].nc = View(c)
    BY <2>1, ListedView DEF TameInv, AppliedAccepted
  <2>3. Server!ViewOf(c) = View(c)
    BY <2>1, ListedView DEF Server!ViewOf, View, Server!GetReifySpec
  <2>. QED BY <2>2, <2>3 DEF NetworkCensoredEqual, DeviceEqual
<1>. QED BY <1>1, Invariance, TameInvariance, PTL

\* In the same world, of two listed clients the first has configured the
\* public key that belongs to the private key on the second's machine, through
\* any number of restarts that generate new keys (updateMyKeys).
THEOREM KeysAgree ==
  ASSUME Tame PROVE Spec => []KeysMatch
<1>1. Inv /\ TameInv => KeysMatch
  <2>. SUFFICES ASSUME Inv, TameInv, NEW c \in ListedClients, NEW e \in ListedClients,
                       e[1] = c[1], e[2] \in DOMAIN applied[c].nc.Devices
                PROVE  applied[c].nc.Devices[e[2]].attrs["PublicKey"]
                         = PublicKey(e, applied[e].key)
    BY DEF KeysMatch
  <2>1. ServerInv /\ \A i \in {c, e} : i \in Client /\ i \in Server!Listed
    BY DEF ListedClients, Inv, TypeOK, ServerInv
  <2>2. \A i \in {c, e} : applied[i] # NotApplied /\ applied[i].nc = View(i)
    BY <2>1, ListedView DEF TameInv, AppliedAccepted
  <2>3. \A i \in {c, e} : \A x \in DOMAIN View(i).Devices :
          View(i).Devices[x].attrs = spec[i[1]][x].attrs
    BY DEF View, Server!GetReifySpec, Server!CensorForDevice, Server!Censored
  <2>4. /\ e[2] \in DOMAIN View(e).Devices
        /\ View(e).Devices[e[2]].attrs["PublicKey"] = PublicKey(e, applied[e].key)
    BY <2>1, <2>2 DEF Inv, OwnKeyApplied
  <2>. QED BY <2>2, <2>3, <2>4
<1>. QED BY <1>1, Invariance, TameInvariance, PTL
-----------------------------------------------------------------------------
(* The clients use the server as it means to be used *)

LEMMA PatchSpecImplements ==
  ASSUME Inv, NEW c \in Client, NEW out, NEW body \in Server!PatchReifySpecRequest,
         NEW copy, NEW w, NEW l, PatchSpec(c, out, body, copy, w, l)
  PROVE  [Server!Next]_serverVars
<1>1. [kind |-> "patch", from |-> c, body |-> body] \in Request
  BY DEF Request
<1>. QED BY <1>1, CallStep DEF PatchSpec, Inv

LEMMA UpdateMyKeysImplements ==
  ASSUME Inv, NEW c \in Client, NEW out, UpdateMyKeys(c, out)
  PROVE  [Server!Next]_serverVars
<1>. DEFINE k == PublicKey(c, key[c])
            body == [attrs |-> [f \in {"PublicKey"} |-> k],
                     AccessibleSet |-> FALSE, Accessible |-> {}]
<1>1. \/ Skip(c, out, way, "accessible")
      \/ PatchSpec(c, out, body, WithKey(c, k), way, "accessible")
  BY DEF UpdateMyKeys
<1>2. k \in Value
  BY ClientTypes, ClientAssumption
<1>3. body \in Server!PatchReifySpecRequest
  BY <1>2, KeyBody
<1>. HIDE DEF k, body
<1>. QED BY <1>1, <1>3, PatchSpecImplements DEF Skip

LEMMA PatchAccessibleImplements ==
  ASSUME Inv, NEW c \in Client, NEW out, PatchAccessible(c, out)
  PROVE  [Server!Next]_serverVars
<1>1. PICK w \in Ways(nc[c], c[2], Answering(c)) :
        \E accessible \in {IF c \in CanForward THEN DOMAIN w ELSE {}} :
        \E chosen \in {[way EXCEPT ![c] = w]} :
          IF AccessibleKnown(c, accessible)
          THEN Skip(c, out, chosen, "apply")
          ELSE PatchSpec(c, out, [attrs |-> <<>>,
                                  AccessibleSet |-> TRUE, Accessible |-> accessible],
                         WithAccessible(c, accessible), chosen, "apply")
  BY DEF PatchAccessible
<1>. DEFINE accessible == IF c \in CanForward THEN DOMAIN w ELSE {}
            chosen == [way EXCEPT ![c] = w]
            body == [attrs |-> <<>>, AccessibleSet |-> TRUE, Accessible |-> accessible]
<1>2. \/ Skip(c, out, chosen, "apply")
      \/ PatchSpec(c, out, body, WithAccessible(c, accessible), chosen, "apply")
  BY <1>1
<1>3. w \in UNION {[D -> DeviceName] : D \in SUBSET DeviceName}
  BY WaysType DEF PatchAccessible, Inv, HasView, AtWork
<1>4. DOMAIN w \subseteq DeviceName
  BY <1>3
<1>5. body \in Server!PatchReifySpecRequest
  BY <1>4, AccessibleBody
<1>. HIDE DEF accessible, chosen, body
<1>. QED BY <1>2, <1>5, PatchSpecImplements DEF Skip

LEMMA StepImplements ==
  ASSUME Inv, [Next]_vars PROVE [Server!Next]_serverVars
<1>1. ASSUME NEW c \in Client, NEW out \in Outcome, Step(c, out)
      PROVE  [Server!Next]_serverVars
  <2>1. CASE GetLatest(c) \/ GetSpec(c) \/ Panic(c) \/ Apply(c, out) \/ ApplyPanics(c)
    BY <2>1 DEF GetLatest, GetSpec, Panic, Apply, ApplyPanics
  <2>2. CASE UpdateMyKeys(c, out) \/ PatchAccessible(c, out)
    BY <2>2, UpdateMyKeysImplements, PatchAccessibleImplements
  <2>3. CASE Post(c, out)
    <3>1. nc[c] \in NetworkCensored
      BY <2>3 DEF Post, Inv, HasView, AtWork
    <3>2. [kind |-> "post", from |-> c, body |-> nc[c]] \in Request
      BY <3>1 DEF Request
    <3>. QED BY <2>3, <3>2, CallStep DEF Post, Inv
  <2>. QED BY <1>1, <2>1, <2>2, <2>3 DEF Step
<1>2. ASSUME NEW q \in late, HandleLate(q) PROVE [Server!Next]_serverVars
  BY <1>2, HandleStep, ClientTypes DEF HandleLate
<1>3. ASSUME NEW c \in Client, Crash(c) \/ Reboot(c) PROVE [Server!Next]_serverVars
  BY <1>3 DEF Crash, Reboot, Restarted
<1>4. ASSUME NEW config \in Configs, RestartServer(config) PROVE [Server!Next]_serverVars
  BY <1>4, RestartServerStep
<1>5. ASSUME NEW c \in Client, NEW e, Reach(c, e) PROVE [Server!Next]_serverVars
  BY <1>5 DEF Reach
<1>6. CASE UNCHANGED vars
  BY <1>6 DEF vars, serverVars
<1>. QED BY <1>1, <1>2, <1>3, <1>4, <1>5, <1>6 DEF Next

\* What the clients do to the server, late requests, lost answers and restarts
\* included, is a behaviour of the server alone: all that is proved of
\* CoordServer, that it tracks reports first of all, holds with these clients.
THEOREM ImplementsServer == Spec => Server!Spec
<1>1. Init => Server!Init
  BY DEF Init, Start
<1>2. Inv /\ [Next]_vars => [Server!Next]_Server!vars
  BY StepImplements DEF serverVars, Server!vars
<1>. QED BY <1>1, <1>2, Invariance, PTL DEF Spec, Server!Spec
-----------------------------------------------------------------------------
(* A device is described by its own client only *)

\* Step by step: what OwnDeviceOnly says of identity i.
Untouched(i) ==
  /\ Known(spec', i[1], i[2])
  /\ [spec'[i[1]][i[2]] EXCEPT !.Accessible = {}]
       = [spec[i[1]][i[2]] EXCEPT !.Accessible = {}]

LEMMA SpecUnchanged ==
  ASSUME UNCHANGED spec, NEW i, Known(spec, i[1], i[2]) PROVE Untouched(i)
BY DEF Untouched, Known

LEMMA OthersPatch ==
  ASSUME ServerInv, NEW i \in Identity, Known(spec, i[1], i[2]),
         NEW tok, NEW n \in NetworkName, NEW d \in DeviceName, <<n, d>> # i,
         NEW req \in Server!PatchReifySpecRequest,
         Server!PatchReifySpec(tok, n, d, req)
  PROVE  Untouched(i)
<1>. DEFINE clone == Server!Clone(spec)
            m == i[1]
            e == i[2]
<1>1. i = <<m, e>> /\ (m # n \/ e # d)
  BY DEF Identity
<1>2. /\ spec' = Server!Patched(n, d, req)
      /\ n \in DOMAIN spec /\ d \in DOMAIN spec[n]
  BY DEF Server!PatchReifySpec, Server!UpdateSpecNoLock, Server!Admitted, Server!Known
<1>3. PICK dev : spec' = [clone EXCEPT ![n] = [clone[n] EXCEPT ![d] = dev]]
  BY <1>2 DEF Server!Patched
<1>4. /\ DOMAIN clone = DOMAIN spec /\ \A x \in DOMAIN spec : DOMAIN clone[x] = DOMAIN spec[x]
      /\ clone = [x \in DOMAIN clone |-> clone[x]]
      /\ \A x \in DOMAIN clone : clone[x] = [y \in DOMAIN clone[x] |-> clone[x][y]]
      /\ \A x \in DOMAIN spec : \A y \in DOMAIN spec[x] :
            clone[x][y] = Server!CloneDevice(spec[x][y])
  BY DEF Server!Clone
<1>5. m \in DOMAIN spec /\ e \in DOMAIN spec[m]
  BY DEF Known
<1>. HIDE DEF clone, m, e
<1>6. m \in DOMAIN spec' /\ e \in DOMAIN spec'[m] /\ spec'[m][e] = clone[m][e]
  BY <1>1, <1>2, <1>3, <1>4, <1>5
<1>7. spec[m][e] \in Server!NetworkDevice
  BY <1>5 DEF ServerInv, Server!TypeOK, Server!IsSpec, Server!IsNetwork
<1>8. [spec'[m][e] EXCEPT !.Accessible = {}] = [spec[m][e] EXCEPT !.Accessible = {}]
  BY <1>4, <1>5, <1>6, <1>7 DEF Server!CloneDevice, Server!NetworkDevice
<1>. QED BY <1>6, <1>8 DEF Untouched, Known, m, e

\* A request changes the device of the client that made it, and no other.
LEMMA RequestTouchesOwn ==
  ASSUME ServerInv, NEW i \in Identity, Known(spec, i[1], i[2]),
         NEW q \in Request, Handle(q), q.from # i
  PROVE  Untouched(i)
<1>1. /\ q.from \in Client /\ q.kind \in {"patch", "post"}
      /\ q.kind = "patch" => q.body \in Server!PatchReifySpecRequest
  BY DEF Request
<1>2. /\ q.from = <<q.from[1], q.from[2]>>
      /\ q.from[1] \in NetworkName /\ q.from[2] \in DeviceName
  BY <1>1, ClientFacts
<1>3. CASE q.kind = "patch" /\ Server!PatchReifySpec(TokenOf[q.from], q.from[1], q.from[2], q.body)
  BY <1>1, <1>2, <1>3, OthersPatch
<1>4. CASE UNCHANGED spec
  BY <1>4, SpecUnchanged
<1>. QED BY <1>3, <1>4 DEF Handle, Server!PostReifyStatus, serverVars

LEMMA CallTouchesOwn ==
  ASSUME Inv, NEW i \in Identity, Known(spec, i[1], i[2]),
         NEW q \in Request, NEW out, Call(q, out), q.from # i
  PROVE  Untouched(i)
<1>1. ServerInv
  BY DEF Inv, TypeOK, ServerInv
<1>. QED BY <1>1, RequestTouchesOwn, SpecUnchanged DEF Call, serverVars

\* The client that patches moves on, whatever becomes of the call.
LEMMA StepTouchesOwn ==
  ASSUME Inv, NEW i \in Identity, Known(spec, i[1], i[2]),
         NEW c \in Client, NEW out, Step(c, out)
  PROVE  Untouched(i) \/ (c = i /\ pc'[c] # pc[c])
<1>1. CASE GetLatest(c) \/ GetSpec(c) \/ Panic(c) \/ Apply(c, out) \/ ApplyPanics(c)
  BY <1>1, SpecUnchanged DEF GetLatest, GetSpec, Panic, Apply, ApplyPanics, serverVars
<1>2. CASE UNCHANGED spec
  BY <1>2, SpecUnchanged
<1>3. ASSUME NEW body \in Server!PatchReifySpecRequest, NEW copy, NEW w, NEW l,
             PatchSpec(c, out, body, copy, w, l), pc[c] # l, pc[c] # "idle"
      PROVE  Untouched(i) \/ (c = i /\ pc'[c] # pc[c])
  <2>. DEFINE q == [kind |-> "patch", from |-> c, body |-> body]
  <2>1. q \in Request /\ q.from = c
    BY DEF Request
  <2>2. Call(q, out) /\ (Goto(c, l) \/ GiveUp(c))
    BY <1>3 DEF PatchSpec
  <2>. HIDE DEF q
  <2>3. pc'[c] \in {l, "idle"}
    BY <2>2, ClientTypes DEF GiveUp, Goto
  <2>. QED BY <1>3, <2>1, <2>2, <2>3, CallTouchesOwn
<1>4. CASE UpdateMyKeys(c, out)
  <2>. DEFINE k == PublicKey(c, key[c])
              body == [attrs |-> [f \in {"PublicKey"} |-> k],
                       AccessibleSet |-> FALSE, Accessible |-> {}]
  <2>1. pc[c] = "keys" /\ (\/ Skip(c, out, way, "accessible")
                           \/ PatchSpec(c, out, body, WithKey(c, k), way, "accessible"))
    BY <1>4 DEF UpdateMyKeys
  <2>2. k \in Value
    BY ClientTypes, ClientAssumption
  <2>3. body \in Server!PatchReifySpecRequest
    BY <2>2, KeyBody
  <2>. HIDE DEF k, body
  <2>. QED BY <1>2, <1>3, <2>1, <2>3 DEF Skip, serverVars
<1>5. CASE PatchAccessible(c, out)
  <2>1. PICK w \in Ways(nc[c], c[2], Answering(c)) :
          \E accessible \in {IF c \in CanForward THEN DOMAIN w ELSE {}} :
          \E chosen \in {[way EXCEPT ![c] = w]} :
            IF AccessibleKnown(c, accessible)
            THEN Skip(c, out, chosen, "apply")
            ELSE PatchSpec(c, out, [attrs |-> <<>>,
                                    AccessibleSet |-> TRUE, Accessible |-> accessible],
                           WithAccessible(c, accessible), chosen, "apply")
    BY <1>5 DEF PatchAccessible
  <2>. DEFINE accessible == IF c \in CanForward THEN DOMAIN w ELSE {}
              chosen == [way EXCEPT ![c] = w]
              body == [attrs |-> <<>>, AccessibleSet |-> TRUE, Accessible |-> accessible]
  <2>2. \/ Skip(c, out, chosen, "apply")
        \/ PatchSpec(c, out, body, WithAccessible(c, accessible), chosen, "apply")
    BY <2>1
  <2>3. w \in UNION {[D -> DeviceName] : D \in SUBSET DeviceName}
    BY <1>5, WaysType DEF PatchAccessible, Inv, HasView, AtWork
  <2>4. DOMAIN w \subseteq DeviceName
    BY <2>3
  <2>5. body \in Server!PatchReifySpecRequest
    BY <2>4, AccessibleBody
  <2>6. pc[c] = "accessible"
    BY <1>5 DEF PatchAccessible
  <2>. HIDE DEF accessible, chosen, body
  <2>. QED BY <1>2, <1>3, <2>2, <2>5, <2>6 DEF Skip, serverVars
<1>6. CASE Post(c, out)
  <2>. DEFINE q == [kind |-> "post", from |-> c, body |-> nc[c]]
  <2>1. Call(q, out) /\ q.kind # "patch"
    BY <1>6 DEF Post
  <2>2. UNCHANGED spec
    BY <2>1 DEF Call, Handle, Server!PostReifyStatus, serverVars
  <2>. QED BY <1>2, <2>2
<1>. QED BY <1>1, <1>4, <1>5, <1>6 DEF Step

\* "This can be set by this peer" (spec.go): what the server knows of a device,
\* but for Accessible, changes only by a request of that device's own client,
\* however late, and by a restart of the server.
THEOREM OwnDevice == Spec => OwnDeviceOnly
<1>. DEFINE Own(i) == \/ ~Known(spec, i[1], i[2])
                      \/ Untouched(i)
                      \/ i \in Client /\ pc'[i] # pc[i]
                      \/ \E q \in late \ late' : q.from = i
                      \/ \E config \in Configs : RestartServer(config)
<1>1. ASSUME Inv, [Next]_vars, NEW i \in Identity, Known(spec, i[1], i[2]) PROVE Own(i)
  <2>1. CASE UNCHANGED spec
    BY <1>1, <2>1, SpecUnchanged
  <2>2. ASSUME NEW c \in Client, NEW out \in Outcome, Step(c, out) PROVE Own(i)
    BY <1>1, <2>2, StepTouchesOwn
  <2>3. ASSUME NEW q \in late, HandleLate(q) PROVE Own(i)
    <3>1. q \in Request /\ ServerInv /\ q \in late \ late' /\ Handle(q)
      BY <1>1, <2>3, ClientTypes DEF HandleLate, Inv, TypeOK, ServerInv
    <3>. QED BY <1>1, <3>1, RequestTouchesOwn
  <2>4. ASSUME NEW c \in Client, Crash(c) \/ Reboot(c) PROVE UNCHANGED spec
    BY <2>4 DEF Crash, Reboot, Restarted, serverVars
  <2>5. ASSUME NEW c \in Client, NEW e, Reach(c, e) PROVE UNCHANGED spec
    BY <2>5 DEF Reach, serverVars
  <2>6. ASSUME NEW config \in Configs, RestartServer(config) PROVE Own(i)
    BY <2>6
  <2>7. CASE UNCHANGED vars
    BY <2>1, <2>7 DEF vars
  <2>. QED BY <1>1, <2>1, <2>2, <2>3, <2>4, <2>5, <2>6, <2>7 DEF Next
<1>2. Inv /\ [Next]_vars => [\A i \in Identity : Own(i)]_vars
  BY <1>1
<1>3. Inv /\ [Next]_vars =>
        [\A i \in Identity :
           \/ ~Known(spec, i[1], i[2])
           \/ /\ Known(spec', i[1], i[2])
              /\ [spec'[i[1]][i[2]] EXCEPT !.Accessible = {}]
                   = [spec[i[1]][i[2]] EXCEPT !.Accessible = {}]
           \/ i \in Client /\ pc'[i] # pc[i]
           \/ \E q \in late \ late' : q.from = i
           \/ \E config \in Configs : RestartServer(config)]_vars
  BY <1>2 DEF Untouched
<1>. QED BY <1>3, Invariance, PTL DEF Spec, OwnDeviceOnly
===============================================================================
