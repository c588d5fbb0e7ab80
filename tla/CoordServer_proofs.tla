------------------------- MODULE CoordServer_proofs -------------------------
(***************************************************************************)
(* Proofs about CoordServer, for any networks, devices, tokens and         *)
(* configurations.  The invariant TypeOK /\ LatestIsCurrent is inductive;  *)
(* it makes the server an implementation of ReifyTracker.                  *)
(***************************************************************************)
EXTENDS CoordServer, TLAPS

-----------------------------------------------------------------------------
(* The data *)

\* Censoring a spec for a device it knows gives a NetworkCensored.
LEMMA CensorType ==
  ASSUME NEW s, IsSpec(s), NEW n, NEW d, Known(s, n, d)
  PROVE  CensorForDevice(s, n, d) \in NetworkCensored
<1> DEFINE D == Visible(s[n], d)
<1>1. /\ n \in NetworkName
      /\ s[n] \in [DOMAIN s[n] -> NetworkDevice]
      /\ DOMAIN s[n] \subseteq DeviceName
      /\ d \in DeviceName
  BY DEF IsSpec, IsNetwork, Known
<1>2. D \subseteq DOMAIN s[n]
  BY DEF Visible
<1>3. \A e \in D : Censored(s[n][e]) \in NetworkDeviceCensored
  <2> SUFFICES ASSUME NEW e \in D PROVE Censored(s[n][e]) \in NetworkDeviceCensored
    OBVIOUS
  <2>1. s[n][e] \in NetworkDevice
    BY <1>1, <1>2
  <2> QED
    BY <2>1 DEF NetworkDevice, NetworkDeviceCensored, Censored
<1>4. [e \in D |-> Censored(s[n][e])] \in [D -> NetworkDeviceCensored]
  BY <1>3
<1>5. D \in SUBSET DeviceName
  BY <1>1, <1>2
<1>6. [e \in D |-> Censored(s[n][e])]
        \in UNION {[E -> NetworkDeviceCensored] : E \in SUBSET DeviceName}
  BY <1>4, <1>5
<1> QED
  BY <1>1, <1>6 DEF CensorForDevice, NetworkCensored

\* NetworkCensored.Equal is equality: it compares every field that is sent.
LEMMA EqualIsEquality ==
  ASSUME NEW x \in NetworkCensored, NEW y \in NetworkCensored
  PROVE  NetworkCensoredEqual(x, y) <=> x = y
<1>1. /\ x = [Name |-> x.Name, CensoredFor |-> x.CensoredFor, Devices |-> x.Devices]
      /\ y = [Name |-> y.Name, CensoredFor |-> y.CensoredFor, Devices |-> y.Devices]
  BY DEF NetworkCensored
<1>2. PICK Dx \in SUBSET DeviceName : x.Devices \in [Dx -> NetworkDeviceCensored]
  BY DEF NetworkCensored
<1>3. PICK Dy \in SUBSET DeviceName : y.Devices \in [Dy -> NetworkDeviceCensored]
  BY DEF NetworkCensored
<1>4. ASSUME NetworkCensoredEqual(x, y) PROVE x = y
  <2>1. Dx = Dy
    BY <1>2, <1>3, <1>4 DEF NetworkCensoredEqual
  <2>2. ASSUME NEW e \in Dx PROVE x.Devices[e] = y.Devices[e]
    <3>1. /\ x.Devices[e] \in NetworkDeviceCensored
          /\ y.Devices[e] \in NetworkDeviceCensored
      BY <1>2, <1>3, <2>1
    <3>2. DeviceEqual(x.Devices[e], y.Devices[e])
      BY <1>2, <1>4 DEF NetworkCensoredEqual
    <3> QED
      BY <3>1, <3>2 DEF DeviceEqual, NetworkDeviceCensored
  <2>3. x.Devices = y.Devices
    BY <1>2, <1>3, <2>1, <2>2
  <2> QED
    BY <1>1, <1>4, <2>3 DEF NetworkCensoredEqual
<1>5. ASSUME x = y PROVE NetworkCensoredEqual(x, y)
  BY <1>5 DEF NetworkCensoredEqual, DeviceEqual
<1> QED
  BY <1>4, <1>5

\* Patching a device of a spec gives a spec of the same networks and devices.
LEMMA PatchedType ==
  ASSUME IsSpec(spec), NEW n, NEW d, Known(spec, n, d),
         NEW req \in PatchReifySpecRequest
  PROVE  IsSpec(Patched(n, d, req))
<1> DEFINE p == Patched(n, d, req)
           clone == Clone(spec)
<1>1. \A m \in DOMAIN spec : \A e \in DOMAIN spec[m] : spec[m][e] \in NetworkDevice
  BY DEF IsSpec, IsNetwork
<1>2. /\ clone = [m \in DOMAIN spec |-> clone[m]]
      /\ DOMAIN clone = DOMAIN spec
      /\ \A m \in DOMAIN spec : DOMAIN clone[m] = DOMAIN spec[m]
      /\ \A m \in DOMAIN spec : \A e \in DOMAIN spec[m] : clone[m][e] = CloneDevice(spec[m][e])
  BY DEF Clone
<1>3. \A m \in DOMAIN spec : \A e \in DOMAIN spec[m] : clone[m][e] \in NetworkDevice
  <2> SUFFICES ASSUME NEW m \in DOMAIN spec, NEW e \in DOMAIN spec[m]
               PROVE  clone[m][e] \in NetworkDevice
    OBVIOUS
  <2>1. spec[m][e] \in NetworkDevice
    BY <1>1
  <2>2. CloneDevice(spec[m][e]) \in NetworkDevice
    BY <2>1 DEF CloneDevice, NetworkDevice
  <2> HIDE DEF clone
  <2> QED
    BY <1>2, <2>2
<1>4. \A m \in DOMAIN spec : clone[m] \in [DOMAIN spec[m] -> NetworkDevice]
  BY <1>2, <1>3 DEF Clone
<1> DEFINE att == [a \in Attribute |->
                     IF a \in DOMAIN req.attrs THEN req.attrs[a] ELSE clone[n][d].attrs[a]]
           acc == IF req.AccessibleSet THEN req.Accessible ELSE clone[n][d].Accessible
           dev == [clone[n][d] EXCEPT !.attrs = att, !.Accessible = acc]
<1>5. p = [clone EXCEPT ![n] = [clone[n] EXCEPT ![d] = dev]]
  BY <1>2, <1>4 DEF Patched, Known
<1>6. att \in [Attribute -> Value]
  <2>1. clone[n][d].attrs \in [Attribute -> Value]
    BY <1>3 DEF Known, NetworkDevice
  <2>2. \A a \in DOMAIN req.attrs : req.attrs[a] \in Value
    BY DEF PatchReifySpecRequest
  <2> QED
    BY <2>1, <2>2
<1>7. acc \in SUBSET DeviceName
  BY <1>3 DEF Known, NetworkDevice, PatchReifySpecRequest
<1>8. dev \in NetworkDevice
  BY <1>3, <1>6, <1>7 DEF Known, NetworkDevice
<1>9. [clone[n] EXCEPT ![d] = dev] \in [DOMAIN spec[n] -> NetworkDevice]
  BY <1>4, <1>8 DEF Known
<1> HIDE DEF clone, dev
<1>10. /\ DOMAIN p = DOMAIN spec
       /\ p = [m \in DOMAIN p |-> p[m]]
       /\ \A m \in DOMAIN spec : p[m] \in [DOMAIN spec[m] -> NetworkDevice]
  BY <1>2, <1>4, <1>5, <1>9 DEF Known
<1> QED
  BY <1>10 DEF IsSpec, IsNetwork
-----------------------------------------------------------------------------
(* The inductive invariant *)

Inv == TypeOK /\ LatestIsCurrent

\* A server that starts with any configuration and empty lists is correct.
LEMMA InitInv ==
  ASSUME Init PROVE Inv
<1>1. IsSpec(spec)
  BY ServerAssumption DEF Init
<1>2. /\ latest \in [NetworkName -> [DeviceName -> 0 .. MaxMarks]]
      /\ \A n \in NetworkName, d \in DeviceName : latest[n][d] = 0
  BY ServerAssumption DEF Init, NoMarks
<1>3. accepted \in [Identity -> NetworkCensored \cup {NoReport}]
  BY DEF Init
<1> QED
  BY <1>1, <1>2, <1>3 DEF Init, Inv, TypeOK, LatestIsCurrent

\* Which devices stay on the list when newSpec replaces the spec: those that
\* newSpec still knows and that see in it what they saw before.
LEMMA UpdateKeeps ==
  ASSUME Inv, NEW newSpec, IsSpec(newSpec), UpdateSpecNoLock(newSpec),
         NEW n \in NetworkName, NEW d \in DeviceName
  PROVE  /\ latest'[n][d] \in 0 .. MaxMarks
         /\ latest'[n][d] > 0 <=>
              /\ latest[n][d] > 0
              /\ Known(newSpec, n, d)
              /\ NetworkCensoredEqual(CensorForDevice(spec, n, d),
                                      CensorForDevice(newSpec, n, d))
<1>1. /\ latest[n][d] \in 0 .. MaxMarks
      /\ latest[n][d] > 0 => Known(spec, n, d)
      /\ MaxMarks \in Nat \ {0}
  BY ServerAssumption DEF Inv, TypeOK, LatestIsCurrent
<1>2. CASE n \in DOMAIN spec \ DOMAIN newSpec
  <2>1. latest'[n] = NoMarks
    BY <1>2 DEF UpdateSpecNoLock, Kept
  <2> QED
    BY <1>1, <1>2, <2>1 DEF NoMarks, Known
<1>3. CASE n \in DOMAIN spec \cap DOMAIN newSpec
  <2>1. latest'[n] = SliceUnion(Keep(newSpec, n), latest[n])
    BY <1>3 DEF UpdateSpecNoLock, Kept
  <2>2. latest'[n][d] = IF d \in Keep(newSpec, n) /\ latest[n][d] > 0 THEN 1 ELSE 0
    BY <2>1 DEF SliceUnion
  <2>3. d \in Keep(newSpec, n) <=>
          /\ d \in DOMAIN newSpec[n] /\ d \in DOMAIN spec[n]
          /\ NetworkCensoredEqual(CensorForDevice(spec, n, d),
                                  CensorForDevice(newSpec, n, d))
    BY DEF Keep
  <2> QED
    BY <1>1, <1>3, <2>2, <2>3 DEF Known
<1>4. CASE n \notin DOMAIN spec
  <2>1. latest'[n] = latest[n]
    BY <1>4 DEF UpdateSpecNoLock, Kept
  <2> QED
    BY <1>1, <1>4, <2>1 DEF Known
<1> QED
  BY <1>2, <1>3, <1>4

\* Replacing the spec keeps the lists correct: updateSpecNoLock drops every device
\* that sees something else.
LEMMA UpdateInv ==
  ASSUME Inv, NEW newSpec, IsSpec(newSpec), UpdateSpecNoLock(newSpec)
  PROVE  Inv'
<1>1. spec' = newSpec
  BY DEF UpdateSpecNoLock, Kept
<1>2. latest' \in [NetworkName -> [DeviceName -> 0 .. MaxMarks]]
  <2>1. /\ latest' = [n \in NetworkName |-> latest'[n]]
        /\ \A n \in NetworkName : latest'[n] = [d \in DeviceName |-> latest'[n][d]]
    <3>1. latest' = [n \in NetworkName |-> latest'[n]]
      BY DEF UpdateSpecNoLock, Kept
    <3>2. ASSUME NEW n \in NetworkName
          PROVE  latest'[n] = [d \in DeviceName |-> latest'[n][d]]
      <4>1. latest[n] = [d \in DeviceName |-> latest[n][d]]
        BY DEF Inv, TypeOK
      <4>2. \/ latest'[n] = NoMarks
            \/ latest'[n] = SliceUnion(Keep(newSpec, n), latest[n])
            \/ latest'[n] = latest[n]
        BY DEF UpdateSpecNoLock, Kept
      <4> QED
        BY <4>1, <4>2 DEF NoMarks, SliceUnion
    <3> QED
      BY <3>1, <3>2
  <2>2. \A n \in NetworkName, d \in DeviceName : latest'[n][d] \in 0 .. MaxMarks
    BY UpdateKeeps
  <2> QED
    BY <2>1, <2>2
<1>3. /\ accepted' \in [Identity -> NetworkCensored \cup {NoReport}]
      /\ \A n \in NetworkName, d \in DeviceName :
           latest'[n][d] > 0 => accepted'[<<n, d>>] = accepted[<<n, d>>]
  BY DEF Inv, TypeOK, UpdateSpecNoLock, Kept, StillAccepted, Identity
<1>4. ASSUME NEW n \in NetworkName, NEW d \in DeviceName, latest'[n][d] > 0
      PROVE  /\ Known(newSpec, n, d)
             /\ accepted'[<<n, d>>] \in NetworkCensored
             /\ NetworkCensoredEqual(accepted'[<<n, d>>], CensorForDevice(newSpec, n, d))
  <2>1. /\ latest[n][d] > 0
        /\ Known(newSpec, n, d)
        /\ NetworkCensoredEqual(CensorForDevice(spec, n, d), CensorForDevice(newSpec, n, d))
    BY <1>4, UpdateKeeps
  <2>2. /\ Known(spec, n, d)
        /\ accepted[<<n, d>>] \in NetworkCensored
        /\ NetworkCensoredEqual(accepted[<<n, d>>], CensorForDevice(spec, n, d))
    BY <2>1 DEF Inv, LatestIsCurrent
  <2>3. /\ CensorForDevice(spec, n, d) \in NetworkCensored
        /\ CensorForDevice(newSpec, n, d) \in NetworkCensored
    BY <2>1, <2>2, CensorType DEF Inv, TypeOK
  <2> QED
    BY <1>3, <1>4, <2>1, <2>2, <2>3, EqualIsEquality
<1>5. boot' \in {0, 1}
  BY DEF Inv, TypeOK, UpdateSpecNoLock, Kept
<1> QED
  BY <1>1, <1>2, <1>3, <1>4, <1>5 DEF Inv, TypeOK, LatestIsCurrent

\* A patch replaces the spec by another spec, so it keeps the lists correct.
LEMMA PatchInv ==
  ASSUME Inv, NEW tok, NEW n, NEW d, NEW req \in PatchReifySpecRequest,
         PatchReifySpec(tok, n, d, req)
  PROVE  Inv'
<1>1. IsSpec(Patched(n, d, req))
  BY PatchedType DEF Inv, TypeOK, PatchReifySpec, Admitted
<1> QED
  BY <1>1, UpdateInv DEF PatchReifySpec

\* A report puts a device on the list only if it equals what the device is shown.
LEMMA PostInv ==
  ASSUME Inv, NEW tok, NEW n \in NetworkName, NEW d \in DeviceName,
         NEW rep \in NetworkCensored, PostReifyStatus(tok, n, d, rep)
  PROVE  Inv'
<1>1. /\ spec' = spec
      /\ latest' = [latest EXCEPT ![n][d] = IF @ < MaxMarks THEN @ + 1 ELSE @]
      /\ accepted' = [accepted EXCEPT ![<<n, d>>] = rep]
      /\ Known(spec, n, d)
      /\ NetworkCensoredEqual(rep, CensorForDevice(spec, n, d))
  BY DEF PostReifyStatus, Admitted, ReportIsCurrent
<1>2. /\ latest \in [NetworkName -> [DeviceName -> 0 .. MaxMarks]]
      /\ accepted \in [Identity -> NetworkCensored \cup {NoReport}]
      /\ MaxMarks \in Nat \ {0}
  BY ServerAssumption DEF Inv, TypeOK
<1>3. latest' \in [NetworkName -> [DeviceName -> 0 .. MaxMarks]]
  <2> DEFINE x == IF latest[n][d] < MaxMarks THEN latest[n][d] + 1 ELSE latest[n][d]
  <2>1. latest[n] \in [DeviceName -> 0 .. MaxMarks] /\ x \in 0 .. MaxMarks
    BY <1>2
  <2>2. latest' = [latest EXCEPT ![n] = [latest[n] EXCEPT ![d] = x]]
    BY <1>1, <1>2
  <2> HIDE DEF x
  <2> QED
    BY <1>2, <2>1, <2>2
<1>4. accepted' \in [Identity -> NetworkCensored \cup {NoReport}]
  BY <1>1, <1>2 DEF Identity
<1>5. ASSUME NEW m \in NetworkName, NEW e \in DeviceName, latest'[m][e] > 0
      PROVE  /\ Known(spec, m, e)
             /\ accepted'[<<m, e>>] \in NetworkCensored
             /\ NetworkCensoredEqual(accepted'[<<m, e>>], CensorForDevice(spec, m, e))
  <2>1. CASE m = n /\ e = d
    BY <1>1, <1>2, <2>1 DEF Identity
  <2>2. CASE ~(m = n /\ e = d)
    <3>1. latest'[m][e] = latest[m][e] /\ accepted'[<<m, e>>] = accepted[<<m, e>>]
      BY <1>1, <1>2, <2>2 DEF Identity
    <3> QED
      BY <1>5, <3>1 DEF Inv, LatestIsCurrent
  <2> QED
    BY <2>1, <2>2
<1>6. boot' \in {0, 1}
  BY DEF Inv, TypeOK, PostReifyStatus
<1> QED
  BY <1>1, <1>3, <1>4, <1>5, <1>6 DEF Inv, TypeOK, LatestIsCurrent

\* After a restart nobody is listed, so the lists are correct whatever the
\* configuration says by then.
LEMMA RestartInv ==
  ASSUME Inv, NEW config \in Configs, Restart(config)
  PROVE  Inv'
<1>1. IsSpec(spec')
  BY ServerAssumption DEF Restart
<1>2. /\ latest' \in [NetworkName -> [DeviceName -> 0 .. MaxMarks]]
      /\ \A n \in NetworkName, d \in DeviceName : latest'[n][d] = 0
  BY ServerAssumption DEF Restart, NoMarks
<1>3. accepted' \in [Identity -> NetworkCensored \cup {NoReport}]
  BY DEF Restart
<1>4. boot' \in {0, 1}
  BY DEF Inv, TypeOK, Restart
<1> QED
  BY <1>1, <1>2, <1>3, <1>4 DEF Inv, TypeOK, LatestIsCurrent

\* Every step of the server keeps the invariant.
LEMMA StepInv ==
  ASSUME Inv, [Next]_vars PROVE Inv'
<1>1. ASSUME NEW tok \in Token, NEW n \in NetworkName, NEW d \in DeviceName,
             NEW req \in PatchReifySpecRequest, PatchReifySpec(tok, n, d, req)
      PROVE  Inv'
  BY <1>1, PatchInv
<1>2. ASSUME NEW tok \in Token, NEW n \in NetworkName, NEW d \in DeviceName,
             NEW rep \in NetworkCensored, PostReifyStatus(tok, n, d, rep)
      PROVE  Inv'
  BY <1>2, PostInv
<1>3. ASSUME NEW newSpec \in Configs, UpdateSpec(newSpec)
      PROVE  Inv'
  BY <1>3, UpdateInv, ServerAssumption DEF UpdateSpec
<1>4. ASSUME NEW config \in Configs, Restart(config)
      PROVE  Inv'
  BY <1>4, RestartInv
<1>5. CASE UNCHANGED vars
  BY <1>5 DEF vars, Inv, TypeOK, LatestIsCurrent
<1> QED
  BY <1>1, <1>2, <1>3, <1>4, <1>5 DEF Next

\* The inductive invariant holds in every reachable state of the server.
LEMMA Invariance == Spec => []Inv
<1>1. Init => Inv
  BY InitInv
<1>2. Inv /\ [Next]_vars => Inv'
  BY StepInv
<1> QED
  BY <1>1, <1>2, PTL DEF Spec

\* The state of the server always has its type: no patch, configuration or
\* report takes the spec or the lists out of their shape.
THEOREM TypeCorrect == Spec => []TypeOK
<1>1. Inv => TypeOK
  BY DEF Inv
<1> QED
  BY <1>1, Invariance, PTL

\* A device that the lists of latest name is in the spec, and the report that put
\* it there is what the server would show it now.
THEOREM LatestCorrect == Spec => []LatestIsCurrent
<1>1. Inv => LatestIsCurrent
  BY DEF Inv
<1> QED
  BY <1>1, Invariance, PTL
-----------------------------------------------------------------------------
(* The server implements ReifyTracker *)

\* A device has a view exactly if the spec knows it, and the view is never the
\* missing report.
LEMMA ViewExists ==
  ASSUME IsSpec(spec), NEW n, NEW d
  PROVE  /\ Known(spec, n, d) => /\ ViewOf(<<n, d>>) = CensorForDevice(spec, n, d)
                                 /\ ViewOf(<<n, d>>) \in NetworkCensored
                                 /\ ViewOf(<<n, d>>) # NoReport
         /\ ~Known(spec, n, d) => ViewOf(<<n, d>>) = NoReport
BY CensorType, ServerAssumption DEF ViewOf

\* Replacing the spec unmarks exactly the devices that see something else.
LEMMA UpdateIsChange ==
  ASSUME Inv, NEW newSpec, IsSpec(newSpec), UpdateSpecNoLock(newSpec)
  PROVE  Tracker!Change
<1>1. spec' = newSpec /\ Inv'
  BY UpdateInv DEF UpdateSpecNoLock, Kept
<1>2. ASSUME NEW n \in NetworkName, NEW d \in DeviceName
      PROVE  <<n, d>> \in Listed' <=>
               <<n, d>> \in Listed /\ ViewOf(<<n, d>>)' = ViewOf(<<n, d>>)
  <2>1. <<n, d>> \in Identity
    BY DEF Identity
  <2>2. /\ <<n, d>> \in Listed <=> latest[n][d] > 0
        /\ <<n, d>> \in Listed' <=> latest'[n][d] > 0
    BY <2>1 DEF Listed
  <2>3. latest[n][d] > 0 => Known(spec, n, d)
    BY DEF Inv, LatestIsCurrent
  <2>4. /\ Known(spec, n, d) => /\ ViewOf(<<n, d>>) = CensorForDevice(spec, n, d)
                                /\ ViewOf(<<n, d>>) \in NetworkCensored
                                /\ ViewOf(<<n, d>>) # NoReport
        /\ Known(newSpec, n, d) => /\ ViewOf(<<n, d>>)' = CensorForDevice(newSpec, n, d)
                                   /\ ViewOf(<<n, d>>)' \in NetworkCensored
        /\ ~Known(newSpec, n, d) => ViewOf(<<n, d>>)' = NoReport
    BY <1>1, CensorType, ServerAssumption DEF Inv, TypeOK, ViewOf
  <2>5. latest'[n][d] > 0 <=>
          /\ latest[n][d] > 0
          /\ Known(newSpec, n, d)
          /\ NetworkCensoredEqual(CensorForDevice(spec, n, d),
                                  CensorForDevice(newSpec, n, d))
    BY UpdateKeeps
  <2>6. Known(spec, n, d) /\ Known(newSpec, n, d) =>
          (NetworkCensoredEqual(CensorForDevice(spec, n, d), CensorForDevice(newSpec, n, d))
             <=> ViewOf(<<n, d>>) = ViewOf(<<n, d>>)')
    BY <2>4, EqualIsEquality
  <2> QED
    BY <2>2, <2>3, <2>4, <2>5, <2>6
<1>3. Listed' = {id \in Listed : ViewOf(id)' = ViewOf(id)}
  <2>1. \A id \in Identity :
          id \in Listed' <=> id \in Listed /\ ViewOf(id)' = ViewOf(id)
    BY <1>2 DEF Identity
  <2>2. Listed \subseteq Identity /\ Listed' \subseteq Identity
    BY DEF Listed
  <2> QED
    BY <2>1, <2>2
<1>4. accepted' = [id \in Identity |-> IF id \in Listed' THEN accepted[id] ELSE NoReport]
  BY DEF UpdateSpecNoLock, Kept, StillAccepted, Listed
<1>5. \A id \in Listed : /\ [i \in Identity |-> ViewOf(i)][id] = ViewOf(id)
                         /\ [i \in Identity |-> ViewOf(i)]'[id] = ViewOf(id)'
  BY DEF Listed
<1>6. boot' = boot
  BY DEF UpdateSpecNoLock, Kept
<1> QED
  BY <1>3, <1>4, <1>5, <1>6 DEF Tracker!Change

\* An accepted post is a Report of the tracker: the device is marked with what it
\* sees, and nobody else is touched.
LEMMA PostIsReport ==
  ASSUME Inv, NEW tok, NEW n \in NetworkName, NEW d \in DeviceName,
         NEW rep \in NetworkCensored, PostReifyStatus(tok, n, d, rep)
  PROVE  \E id \in Identity : Tracker!Report(id)
<1> DEFINE me == <<n, d>>
<1>1. /\ spec' = spec
      /\ latest' = [latest EXCEPT ![n][d] = IF @ < MaxMarks THEN @ + 1 ELSE @]
      /\ accepted' = [accepted EXCEPT ![me] = rep]
      /\ Known(spec, n, d)
      /\ NetworkCensoredEqual(rep, CensorForDevice(spec, n, d))
  BY DEF PostReifyStatus, Admitted, ReportIsCurrent
<1>2. /\ latest \in [NetworkName -> [DeviceName -> 0 .. MaxMarks]]
      /\ MaxMarks \in Nat \ {0}
      /\ me \in Identity
  BY ServerAssumption DEF Inv, TypeOK, Identity
<1>3. ViewOf(me) = rep /\ ViewOf(me) # NoReport
  BY <1>1, ViewExists, EqualIsEquality DEF Inv, TypeOK
<1>4. Listed' = Listed \cup {me}
  <2>1. ASSUME NEW m \in NetworkName, NEW e \in DeviceName
        PROVE  latest'[m][e] > 0 <=> latest[m][e] > 0 \/ <<m, e>> = me
    <3>1. CASE m = n /\ e = d
      BY <1>1, <1>2, <3>1
    <3>2. CASE ~(m = n /\ e = d)
      BY <1>1, <1>2, <3>2
    <3> QED
      BY <3>1, <3>2
  <2>2. \A id \in Identity : latest'[id[1]][id[2]] > 0 <=>
                               latest[id[1]][id[2]] > 0 \/ id = me
    BY <2>1 DEF Identity
  <2> QED
    BY <1>2, <2>2 DEF Listed
<1>5. [id \in Identity |-> ViewOf(id)]' = [id \in Identity |-> ViewOf(id)]
  BY <1>1 DEF ViewOf
<1>6. boot' = boot
  BY DEF PostReifyStatus
<1>7. Tracker!Report(me)
  BY <1>1, <1>2, <1>3, <1>4, <1>5, <1>6 DEF Tracker!Report
<1> QED
  BY <1>2, <1>7

\* A restart of the server makes the tracker forget every mark.
LEMMA RestartIsForget ==
  ASSUME NEW config, Restart(config) PROVE Tracker!Forget
<1>1. Listed' = {}
  <2>1. \A n \in NetworkName, d \in DeviceName : latest'[n][d] = 0
    BY DEF Restart, NoMarks
  <2> QED
    BY <2>1 DEF Listed, Identity
<1> QED
  BY <1>1 DEF Restart, Tracker!Forget

\* Whatever is patched, replaced, reported or restarted, the lists of latest name
\* the devices whose last accepted report still equals what they are shown: the
\* server implements ReifyTracker.
THEOREM Refinement == Spec => TracksReports
<1>1. Init => Tracker!Init
  <2> SUFFICES ASSUME Init PROVE Tracker!Init
    OBVIOUS
  <2>1. \A n \in NetworkName, d \in DeviceName : latest[n][d] = 0
    BY DEF Init, NoMarks
  <2>2. Listed = {}
    BY <2>1 DEF Listed, Identity
  <2> QED
    BY <2>2 DEF Init, Tracker!Init
<1>2. Inv /\ [Next]_vars => [Tracker!Next]_(Tracker!vars)
  <2> SUFFICES ASSUME Inv, [Next]_vars PROVE [Tracker!Next]_(Tracker!vars)
    OBVIOUS
  <2>1. ASSUME NEW tok \in Token, NEW n \in NetworkName, NEW d \in DeviceName,
               NEW req \in PatchReifySpecRequest, PatchReifySpec(tok, n, d, req)
        PROVE  Tracker!Change
    <3>1. IsSpec(Patched(n, d, req))
      BY <2>1, PatchedType DEF Inv, TypeOK, PatchReifySpec, Admitted
    <3> QED
      BY <2>1, <3>1, UpdateIsChange DEF PatchReifySpec
  <2>2. ASSUME NEW tok \in Token, NEW n \in NetworkName, NEW d \in DeviceName,
               NEW rep \in NetworkCensored, PostReifyStatus(tok, n, d, rep)
        PROVE  \E id \in Identity : Tracker!Report(id)
    BY <2>2, PostIsReport
  <2>3. ASSUME NEW newSpec \in Configs, UpdateSpec(newSpec)
        PROVE  Tracker!Change
    BY <2>3, UpdateIsChange, ServerAssumption DEF UpdateSpec
  <2>4. ASSUME NEW config \in Configs, Restart(config)
        PROVE  Tracker!Forget
    BY <2>4, RestartIsForget
  <2>5. CASE UNCHANGED vars
    BY <2>5 DEF vars, Tracker!vars, Listed, ViewOf
  <2> QED
    BY <2>1, <2>2, <2>3, <2>4, <2>5 DEF Next, Tracker!Next
<1> QED
  BY <1>1, <1>2, Invariance, PTL DEF Spec, TracksReports, Tracker!Spec
=============================================================================
