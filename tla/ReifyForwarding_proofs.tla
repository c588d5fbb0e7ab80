----------------------- MODULE ReifyForwarding_proofs -----------------------
(***************************************************************************)
(* What the patches of the clients do to the network they all see: access  *)
(* control stays, so a client panics for cause only; the client's own copy *)
(* follows them; no device offers to forward before it has a key; and what *)
(* one machine sends out is taken on by the next.                          *)
(***************************************************************************)
EXTENDS Reify_proofs

-----------------------------------------------------------------------------
(* The spec after a patch *)

\* What becomes of the spec: access control is as it was, the patched device has
\* what was asked for, and Clone has cleared what all the others offer.
PatchedBy(s, n, d, req) ==
  /\ DOMAIN s = DOMAIN spec
  /\ \A m \in DOMAIN spec : DOMAIN s[m] = DOMAIN spec[m]
  /\ \A m \in DOMAIN spec : \A e \in DOMAIN spec[m] :
       /\ s[m][e].AccessAll = spec[m][e].AccessAll
       /\ s[m][e].AccessOnly = spec[m][e].AccessOnly
       /\ m # n \/ e # d => s[m][e].attrs = spec[m][e].attrs /\ s[m][e].Accessible = {}
  /\ s[n][d].attrs = [f \in Attribute |-> IF f \in DOMAIN req.attrs THEN req.attrs[f]
                                                               ELSE spec[n][d].attrs[f]]
  /\ s[n][d].Accessible = IF req.AccessibleSet THEN req.Accessible ELSE {}

LEMMA PatchedSpec ==
  ASSUME ServerInv, NEW n, NEW d, Known(spec, n, d),
         NEW req \in Server!PatchReifySpecRequest
  PROVE  PatchedBy(Server!Patched(n, d, req), n, d, req)
<1> DEFINE clone == Server!Clone(spec)
           att == [f \in Attribute |->
                     IF f \in DOMAIN req.attrs THEN req.attrs[f] ELSE clone[n][d].attrs[f]]
           acc == IF req.AccessibleSet THEN req.Accessible ELSE clone[n][d].Accessible
           dev == [clone[n][d] EXCEPT !.attrs = att, !.Accessible = acc]
           s == Server!Patched(n, d, req)
<1>1. /\ n \in DOMAIN spec /\ d \in DOMAIN spec[n]
      /\ DOMAIN clone = DOMAIN spec /\ \A m \in DOMAIN spec : DOMAIN clone[m] = DOMAIN spec[m]
      /\ clone = [m \in DOMAIN clone |-> clone[m]]
      /\ \A m \in DOMAIN clone : clone[m] = [e \in DOMAIN clone[m] |-> clone[m][e]]
      /\ \A m \in DOMAIN spec : \A e \in DOMAIN spec[m] :
            clone[m][e] = Server!CloneDevice(spec[m][e])
  BY DEF Server!Clone, Known
<1>2. ASSUME NEW m \in DOMAIN spec, NEW e \in DOMAIN spec[m]
      PROVE  /\ clone[m][e] \in Server!NetworkDevice
             /\ clone[m][e].attrs = spec[m][e].attrs /\ clone[m][e].Accessible = {}
             /\ clone[m][e].AccessAll = spec[m][e].AccessAll
             /\ clone[m][e].AccessOnly = spec[m][e].AccessOnly
  <2>1. spec[m][e] \in Server!NetworkDevice /\ clone[m][e] = Server!CloneDevice(spec[m][e])
    BY <1>1 DEF ServerInv, Server!TypeOK, Server!IsSpec, Server!IsNetwork
  <2>2. ASSUME NEW x \in Server!NetworkDevice
        PROVE  /\ Server!CloneDevice(x) \in Server!NetworkDevice
               /\ Server!CloneDevice(x).attrs = x.attrs
               /\ Server!CloneDevice(x).Accessible = {}
               /\ Server!CloneDevice(x).AccessAll = x.AccessAll
               /\ Server!CloneDevice(x).AccessOnly = x.AccessOnly
    BY DEF Server!CloneDevice, Server!NetworkDevice
  <2> HIDE DEF clone
  <2> QED
    BY <2>1, <2>2
<1>3. s = [clone EXCEPT ![n] = [clone[n] EXCEPT ![d] = dev]]
  BY <1>1 DEF Server!Patched
<1> HIDE DEF clone, s
<1>4. /\ dev.attrs = att /\ dev.Accessible = acc
      /\ dev.AccessAll = clone[n][d].AccessAll /\ dev.AccessOnly = clone[n][d].AccessOnly
  BY <1>1, <1>2 DEF Server!NetworkDevice
<1>5. att = [f \in Attribute |-> IF f \in DOMAIN req.attrs THEN req.attrs[f]
                                                            ELSE spec[n][d].attrs[f]]
  BY <1>1, <1>2
<1>6. acc = IF req.AccessibleSet THEN req.Accessible ELSE {}
  BY <1>1, <1>2
<1> HIDE DEF att, acc, dev
<1>7. /\ DOMAIN s = DOMAIN spec /\ \A m \in DOMAIN spec : DOMAIN s[m] = DOMAIN spec[m]
      /\ s[n][d] = dev
      /\ \A m \in DOMAIN spec : \A e \in DOMAIN spec[m] :
            m # n \/ e # d => s[m][e] = clone[m][e]
  BY <1>1, <1>3
<1>8. ASSUME NEW m \in DOMAIN spec, NEW e \in DOMAIN spec[m]
      PROVE  /\ s[m][e].AccessAll = spec[m][e].AccessAll
             /\ s[m][e].AccessOnly = spec[m][e].AccessOnly
             /\ m # n \/ e # d =>
                  s[m][e].attrs = spec[m][e].attrs /\ s[m][e].Accessible = {}
  BY <1>1, <1>2, <1>4, <1>7
<1> QED
  BY <1>4, <1>5, <1>6, <1>7, <1>8 DEF PatchedBy, s

\* What a request does to the spec: nothing, or that.
LEMMA HandlePatches ==
  ASSUME NEW q \in Request, Handle(q)
  PROVE  \/ UNCHANGED spec
         \/ /\ q.kind = "patch" /\ q.body \in Server!PatchReifySpecRequest
            /\ Known(spec, q.from[1], q.from[2])
            /\ spec' = Server!Patched(q.from[1], q.from[2], q.body)
BY DEF Handle, Request, Server!PostReifyStatus, serverVars, Server!PatchReifySpec,
       Server!UpdateSpecNoLock, Server!Admitted, Server!Known, Known

-----------------------------------------------------------------------------
(* A client is only moved by its own steps, or started again *)

Stays(e) == UNCHANGED <<pc[e], key[e], nc[e], way[e], applied[e]>>

Idles(e) == pc'[e] = "idle" /\ applied'[e] \in {applied[e], NotApplied}

LEMMA GiveUpStays ==
  ASSUME Inv, NEW c \in Client, GiveUp(c)
  PROVE  /\ pc'[c] = "idle"
         /\ \A e \in Client \ {c} : UNCHANGED <<pc[e], nc[e], way[e]>>
BY ClientTypes DEF GiveUp, Goto

\* How a patch comes out: the client starts over, or its patch and its own copy
\* say the same.
LEMMA PatchSpecCourse ==
  ASSUME Inv, NEW c \in Client, NEW out, NEW body \in Server!PatchReifySpecRequest,
         NEW copy, NEW w, NEW l, PatchSpec(c, out, body, copy, w, l)
  PROVE  \/ GiveUp(c)
         \/ /\ Known(spec, c[1], c[2]) /\ spec' = Server!Patched(c[1], c[2], body)
            /\ nc' = copy /\ Goto(c, l) /\ way' = w
<1> DEFINE q == [kind |-> "patch", from |-> c, body |-> body]
<1>1. Call(q, out) /\ IF Succeeds(q, out) THEN nc' = copy /\ Goto(c, l) /\ way' = w ELSE GiveUp(c)
  BY DEF PatchSpec
<1>2. /\ q.kind = "patch" /\ q.from = c /\ q.body = body
  OBVIOUS
<1> HIDE DEF q
<1>3. Succeeds(q, out) => Handle(q) /\ Accepts(q)
  BY <1>1 DEF Succeeds, Call
<1>4. Handle(q) /\ Accepts(q) => Server!PatchReifySpec(TokenOf[c], c[1], c[2], body)
  BY <1>2 DEF Handle
<1> QED
  BY <1>1, <1>3, <1>4
  DEF Server!PatchReifySpec, Server!UpdateSpecNoLock, Server!Admitted, Server!Known, Known

LEMMA PatchSpecGoes ==
  ASSUME Inv, NEW c \in Client, NEW out, NEW body \in Server!PatchReifySpecRequest,
         NEW copy, NEW w, NEW l, PatchSpec(c, out, body, copy, w, l)
  PROVE  pc'[c] \in {"idle", l}
BY PatchSpecCourse, GiveUpStays, ClientTypes DEF Goto

KeyPatch(k) == [attrs |-> [f \in {"PublicKey"} |-> k],
                AccessibleSet |-> FALSE, Accessible |-> {}]

OfferPatch(accessible) == [attrs |-> <<>>, AccessibleSet |-> TRUE, Accessible |-> accessible]

LEMMA KeysCourse ==
  ASSUME Inv, NEW c \in Client, NEW out, UpdateMyKeys(c, out)
  PROVE  /\ pc[c] = "keys" /\ nc[c] \in NetworkCensored /\ SeesItself(c)
         /\ UNCHANGED <<clLatest, key, applied, reach>>
         /\ KeyPatch(PublicKey(c, key[c])) \in Server!PatchReifySpecRequest
         /\ PublicKey(c, key[c]) \in Value \ {NoKey}
         /\ \/ /\ KeyPublished(c, PublicKey(c, key[c]))
               /\ Skip(c, out, way, "accessible")
            \/ PatchSpec(c, out, KeyPatch(PublicKey(c, key[c])),
                         WithKey(c, PublicKey(c, key[c])), way, "accessible")
<1> DEFINE k == PublicKey(c, key[c])
<1>1. k \in Value \ {NoKey}
  BY ClientTypes, ClientAssumption
<1>2. pc[c] = "keys" /\ nc[c] \in NetworkCensored
  BY DEF UpdateMyKeys, Inv, HasView, AtWork
<1>3. KeyPatch(k) \in Server!PatchReifySpecRequest
  BY <1>1, KeyBody DEF KeyPatch
<1> QED
  BY <1>1, <1>2, <1>3 DEF UpdateMyKeys, KeyPatch

\* What a client offers that is through with choosing w.
Offer(c, w) == IF c \in CanForward THEN DOMAIN w ELSE {}

LEMMA OffersCourse ==
  ASSUME Inv, NEW c \in Client, NEW out, PatchAccessible(c, out)
  PROVE  /\ pc[c] = "accessible" /\ nc[c] \in NetworkCensored /\ SeesItself(c)
         /\ UNCHANGED <<clLatest, key, applied, reach>>
         /\ \E w \in Ways(nc[c], c[2], Answering(c)) :
              /\ Offer(c, w) \in SUBSET DeviceName
              /\ OfferPatch(Offer(c, w)) \in Server!PatchReifySpecRequest
              /\ \/ /\ AccessibleKnown(c, Offer(c, w))
                    /\ Skip(c, out, [way EXCEPT ![c] = w], "apply")
                 \/ PatchSpec(c, out, OfferPatch(Offer(c, w)), WithAccessible(c, Offer(c, w)),
                              [way EXCEPT ![c] = w], "apply")
<1>1. pc[c] = "accessible" /\ nc[c] \in NetworkCensored /\ SeesItself(c)
  BY DEF PatchAccessible, Inv, HasView, HasPublished, AtWork
<1>2. PICK w \in Ways(nc[c], c[2], Answering(c)) :
        \E accessible \in {IF c \in CanForward THEN DOMAIN w ELSE {}} :
        \E chosen \in {[way EXCEPT ![c] = w]} :
          IF AccessibleKnown(c, accessible)
          THEN Skip(c, out, chosen, "apply")
          ELSE PatchSpec(c, out, [attrs |-> <<>>,
                                  AccessibleSet |-> TRUE, Accessible |-> accessible],
                         WithAccessible(c, accessible), chosen, "apply")
  BY DEF PatchAccessible
<1>3. \/ /\ AccessibleKnown(c, Offer(c, w))
         /\ Skip(c, out, [way EXCEPT ![c] = w], "apply")
      \/ PatchSpec(c, out, OfferPatch(Offer(c, w)), WithAccessible(c, Offer(c, w)),
                   [way EXCEPT ![c] = w], "apply")
  BY <1>2 DEF Offer, OfferPatch
<1>4. w \in UNION {[D -> DeviceName] : D \in SUBSET DeviceName}
  BY <1>1, WaysType
<1>5. DOMAIN w \subseteq DeviceName
  BY <1>4
<1>6. Offer(c, w) \in SUBSET DeviceName
  BY <1>5 DEF Offer
<1>7. OfferPatch(Offer(c, w)) \in Server!PatchReifySpecRequest
  BY <1>6, AccessibleBody DEF OfferPatch
<1>8. UNCHANGED <<clLatest, key, applied, reach>>
  BY DEF PatchAccessible
<1> QED
  BY <1>1, <1>3, <1>6, <1>7, <1>8

LEMMA PatchSpecMoves ==
  ASSUME Inv, NEW c \in Client, NEW out, NEW body \in Server!PatchReifySpecRequest,
         NEW copy, NEW w, NEW l, PatchSpec(c, out, body, copy, w, l),
         \A e \in Client \ {c} : copy[e] = nc[e] /\ w[e] = way[e],
         UNCHANGED <<key, applied>>, NEW e \in Client \ {c}
  PROVE  Stays(e)
BY PatchSpecCourse, GiveUpStays, ClientTypes DEF Goto, Stays

LEMMA Moves ==
  ASSUME Inv, [Next]_vars, NEW e \in Client
  PROVE  Stays(e) \/ Idles(e) \/ \E out \in Outcome : Step(e, out)
<1>1. ASSUME NEW c \in Client \ {e}, NEW out \in Outcome, Step(c, out) PROVE Stays(e)
  <2>1. CASE GetLatest(c) \/ GetSpec(c) \/ Panic(c) \/ ApplyPanics(c)
    BY <2>1, ClientTypes DEF GetLatest, GetSpec, Panic, ApplyPanics, Goto, Stays
  <2>2. CASE UpdateMyKeys(c, out)
    <3>1. \A x \in Client \ {c} : WithKey(c, PublicKey(c, key[c]))[x] = nc[x]
      BY <2>2, KeysCourse, WithKeyType, ClientTypes
    <3>2. CASE Skip(c, out, way, "accessible")
      BY <2>2, <3>2, ClientTypes DEF UpdateMyKeys, Skip, Goto, Stays
    <3> QED
      BY <2>2, <3>1, <3>2, KeysCourse, PatchSpecMoves
  <2>3. CASE PatchAccessible(c, out)
    <3>1. PICK w \in Ways(nc[c], c[2], Answering(c)) :
            /\ Offer(c, w) \in SUBSET DeviceName
            /\ OfferPatch(Offer(c, w)) \in Server!PatchReifySpecRequest
            /\ \/ Skip(c, out, [way EXCEPT ![c] = w], "apply")
               \/ PatchSpec(c, out, OfferPatch(Offer(c, w)), WithAccessible(c, Offer(c, w)),
                            [way EXCEPT ![c] = w], "apply")
      BY <2>3, OffersCourse
    <3>2. \A x \in Client \ {c} : WithAccessible(c, Offer(c, w))[x] = nc[x]
      BY <2>3, <3>1, OffersCourse, WithAccessibleType, ClientTypes
    <3>3. \A x \in Client \ {c} : [way EXCEPT ![c] = w][x] = way[x]
      BY ClientTypes
    <3>4. UNCHANGED <<key, applied>>
      BY <2>3 DEF PatchAccessible
    <3>5. CASE Skip(c, out, [way EXCEPT ![c] = w], "apply")
      BY <3>3, <3>4, <3>5, ClientTypes DEF Skip, Goto, Stays
    <3>6. CASE PatchSpec(c, out, OfferPatch(Offer(c, w)), WithAccessible(c, Offer(c, w)),
                         [way EXCEPT ![c] = w], "apply")
      <4> DEFINE body == OfferPatch(Offer(c, w))
                 copy == WithAccessible(c, Offer(c, w))
                 chosen == [way EXCEPT ![c] = w]
      <4>1. /\ body \in Server!PatchReifySpecRequest
            /\ PatchSpec(c, out, body, copy, chosen, "apply")
            /\ \A x \in Client \ {c} : copy[x] = nc[x] /\ chosen[x] = way[x]
        BY <3>1, <3>2, <3>3, <3>6
      <4> HIDE DEF body, copy, chosen
      <4> QED
        BY <3>4, <4>1, PatchSpecMoves
    <3> QED
      BY <3>1, <3>5, <3>6
  <2>4. CASE Apply(c, out)
    <3>1. UNCHANGED key /\ (GiveUp(c) \/ (Goto(c, "post") /\ UNCHANGED <<nc, way>>))
      BY <2>4 DEF Apply
    <3>2. applied'[e] = applied[e]
      BY <2>4, ClientTypes DEF Apply
    <3> QED
      BY <3>1, <3>2, GiveUpStays, ClientTypes DEF Goto, Stays
  <2>5. CASE Post(c, out)
    BY <2>5, GiveUpStays, ClientTypes DEF Post, Stays
  <2> QED
    BY <1>1, <2>1, <2>2, <2>3, <2>4, <2>5 DEF Step
<1>2. ASSUME NEW q \in late, HandleLate(q) PROVE Stays(e)
  BY <1>2 DEF HandleLate, clientVars, Stays
<1>3. ASSUME NEW c \in Client, Crash(c) \/ Reboot(c) PROVE Stays(e) \/ Idles(e)
  <2>1. Restarted(c)
    BY <1>3 DEF Crash, Reboot
  <2>2. c # e => UNCHANGED <<pc[e], key[e], nc[e], way[e], applied[e]>>
    BY <1>3, <2>1, GiveUpStays, ClientTypes DEF Restarted, Crash, Reboot
  <2>3. c = e => Idles(e)
    BY <1>3, <2>1, GiveUpStays, ClientTypes DEF Restarted, Crash, Reboot, Idles
  <2> QED
    BY <2>2, <2>3 DEF Stays
<1>4. ASSUME NEW config, RestartServer(config) PROVE Stays(e)
  BY <1>4 DEF RestartServer, clientVars, Stays
<1>5. ASSUME NEW c, NEW d, Reach(c, d) PROVE Stays(e)
  BY <1>5 DEF Reach, clientVars, Stays
<1>6. CASE UNCHANGED vars
  BY <1>6 DEF vars, Stays
<1> QED
  BY <1>1, <1>2, <1>3, <1>4, <1>5, <1>6 DEF Next

LEMMA SpecCourse ==
  ASSUME Inv, [Next]_vars
  PROVE  \/ UNCHANGED spec
         \/ spec' \in Configs
         \/ \E n, d : \E req \in Server!PatchReifySpecRequest :
              Known(spec, n, d) /\ spec' = Server!Patched(n, d, req)
BY StepImplements DEF Server!Next, serverVars, Server!PatchReifySpec, Server!PostReifyStatus,
   Server!UpdateSpec, Server!UpdateSpecNoLock, Server!Restart, Server!Admitted, Server!Known,
   Known

-----------------------------------------------------------------------------
(* What the server does in a step *)

\* A report that holds the device it is from.
NamesItself(q) == q.kind = "post" => q.from[2] \in DOMAIN q.body.Devices

\* The server changes by a request only, made now or late, and by a restart; and
\* clients send reports of themselves only.
ServerCourse ==
  /\ \/ UNCHANGED serverVars
     \/ \E q \in Request : Handle(q) /\ (q \in late \/ NamesItself(q))
     \/ \E config \in Configs : RestartServer(config)
  /\ \A q \in late' : q \in late \/ NamesItself(q)

LEMMA CallServerCourse ==
  ASSUME NEW q \in Request, NEW out, Call(q, out), NamesItself(q) PROVE ServerCourse
BY DEF Call, ServerCourse

LEMMA PatchServerCourse ==
  ASSUME NEW c \in Client, NEW out, NEW body \in Server!PatchReifySpecRequest, NEW copy,
         NEW w, NEW l, PatchSpec(c, out, body, copy, w, l)
  PROVE  ServerCourse
<1> DEFINE q == [kind |-> "patch", from |-> c, body |-> body]
<1>1. q \in Request /\ Call(q, out) /\ NamesItself(q)
  BY DEF Request, PatchSpec, NamesItself
<1> HIDE DEF q
<1> QED
  BY <1>1, CallServerCourse

LEMMA StepServerCourse ==
  ASSUME Inv, NEW c \in Client, NEW out, Step(c, out) PROVE ServerCourse
<1>1. CASE UNCHANGED <<serverVars, late>>
  BY <1>1 DEF ServerCourse
<1>2. CASE GetLatest(c) \/ GetSpec(c) \/ Panic(c) \/ ApplyPanics(c) \/ Apply(c, out)
  BY <1>1, <1>2 DEF GetLatest, GetSpec, Panic, ApplyPanics, Apply
<1>3. CASE UpdateMyKeys(c, out)
  BY <1>1, <1>3, KeysCourse, PatchServerCourse DEF Skip
<1>4. CASE PatchAccessible(c, out)
  BY <1>1, <1>4, OffersCourse, PatchServerCourse DEF Skip
<1>5. CASE Post(c, out)
  <2> DEFINE q == [kind |-> "post", from |-> c, body |-> nc[c]]
  <2>1. nc[c] \in NetworkCensored /\ SeesItself(c)
    BY <1>5 DEF Post, Inv, HasView, HasPublished, AtWork
  <2>2. q \in Request /\ Call(q, out) /\ NamesItself(q)
    BY <1>5, <2>1 DEF Request, Post, NamesItself, SeesItself
  <2> HIDE DEF q
  <2> QED
    BY <2>2, CallServerCourse
<1> QED
  BY <1>2, <1>3, <1>4, <1>5 DEF Step

LEMMA ServerMoves ==
  ASSUME Inv, [Next]_vars PROVE ServerCourse
<1>1. CASE UNCHANGED serverVars /\ late' \subseteq late
  BY <1>1 DEF ServerCourse
<1>2. ASSUME NEW q \in late, HandleLate(q) PROVE ServerCourse
  BY <1>2, ClientTypes DEF HandleLate, ServerCourse
<1>3. ASSUME NEW c \in Client, Crash(c) \/ Reboot(c) PROVE ServerCourse
  BY <1>1, <1>3 DEF Crash, Reboot, Restarted
<1>4. ASSUME NEW config \in Configs, RestartServer(config) PROVE ServerCourse
  BY <1>4 DEF RestartServer, ServerCourse
<1>5. ASSUME NEW c \in Client, NEW e \in DeviceName, Reach(c, e) PROVE ServerCourse
  BY <1>1, <1>5 DEF Reach
<1>6. CASE UNCHANGED vars
  BY <1>1, <1>6 DEF vars, serverVars
<1> QED
  BY <1>2, <1>3, <1>4, <1>5, <1>6, StepServerCourse DEF Next

-----------------------------------------------------------------------------
(* Why a client panics *)

\* A configuration of the server hides client c from itself.
HiddenByConfig(c) == \E config \in Configs : Hides(config, c)

\* What is hidden, was hidden by a configuration.
ConfigsHide == \A c \in Client : Hides(spec, c) => HiddenByConfig(c)

\* So is what a client was not shown of itself; all else it panics for is IPv6.
Excused(c) ==
  /\ pc[c] \in {"keys", "panicked"} /\ ~SeesItself(c) => HiddenByConfig(c)
  /\ pc[c] = "panicked" /\ SeesItself(c) =>
       applied[c] = Compiled(c) /\ applied[c].machine.forwardsIPv6

\* No report that counts, or is still to be handled, is of somebody hidden.
ReportsNameThemselves ==
  /\ \A q \in late : NamesItself(q)
  /\ \A c \in Client : c \in Server!Listed => c[2] \in DOMAIN accepted[c].Devices

HidingInv == ConfigsHide /\ (\A c \in Client : Excused(c)) /\ ReportsNameThemselves

LEMMA ConfigsHideStep ==
  ASSUME Inv, [Next]_vars, ConfigsHide PROVE ConfigsHide'
<1>1. CASE UNCHANGED spec
  BY <1>1 DEF ConfigsHide
<1>2. ASSUME NEW n, NEW d, NEW req \in Server!PatchReifySpecRequest, Known(spec, n, d),
             spec' = Server!Patched(n, d, req)
      PROVE  ConfigsHide'
  <2>1. ServerInv
    BY DEF Inv, TypeOK, ServerInv
  <2>2. PatchedBy(spec', n, d, req)
    BY <1>2, <2>1, PatchedSpec
  <2>3. ASSUME NEW c \in Client, Hides(spec, c)' PROVE Hides(spec, c)
    BY <2>2, <2>3 DEF PatchedBy, Hides, Known
  <2> QED
    BY <2>3 DEF ConfigsHide, HiddenByConfig
<1>3. CASE spec' \in Configs
  BY <1>3 DEF ConfigsHide, HiddenByConfig
<1> QED
  BY <1>1, <1>2, <1>3, SpecCourse

\* getSpec shows a client all that is not hidden, itself as well.
LEMMA ShownItself ==
  ASSUME Inv, NEW c \in Client, GetSpec(c)
  PROVE  pc'[c] = "keys" /\ (SeesItself(c)' <=> ~Hides(spec, c))
<1>1. Known(spec, c[1], c[2])
  BY DEF GetSpec, Admitted, Server!Admitted, Server!Known, Known
<1>2. c[2] \in DOMAIN View(c).Devices <=> ~Hides(spec, c)
  BY <1>1 DEF Hides, Known, View, Server!GetReifySpec, Server!CensorForDevice, Server!Visible
<1>3. nc'[c] = View(c) /\ pc'[c] = "keys"
  BY ClientTypes DEF GetSpec, Goto, View
<1> QED
  BY <1>2, <1>3 DEF SeesItself

LEMMA ExcusedStep ==
  ASSUME Inv, [Next]_vars, ConfigsHide, NEW c \in Client, Excused(c)
  PROVE  Excused(c)'
<1>1. CASE Stays(c)
  BY <1>1 DEF Stays, Excused, SeesItself, Compiled
<1>2. CASE pc'[c] \in {"idle", "accessible", "apply", "post"}
  BY <1>2 DEF Excused
<1>3. ASSUME NEW out, Step(c, out) PROVE Excused(c)'
  <2>1. CASE GetLatest(c)
    BY <1>1, <2>1 DEF GetLatest, Stays
  <2>2. CASE GetSpec(c)
    BY <2>2, ShownItself DEF Excused, ConfigsHide
  <2>3. CASE UpdateMyKeys(c, out)
    BY <1>2, <2>3, KeysCourse, PatchSpecGoes, ClientTypes DEF Skip, Goto
  <2>4. CASE PatchAccessible(c, out)
    <3>1. PICK w \in Ways(nc[c], c[2], Answering(c)) :
            /\ OfferPatch(Offer(c, w)) \in Server!PatchReifySpecRequest
            /\ \/ Skip(c, out, [way EXCEPT ![c] = w], "apply")
               \/ PatchSpec(c, out, OfferPatch(Offer(c, w)), WithAccessible(c, Offer(c, w)),
                            [way EXCEPT ![c] = w], "apply")
      BY <2>4, OffersCourse
    <3>2. CASE Skip(c, out, [way EXCEPT ![c] = w], "apply")
      BY <1>2, <3>2, ClientTypes DEF Skip, Goto
    <3> QED
      BY <1>2, <3>1, <3>2, PatchSpecGoes
  <2>5. CASE Panic(c)
    BY <2>5 DEF Panic, Excused, SeesItself
  <2>6. CASE ApplyPanics(c)
    <3>1. SeesItself(c)
      BY <2>6 DEF ApplyPanics, Inv, HasPublished, AtWork
    <3>2. /\ applied'[c] = Compiled(c) /\ Compiled(c).machine.forwardsIPv6
          /\ UNCHANGED <<key, nc, way>>
      BY <2>6, ClientTypes DEF ApplyPanics
    <3> QED
      BY <3>1, <3>2 DEF Excused, SeesItself, Compiled
  <2>7. CASE Apply(c, out) \/ Post(c, out)
    BY <1>2, <2>7, ClientTypes DEF Apply, Post, Goto, GiveUp
  <2> QED
    BY <1>3, <2>1, <2>2, <2>3, <2>4, <2>5, <2>6, <2>7 DEF Step
<1> QED
  BY <1>1, <1>2, <1>3, Moves DEF Idles

LEMMA ReportsStep ==
  ASSUME Inv, [Next]_vars, ReportsNameThemselves PROVE ReportsNameThemselves'
<1>1. \A q \in late' : NamesItself(q)
  BY ServerMoves DEF ServerCourse, ReportsNameThemselves
<1>2. ASSUME NEW c \in Client, Unposted(c), c \in Server!Listed'
      PROVE  c[2] \in DOMAIN accepted'[c].Devices
  BY <1>2 DEF Unposted, ReportsNameThemselves
<1>3. ServerInv /\ \A c \in Client : c \in Identity
  BY ClientFacts DEF Inv, TypeOK, ServerInv
<1>4. ASSUME NEW c \in Client, c \in Server!Listed'
      PROVE  c[2] \in DOMAIN accepted'[c].Devices
  <2>1. CASE UNCHANGED serverVars
    BY <1>2, <1>4, <2>1, UnchangedUnposted
  <2>2. ASSUME NEW q \in Request, Handle(q), NamesItself(q)
        PROVE  c[2] \in DOMAIN accepted'[c].Devices
    <3>1. q.from \in Client
      BY DEF Request
    <3>2. CASE Server!PatchReifySpec(TokenOf[q.from], q.from[1], q.from[2], q.body)
      BY <1>2, <1>3, <1>4, <3>2, PatchUnposted
    <3>3. CASE /\ q.kind = "post"
               /\ Server!PostReifyStatus(TokenOf[q.from], q.from[1], q.from[2], q.body)
      BY <1>2, <1>3, <1>4, <2>2, <3>1, <3>3, PostUnposted DEF NamesItself
    <3> QED
      BY <2>1, <2>2, <3>2, <3>3 DEF Handle
  <2>3. ASSUME NEW config \in Configs, RestartServer(config) PROVE c \notin Server!Listed'
    BY <1>3, <2>3 DEF RestartServer, Server!Restart, Server!NoMarks, Server!Listed, Identity,
                      Server!Identity
  <2> QED
    BY <1>4, <2>1, <2>2, <2>3, ServerMoves DEF ServerCourse, ReportsNameThemselves
<1> QED
  BY <1>1, <1>4 DEF ReportsNameThemselves

\* Whatever fails and whoever starts again, a client panics because its machine
\* would forward IPv6, or because a configuration of the server, and no patch,
\* hides its own device from it; and while it is hidden no report of its is on the
\* list, since a report that is there holds its own device.
THEOREM PanicCauses == Spec => []PanicsForCause
<1>1. Init => HidingInv
  BY DEF Init, Start, Server!Init, Server!NoMarks, Server!Listed, Server!Identity, HidingInv,
         ConfigsHide, HiddenByConfig, Excused, ReportsNameThemselves
<1>2. ASSUME Inv, HidingInv, [Next]_vars PROVE HidingInv'
  BY <1>2, ConfigsHideStep, ExcusedStep, ReportsStep DEF HidingInv
<1>3. Inv /\ HidingInv => PanicsForCause
  <2> SUFFICES ASSUME Inv, HidingInv PROVE PanicsForCause
    OBVIOUS
  <2>1. ASSUME NEW c \in Client, Hides(spec, c), c \in Server!Listed PROVE FALSE
    <3>1. ServerInv
      BY DEF Inv, TypeOK, ServerInv
    <3>2. c[2] \in DOMAIN View(c).Devices
      BY <2>1, <3>1, ListedView DEF HidingInv, ReportsNameThemselves
    <3> QED
      BY <2>1, <3>2 DEF Hides, Known, View, Server!GetReifySpec, Server!CensorForDevice,
                        Server!Visible
  <2> QED
    BY <2>1 DEF HidingInv, Excused, HiddenByConfig, PanicsForCause
<1> QED
  BY <1>1, <1>2, <1>3, Invariance, PTL DEF Spec

-----------------------------------------------------------------------------
(* The client's own copy follows its own patches *)

LEMMA KnownView ==
  ASSUME NEW c, Known(spec, c[1], c[2])
  PROVE  /\ Server!ViewOf(c) = View(c)
         /\ DOMAIN View(c).Devices = Server!Visible(spec[c[1]], c[2])
         /\ \A e \in DOMAIN View(c).Devices :
              /\ View(c).Devices[e].attrs = spec[c[1]][e].attrs
              /\ View(c).Devices[e].Accessible = spec[c[1]][e].Accessible
BY DEF Known, Server!Known, Server!ViewOf, View, Server!GetReifySpec, Server!CensorForDevice,
       Server!Censored

LEMMA KnownDevices ==
  ASSUME NEW c, Known(spec, c[1], c[2]), NEW e \in DOMAIN View(c).Devices
  PROVE  View(c).Devices[e] = [attrs |-> spec[c[1]][e].attrs,
                               Accessible |-> spec[c[1]][e].Accessible]
BY DEF Known, View, Server!GetReifySpec, Server!CensorForDevice, Server!Censored

LEMMA PatchedView ==
  ASSUME NEW c, Known(spec, c[1], c[2]), NEW req, PatchedBy(spec', c[1], c[2], req)
  PROVE  /\ Known(spec', c[1], c[2])
         /\ Server!ViewOf(c)' = View(c)'
         /\ DOMAIN View(c)'.Devices = DOMAIN View(c).Devices
         /\ \A e \in DOMAIN View(c).Devices :
              View(c)'.Devices[e] = [attrs |-> spec'[c[1]][e].attrs,
                                     Accessible |-> spec'[c[1]][e].Accessible]
<1>1. c[1] \in DOMAIN spec /\ c[2] \in DOMAIN spec[c[1]]
  BY DEF Known
<1>2. /\ DOMAIN spec' = DOMAIN spec /\ DOMAIN spec'[c[1]] = DOMAIN spec[c[1]]
      /\ \A e \in DOMAIN spec[c[1]] : /\ spec'[c[1]][e].AccessAll = spec[c[1]][e].AccessAll
                                      /\ spec'[c[1]][e].AccessOnly = spec[c[1]][e].AccessOnly
  BY <1>1 DEF PatchedBy
<1>3. Known(spec', c[1], c[2])
  BY <1>1, <1>2 DEF Known
<1>4. Server!Visible(spec'[c[1]], c[2]) = Server!Visible(spec[c[1]], c[2])
  BY <1>1, <1>2 DEF Server!Visible
<1>5. /\ Server!ViewOf(c)' = View(c)'
      /\ DOMAIN View(c)'.Devices = Server!Visible(spec'[c[1]], c[2])
      /\ \A e \in DOMAIN View(c)'.Devices :
           View(c)'.Devices[e] = [attrs |-> spec'[c[1]][e].attrs,
                                  Accessible |-> spec'[c[1]][e].Accessible]
  BY <1>3 DEF Known, Server!Known, Server!ViewOf, View, Server!GetReifySpec,
              Server!CensorForDevice, Server!Censored
<1> QED
  BY <1>3, <1>4, <1>5, KnownView

\* A device of a report next to one the server shows, field by field.
LEMMA CopiedFields ==
  ASSUME NEW x \in NetworkDeviceCensored, NEW attrs, NEW accessible,
         NEW y, y = [attrs |-> attrs, Accessible |-> accessible]
  PROVE  /\ CopiedDevice(x, y) <=> attrs = x.attrs /\ accessible \in {x.Accessible, {}}
         /\ x = y <=> attrs = x.attrs /\ accessible = x.Accessible
BY DEF CopiedDevice, NetworkDeviceCensored

\* What WithKey and WithAccessible make of the attributes of the client's copy.
LEMMA WithKeyAttrs ==
  ASSUME nc \in [Client -> NetworkCensored \cup {NoReport}], NEW c \in Client,
         nc[c] \in NetworkCensored, SeesItself(c), NEW k
  PROVE  LET x == WithKey(c, k)[c]
         IN /\ DOMAIN x.Devices = DOMAIN nc[c].Devices
            /\ x.Devices[c[2]].attrs = [Mine(c).attrs EXCEPT !["PublicKey"] = k]
            /\ x.Devices[c[2]].Accessible = Mine(c).Accessible
            /\ \A e \in DOMAIN nc[c].Devices \ {c[2]} : x.Devices[e] = nc[c].Devices[e]
<1> DEFINE dev == [Mine(c) EXCEPT !.attrs["PublicKey"] = k]
           devs == [nc[c].Devices EXCEPT ![c[2]] = dev]
<1>1. Mine(c) \in NetworkDeviceCensored
  BY ViewShape DEF Mine, SeesItself
<1>2. /\ dev.attrs = [Mine(c).attrs EXCEPT !["PublicKey"] = k]
      /\ dev.Accessible = Mine(c).Accessible
  BY <1>1 DEF NetworkDeviceCensored
<1>3. WithKey(c, k)[c].Devices = devs
  BY DEF WithKey, Mine, NetworkCensored
<1> HIDE DEF dev
<1>4. /\ DOMAIN devs = DOMAIN nc[c].Devices /\ devs[c[2]] = dev
      /\ \A e \in DOMAIN nc[c].Devices \ {c[2]} : devs[e] = nc[c].Devices[e]
  BY DEF SeesItself
<1> QED
  BY <1>2, <1>3, <1>4

LEMMA WithAccessibleAttrs ==
  ASSUME nc \in [Client -> NetworkCensored \cup {NoReport}], NEW c \in Client,
         nc[c] \in NetworkCensored, SeesItself(c), NEW accessible
  PROVE  LET x == WithAccessible(c, accessible)[c]
         IN /\ DOMAIN x.Devices = DOMAIN nc[c].Devices
            /\ x.Devices[c[2]].attrs = Mine(c).attrs
            /\ x.Devices[c[2]].Accessible = accessible
            /\ \A e \in DOMAIN nc[c].Devices \ {c[2]} : x.Devices[e] = nc[c].Devices[e]
<1> DEFINE dev == [Mine(c) EXCEPT !.Accessible = accessible]
           devs == [nc[c].Devices EXCEPT ![c[2]] = dev]
<1>1. Mine(c) \in NetworkDeviceCensored
  BY ViewShape DEF Mine, SeesItself
<1>2. dev.attrs = Mine(c).attrs /\ dev.Accessible = accessible
  BY <1>1 DEF NetworkDeviceCensored
<1>3. WithAccessible(c, accessible)[c].Devices = devs
  BY DEF WithAccessible, Mine, NetworkCensored
<1> HIDE DEF dev
<1>4. /\ DOMAIN devs = DOMAIN nc[c].Devices /\ devs[c[2]] = dev
      /\ \A e \in DOMAIN nc[c].Devices \ {c[2]} : devs[e] = nc[c].Devices[e]
  BY DEF SeesItself
<1> QED
  BY <1>2, <1>3, <1>4

Mirrors(c) == Lags(nc[c], Server!ViewOf(c))

\* The same patch on both sides: x is what the client makes of its copy.
MirroredBy(c, x, req) ==
  /\ DOMAIN x.Devices = DOMAIN nc[c].Devices
  /\ \A e \in DOMAIN nc[c].Devices \ {c[2]} : x.Devices[e] = nc[c].Devices[e]
  /\ x.Devices[c[2]].attrs
       = [f \in Attribute |-> IF f \in DOMAIN req.attrs THEN req.attrs[f] ELSE Mine(c).attrs[f]]
  /\ req.AccessibleSet => x.Devices[c[2]].Accessible = req.Accessible

LEMMA MirroredPatch ==
  ASSUME Inv, NEW c \in Client, SeesItself(c), nc[c] \in NetworkCensored,
         NEW x \in NetworkCensored, NEW req \in Server!PatchReifySpecRequest,
         Known(spec, c[1], c[2]), spec' = Server!Patched(c[1], c[2], req),
         Mirrors(c), MirroredBy(c, x, req)
  PROVE  /\ Lags(x, Server!ViewOf(c)')
         /\ req.AccessibleSet => x.Devices[c[2]] = Server!ViewOf(c)'.Devices[c[2]]
<1> DEFINE n == c[1]
           d == c[2]
           D == DOMAIN nc[c].Devices
<1>1. ServerInv
  BY DEF Inv, TypeOK, ServerInv
<1>2. PatchedBy(spec', n, d, req)
  BY <1>1, PatchedSpec
<1>3. /\ Server!ViewOf(c) = View(c) /\ DOMAIN View(c).Devices \subseteq DOMAIN spec[n]
      /\ \A e \in DOMAIN View(c).Devices :
           View(c).Devices[e] = [attrs |-> spec[n][e].attrs,
                                 Accessible |-> spec[n][e].Accessible]
  BY KnownView, KnownDevices DEF Server!Visible
<1>4. /\ Server!ViewOf(c)' = View(c)' /\ DOMAIN View(c)'.Devices = DOMAIN View(c).Devices
      /\ \A e \in DOMAIN View(c).Devices :
           View(c)'.Devices[e] = [attrs |-> spec'[n][e].attrs,
                                  Accessible |-> spec'[n][e].Accessible]
  BY <1>2, PatchedView
<1>5. /\ DOMAIN View(c).Devices = D /\ D \subseteq DOMAIN spec[n] /\ d \in D /\ n \in DOMAIN spec
      /\ \A e \in D : CopiedDevice(nc[c].Devices[e], View(c).Devices[e])
  BY <1>3 DEF Mirrors, Lags, SeesItself, Known
<1>6. /\ DOMAIN x.Devices = D
      /\ \A e \in D : nc[c].Devices[e] \in NetworkDeviceCensored
                      /\ x.Devices[e] \in NetworkDeviceCensored
  BY ViewShape DEF MirroredBy
<1>7. ASSUME NEW e \in D PROVE nc[c].Devices[e].attrs = spec[n][e].attrs
  <2> DEFINE a == nc[c].Devices[e]
             b == View(c).Devices[e]
  <2>1. /\ a \in NetworkDeviceCensored /\ CopiedDevice(a, b)
        /\ b = [attrs |-> spec[n][e].attrs, Accessible |-> spec[n][e].Accessible]
    BY <1>3, <1>5, <1>6
  <2> HIDE DEF a, b, n
  <2>2. spec[n][e].attrs = a.attrs
    BY <2>1, CopiedFields
  <2> QED
    BY <2>2 DEF a
<1>8. ASSUME NEW e \in D \ {d} PROVE CopiedDevice(x.Devices[e], View(c)'.Devices[e])
  <2>1. spec'[n][e].attrs = spec[n][e].attrs /\ spec'[n][e].Accessible = {}
    BY <1>2, <1>5 DEF PatchedBy
  <2> DEFINE a == x.Devices[e]
             b == View(c)'.Devices[e]
  <2>2. a = nc[c].Devices[e]
    BY DEF MirroredBy
  <2>3. a \in NetworkDeviceCensored /\ a.attrs = spec[n][e].attrs
    BY <1>6, <1>7, <2>2
  <2>4. b = [attrs |-> spec'[n][e].attrs, Accessible |-> spec'[n][e].Accessible]
    BY <1>4, <1>5
  <2> HIDE DEF a, b, n
  <2>5. b = [attrs |-> a.attrs, Accessible |-> {}]
    BY <2>1, <2>3, <2>4
  <2>6. CopiedDevice(a, b)
    BY <2>3, <2>5, CopiedFields
  <2> QED
    BY <2>6 DEF a, b
<1>9. /\ x.Devices[d].attrs = spec'[n][d].attrs
      /\ spec'[n][d].Accessible = IF req.AccessibleSet THEN x.Devices[d].Accessible ELSE {}
  BY <1>2, <1>5, <1>7 DEF PatchedBy, MirroredBy, Mine
<1>10. /\ CopiedDevice(x.Devices[d], View(c)'.Devices[d])
       /\ req.AccessibleSet => x.Devices[d] = View(c)'.Devices[d]
  <2> DEFINE a == x.Devices[d]
             b == View(c)'.Devices[d]
             offers == IF req.AccessibleSet THEN a.Accessible ELSE {}
  <2>1. /\ a \in NetworkDeviceCensored
        /\ b = [attrs |-> a.attrs, Accessible |-> offers]
    BY <1>4, <1>5, <1>6, <1>9
  <2>2. /\ offers \in {a.Accessible, {}}
        /\ req.AccessibleSet => offers = a.Accessible
    OBVIOUS
  <2> HIDE DEF a, b, offers
  <2>3. CopiedDevice(a, b) /\ (req.AccessibleSet => a = b)
    BY <2>1, <2>2, CopiedFields
  <2> QED
    BY <2>3 DEF a, b
<1> QED
  BY <1>4, <1>5, <1>6, <1>8, <1>10 DEF Lags

LEMMA KeysMirrored ==
  ASSUME Inv, NEW c \in Client, NEW out, UpdateMyKeys(c, out), pc'[c] # "idle",
         Known(spec, c[1], c[2]), Mirrors(c)
  PROVE  Mirrors(c)'
<1> DEFINE k == PublicKey(c, key[c])
           body == KeyPatch(k)
           copy == WithKey(c, k)
<1>1. /\ nc[c] \in NetworkCensored /\ SeesItself(c)
      /\ body \in Server!PatchReifySpecRequest /\ k \in Value
      /\ \/ Skip(c, out, way, "accessible")
         \/ PatchSpec(c, out, body, copy, way, "accessible")
  BY KeysCourse
<1>2. /\ DOMAIN copy[c].Devices = DOMAIN nc[c].Devices
      /\ copy[c].Devices[c[2]].attrs = [Mine(c).attrs EXCEPT !["PublicKey"] = k]
      /\ \A e \in DOMAIN nc[c].Devices \ {c[2]} : copy[c].Devices[e] = nc[c].Devices[e]
  BY <1>1, WithKeyAttrs, ClientTypes
<1>3. copy[c] \in NetworkCensored
  BY <1>1, WithKeyType, ClientTypes
<1>4. Mine(c).attrs \in [Attribute -> Value]
  BY <1>1, ViewShape DEF Mine, SeesItself, NetworkDeviceCensored
<1>5. DOMAIN body.attrs = {"PublicKey"} /\ body.attrs["PublicKey"] = k /\ ~body.AccessibleSet
  BY DEF KeyPatch
<1> HIDE DEF body, copy, k
<1>6. copy[c].Devices[c[2]].attrs
        = [f \in Attribute |-> IF f \in DOMAIN body.attrs THEN body.attrs[f]
                                                          ELSE Mine(c).attrs[f]]
  BY <1>2, <1>4, <1>5
<1>7. MirroredBy(c, copy[c], body)
  BY <1>2, <1>5, <1>6 DEF MirroredBy
<1>8. CASE Skip(c, out, way, "accessible")
  BY <1>8 DEF Skip, serverVars, Mirrors, Server!ViewOf
<1>9. CASE PatchSpec(c, out, body, copy, way, "accessible")
  <2>1. spec' = Server!Patched(c[1], c[2], body) /\ nc' = copy
    BY <1>1, <1>9, PatchSpecCourse, GiveUpStays
  <2>2. Lags(copy[c], Server!ViewOf(c)')
    BY <1>1, <1>3, <1>7, <2>1, MirroredPatch
  <2> QED
    BY <2>1, <2>2 DEF Mirrors
<1> QED
  BY <1>1, <1>8, <1>9

LEMMA OffersMirrored ==
  ASSUME Inv, NEW c \in Client, NEW out, PatchAccessible(c, out), pc'[c] # "idle",
         Known(spec, c[1], c[2]), Mirrors(c)
  PROVE  /\ Mirrors(c)'
         /\ nc'[c] # nc[c] => nc'[c].Devices[c[2]] = Server!ViewOf(c)'.Devices[c[2]]
<1>1. /\ nc[c] \in NetworkCensored /\ SeesItself(c)
  BY OffersCourse
<1>2. PICK w \in Ways(nc[c], c[2], Answering(c)) :
        /\ Offer(c, w) \in SUBSET DeviceName
        /\ OfferPatch(Offer(c, w)) \in Server!PatchReifySpecRequest
        /\ \/ Skip(c, out, [way EXCEPT ![c] = w], "apply")
           \/ PatchSpec(c, out, OfferPatch(Offer(c, w)), WithAccessible(c, Offer(c, w)),
                        [way EXCEPT ![c] = w], "apply")
  BY OffersCourse
<1> DEFINE offer == Offer(c, w)
           body == OfferPatch(offer)
           copy == WithAccessible(c, offer)
           chosen == [way EXCEPT ![c] = w]
<1>3. /\ DOMAIN copy[c].Devices = DOMAIN nc[c].Devices
      /\ copy[c].Devices[c[2]].attrs = Mine(c).attrs
      /\ copy[c].Devices[c[2]].Accessible = offer
      /\ \A e \in DOMAIN nc[c].Devices \ {c[2]} : copy[c].Devices[e] = nc[c].Devices[e]
  BY <1>1, WithAccessibleAttrs, ClientTypes
<1>4. copy[c] \in NetworkCensored
  BY <1>1, <1>2, WithAccessibleType, ClientTypes
<1>5. Mine(c).attrs \in [Attribute -> Value]
  BY <1>1, ViewShape DEF Mine, SeesItself, NetworkDeviceCensored
<1>6. DOMAIN body.attrs = {} /\ body.AccessibleSet /\ body.Accessible = offer
  BY DEF OfferPatch
<1>7. /\ body \in Server!PatchReifySpecRequest
      /\ \/ Skip(c, out, chosen, "apply")
         \/ PatchSpec(c, out, body, copy, chosen, "apply")
  BY <1>2
<1> HIDE DEF offer, body, copy, chosen
<1>8. copy[c].Devices[c[2]].attrs
        = [f \in Attribute |-> IF f \in DOMAIN body.attrs THEN body.attrs[f]
                                                          ELSE Mine(c).attrs[f]]
  BY <1>3, <1>5, <1>6
<1>9. MirroredBy(c, copy[c], body)
  BY <1>3, <1>6, <1>8 DEF MirroredBy
<1>10. CASE Skip(c, out, chosen, "apply")
  BY <1>10 DEF Skip, serverVars, Mirrors, Server!ViewOf
<1>11. CASE PatchSpec(c, out, body, copy, chosen, "apply")
  <2>1. spec' = Server!Patched(c[1], c[2], body) /\ nc' = copy
    BY <1>7, <1>11, PatchSpecCourse, GiveUpStays
  <2>2. /\ Lags(copy[c], Server!ViewOf(c)')
        /\ copy[c].Devices[c[2]] = Server!ViewOf(c)'.Devices[c[2]]
    BY <1>1, <1>4, <1>6, <1>7, <1>9, <2>1, MirroredPatch
  <2> QED
    BY <2>1, <2>2 DEF Mirrors
<1> QED
  BY <1>7, <1>10, <1>11

\* ReifySpec does to its own nc what its patches do to the spec, the offers
\* Clone drops aside: a client whose copy was the server's view, or behind it in
\* offers only, has it so after its own updateMyKeys and patchAccessible, and
\* after a patch of its offers its own device is exactly what the server shows,
\* whatever became of other calls and clients.
THEOREM CopiesFollow == Spec => OwnPatchesMirrored
<1> DEFINE Goes(c) ==
             /\ <<pc[c], pc'[c]>> \in {<<"keys", "accessible">>, <<"accessible", "apply">>}
             /\ Known(spec, c[1], c[2])
             /\ Lags(nc[c], Server!ViewOf(c))
             => /\ Lags(nc'[c], Server!ViewOf(c)')
                /\ pc'[c] = "apply" /\ nc'[c] # nc[c] =>
                     nc'[c].Devices[c[2]] = Server!ViewOf(c)'.Devices[c[2]]
<1>1. ASSUME Inv, [Next]_vars, NEW c \in Client PROVE Goes(c)
  <2> SUFFICES ASSUME <<pc[c], pc'[c]>> \in {<<"keys", "accessible">>, <<"accessible", "apply">>},
                      Known(spec, c[1], c[2]), Mirrors(c)
               PROVE  /\ Mirrors(c)'
                      /\ pc'[c] = "apply" /\ nc'[c] # nc[c] =>
                           nc'[c].Devices[c[2]] = Server!ViewOf(c)'.Devices[c[2]]
    BY DEF Mirrors
  <2>1. \/ pc[c] = "keys" /\ pc'[c] = "accessible"
        \/ pc[c] = "accessible" /\ pc'[c] = "apply"
    OBVIOUS
  <2>2. ~Stays(c) /\ ~Idles(c)
    BY <2>1 DEF Stays, Idles
  <2>3. PICK out \in Outcome : Step(c, out)
    BY <1>1, <2>2, Moves
  <2>4. UpdateMyKeys(c, out) \/ PatchAccessible(c, out)
    BY <2>1, <2>3, ClientTypes, <1>1
    DEF Step, GetLatest, GetSpec, Panic, Apply, ApplyPanics, Post, Goto
  <2>5. UpdateMyKeys(c, out) => pc'[c] # "apply"
    BY <2>1 DEF UpdateMyKeys
  <2> QED
    BY <1>1, <2>1, <2>4, <2>5, KeysMirrored, OffersMirrored
<1>2. Inv /\ [Next]_vars => [\A c \in Client : Goes(c)]_vars
  BY <1>1
<1> QED
  BY <1>2, Invariance, PTL DEF Spec, OwnPatchesMirrored

-----------------------------------------------------------------------------
(* No device offers before it has a key *)

\* The server has a key of device i.
Keyed(i) == Known(spec, i[1], i[2]) /\ spec[i[1]][i[2]].attrs["PublicKey"] # NoKey

KeysFirst(s) ==
  \A n \in DOMAIN s : \A d \in DOMAIN s[n] :
    s[n][d].Accessible # {} => s[n][d].attrs["PublicKey"] # NoKey

\* A request takes no key away, and offers for nobody without a key.
Sound(q) ==
  q.kind = "patch" =>
    /\ "PublicKey" \in DOMAIN q.body.attrs => q.body.attrs["PublicKey"] # NoKey
    /\ q.body.AccessibleSet => Keyed(q.from)

\* A client that is about to offer has its key published, and so has one that
\* will not publish because it was shown a key of its own.
KeyedWork(c) ==
  /\ pc[c] = "accessible" => Keyed(c)
  /\ pc[c] = "keys" /\ SeesItself(c) /\ Mine(c).attrs["PublicKey"] # NoKey => Keyed(c)

KeyInv ==
  /\ KeysFirst(spec)
  /\ \A q \in late : Sound(q)
  /\ \A c \in Client : KeyedWork(c)

KeepsKeys == \A i : Keyed(i) => Keyed(i)'

LEMMA SameKeys ==
  ASSUME UNCHANGED spec, KeysFirst(spec) PROVE KeysFirst(spec)' /\ KeepsKeys
BY DEF KeysFirst, KeepsKeys, Keyed

LEMMA SoundHandle ==
  ASSUME ServerInv, KeysFirst(spec), NEW q \in Request, Handle(q), Sound(q)
  PROVE  KeysFirst(spec)' /\ KeepsKeys
<1>1. CASE UNCHANGED spec
  BY <1>1, SameKeys
<1>2. CASE /\ q.kind = "patch" /\ q.body \in Server!PatchReifySpecRequest
           /\ Known(spec, q.from[1], q.from[2])
           /\ spec' = Server!Patched(q.from[1], q.from[2], q.body)
  <2> DEFINE n == q.from[1]
             d == q.from[2]
             req == q.body
  <2>1. PatchedBy(spec', n, d, req)
    BY <1>2, PatchedSpec
  <2>2. /\ "PublicKey" \in DOMAIN req.attrs => req.attrs["PublicKey"] # NoKey
        /\ req.AccessibleSet => spec[n][d].attrs["PublicKey"] # NoKey
    BY <1>2 DEF Sound, Keyed
  <2>3. n \in DOMAIN spec /\ d \in DOMAIN spec[n]
    BY <1>2 DEF Known
  <2> HIDE DEF n, d, req
  <2>4. /\ DOMAIN spec' = DOMAIN spec
        /\ \A m \in DOMAIN spec : DOMAIN spec'[m] = DOMAIN spec[m]
        /\ \A m \in DOMAIN spec : \A e \in DOMAIN spec[m] :
             m # n \/ e # d => spec'[m][e].attrs = spec[m][e].attrs /\ spec'[m][e].Accessible = {}
        /\ spec'[n][d].attrs["PublicKey"] \in {req.attrs["PublicKey"], spec[n][d].attrs["PublicKey"]}
        /\ spec[n][d].attrs["PublicKey"] # NoKey => spec'[n][d].attrs["PublicKey"] # NoKey
        /\ spec'[n][d].Accessible # {} => req.AccessibleSet
    BY <2>1, <2>2, AttributeAssumption DEF PatchedBy
  <2>5. KeysFirst(spec)'
    BY <2>2, <2>3, <2>4 DEF KeysFirst
  <2>6. ASSUME NEW i, Keyed(i) PROVE Keyed(i)'
    <3>1. Known(spec, i[1], i[2]) /\ spec[i[1]][i[2]].attrs["PublicKey"] # NoKey
      BY <2>6 DEF Keyed
    <3>2. Known(spec', i[1], i[2])
      BY <2>4, <3>1 DEF Known
    <3>3. spec'[i[1]][i[2]].attrs["PublicKey"] # NoKey
      BY <2>4, <3>1 DEF Known
    <3> QED
      BY <3>2, <3>3 DEF Keyed
  <2> QED
    BY <2>5, <2>6 DEF KeepsKeys
<1> QED
  BY <1>1, <1>2, HandlePatches

LEMMA SoundCall ==
  ASSUME Inv, KeyInv, NEW q \in Request, NEW out, Call(q, out), Sound(q)
  PROVE  KeysFirst(spec)' /\ KeepsKeys /\ late' \subseteq late \cup {q}
<1>1. ServerInv /\ KeysFirst(spec)
  BY DEF Inv, TypeOK, ServerInv, KeyInv
<1>2. late' \subseteq late \cup {q}
  BY DEF Call
<1>3. UNCHANGED spec \/ Handle(q)
  BY DEF Call, serverVars
<1> QED
  BY <1>1, <1>2, <1>3, SoundHandle, SameKeys

\* Requests that were sound stay so, for no key is taken away.
LEMMA SoundStays ==
  ASSUME KeepsKeys, NEW q, Sound(q) PROVE Sound(q)'
BY DEF KeepsKeys, Sound

\* Of the calls of a client.
LEMMA SoundPatchSpec ==
  ASSUME Inv, KeyInv, NEW c \in Client, NEW out, NEW body \in Server!PatchReifySpecRequest,
         NEW copy, NEW w, NEW l, PatchSpec(c, out, body, copy, w, l),
         "PublicKey" \in DOMAIN body.attrs => body.attrs["PublicKey"] # NoKey,
         body.AccessibleSet => Keyed(c)
  PROVE  KeysFirst(spec)' /\ KeepsKeys /\ \A q \in late' : Sound(q)'
<1> DEFINE q == [kind |-> "patch", from |-> c, body |-> body]
<1>1. q \in Request /\ Call(q, out)
  BY DEF Request, PatchSpec
<1>2. Sound(q)
  BY DEF Sound
<1> HIDE DEF q
<1> QED
  BY <1>1, <1>2, SoundCall, SoundStays DEF KeyInv

LEMMA SoundStep ==
  ASSUME "restart" \notin Faults, Inv, KeyInv, [Next]_vars
  PROVE  KeysFirst(spec)' /\ KeepsKeys /\ \A q \in late' : Sound(q)'
<1> DEFINE Goal == KeysFirst(spec)' /\ KeepsKeys /\ \A q \in late' : Sound(q)'
<1>1. CASE UNCHANGED spec /\ late' \subseteq late
  BY <1>1, SameKeys, SoundStays DEF KeyInv
<1>2. ASSUME NEW c \in Client, NEW out \in Outcome, Step(c, out) PROVE Goal
  <2>1. CASE GetLatest(c) \/ GetSpec(c) \/ Panic(c) \/ Apply(c, out) \/ ApplyPanics(c)
    BY <1>1, <2>1 DEF GetLatest, GetSpec, Panic, Apply, ApplyPanics, serverVars
  <2>2. CASE UpdateMyKeys(c, out)
    <3> DEFINE k == PublicKey(c, key[c])
               body == KeyPatch(k)
    <3>1. /\ body \in Server!PatchReifySpecRequest /\ k # NoKey
          /\ \/ Skip(c, out, way, "accessible")
             \/ PatchSpec(c, out, body, WithKey(c, k), way, "accessible")
      BY <2>2, KeysCourse
    <3>2. body.attrs["PublicKey"] = k /\ ~body.AccessibleSet
      BY DEF KeyPatch
    <3> HIDE DEF body, k
    <3>3. CASE Skip(c, out, way, "accessible")
      BY <1>1, <3>3 DEF Skip, serverVars
    <3>4. CASE PatchSpec(c, out, body, WithKey(c, k), way, "accessible")
      BY <3>1, <3>2, <3>4, SoundPatchSpec
    <3> QED
      BY <3>1, <3>3, <3>4
  <2>3. CASE PatchAccessible(c, out)
    <3>1. PICK w \in Ways(nc[c], c[2], Answering(c)) :
            /\ OfferPatch(Offer(c, w)) \in Server!PatchReifySpecRequest
            /\ \/ Skip(c, out, [way EXCEPT ![c] = w], "apply")
               \/ PatchSpec(c, out, OfferPatch(Offer(c, w)), WithAccessible(c, Offer(c, w)),
                            [way EXCEPT ![c] = w], "apply")
      BY <2>3, OffersCourse
    <3> DEFINE body == OfferPatch(Offer(c, w))
               copy == WithAccessible(c, Offer(c, w))
               chosen == [way EXCEPT ![c] = w]
    <3>2. /\ body \in Server!PatchReifySpecRequest
          /\ \/ Skip(c, out, chosen, "apply")
             \/ PatchSpec(c, out, body, copy, chosen, "apply")
      BY <3>1
    <3>3. DOMAIN body.attrs = {}
      BY DEF OfferPatch
    <3>4. Keyed(c)
      BY <2>3 DEF PatchAccessible, KeyInv, KeyedWork
    <3> HIDE DEF body, copy, chosen
    <3>5. CASE Skip(c, out, chosen, "apply")
      BY <1>1, <3>5 DEF Skip, serverVars
    <3>6. CASE PatchSpec(c, out, body, copy, chosen, "apply")
      BY <3>2, <3>3, <3>4, <3>6, SoundPatchSpec
    <3> QED
      BY <3>2, <3>5, <3>6
  <2>4. CASE Post(c, out)
    <3> DEFINE q == [kind |-> "post", from |-> c, body |-> nc[c]]
    <3>1. nc[c] \in NetworkCensored
      BY <2>4 DEF Post, Inv, HasView, AtWork
    <3>2. q \in Request /\ Call(q, out) /\ Sound(q)
      BY <2>4, <3>1 DEF Request, Post, Sound
    <3> HIDE DEF q
    <3> QED
      BY <3>2, SoundCall, SoundStays DEF KeyInv
  <2> QED
    BY <1>2, <2>1, <2>2, <2>3, <2>4 DEF Step
<1>3. ASSUME NEW q \in late, HandleLate(q) PROVE Goal
  <2>1. q \in Request /\ Handle(q) /\ late' \subseteq late /\ Sound(q) /\ ServerInv /\ KeysFirst(spec)
    BY <1>3, ClientTypes DEF HandleLate, KeyInv, Inv, TypeOK, ServerInv
  <2> QED
    BY <2>1, SoundHandle, SoundStays DEF KeyInv
<1>4. ASSUME NEW c \in Client, Crash(c) \/ Reboot(c) PROVE Goal
  BY <1>1, <1>4 DEF Crash, Reboot, Restarted, serverVars
<1>5. ASSUME NEW config \in Configs, RestartServer(config) PROVE Goal
  BY <1>5 DEF RestartServer, Fault
<1>6. ASSUME NEW c \in Client, NEW e \in DeviceName, Reach(c, e) PROVE Goal
  BY <1>1, <1>6 DEF Reach, serverVars
<1>7. CASE UNCHANGED vars
  BY <1>1, <1>7 DEF vars
<1> QED
  BY <1>2, <1>3, <1>4, <1>5, <1>6, <1>7 DEF Next

LEMMA GetSpecKeyed ==
  ASSUME Inv, NEW c \in Client, GetSpec(c) PROVE KeyedWork(c)'
<1>1. Known(spec, c[1], c[2]) /\ UNCHANGED spec
  BY DEF GetSpec, Admitted, Server!Admitted, Server!Known, Known, serverVars
<1>2. nc'[c] = View(c) /\ pc'[c] = "keys"
  BY ClientTypes DEF GetSpec, Goto, View
<1>3. SeesItself(c)' => Mine(c)'.attrs = spec[c[1]][c[2]].attrs
  BY <1>1, <1>2, KnownView DEF SeesItself, Mine
<1> QED
  BY <1>1, <1>2, <1>3 DEF KeyedWork, Keyed

LEMMA KeysKeyed ==
  ASSUME Inv, KeyInv, KeepsKeys, NEW c \in Client, NEW out, UpdateMyKeys(c, out)
  PROVE  pc'[c] = "idle" \/ (pc'[c] = "accessible" /\ Keyed(c)')
<1> DEFINE k == PublicKey(c, key[c])
           body == KeyPatch(k)
<1>1. /\ pc[c] = "keys" /\ SeesItself(c)
      /\ body \in Server!PatchReifySpecRequest /\ k # NoKey
      /\ \/ KeyPublished(c, k) /\ Skip(c, out, way, "accessible")
         \/ PatchSpec(c, out, body, WithKey(c, k), way, "accessible")
  BY KeysCourse
<1>2. DOMAIN body.attrs = {"PublicKey"} /\ body.attrs["PublicKey"] = k
  BY DEF KeyPatch
<1> HIDE DEF body, k
<1>3. CASE KeyPublished(c, k) /\ Skip(c, out, way, "accessible")
  <2>1. Keyed(c)
    BY <1>1, <1>3 DEF KeyInv, KeyedWork, KeyPublished
  <2> QED
    BY <1>3, <2>1, ClientTypes DEF Skip, Goto, KeepsKeys
<1>4. CASE PatchSpec(c, out, body, WithKey(c, k), way, "accessible")
  <2>1. \/ GiveUp(c)
        \/ /\ Known(spec, c[1], c[2]) /\ spec' = Server!Patched(c[1], c[2], body)
           /\ Goto(c, "accessible")
    BY <1>1, <1>4, PatchSpecCourse
  <2>2. CASE GiveUp(c)
    BY <2>2, GiveUpStays
  <2>3. CASE /\ Known(spec, c[1], c[2]) /\ spec' = Server!Patched(c[1], c[2], body)
             /\ Goto(c, "accessible")
    <3>1. ServerInv
      BY DEF Inv, TypeOK, ServerInv
    <3>2. PatchedBy(spec', c[1], c[2], body)
      BY <1>1, <2>3, <3>1, PatchedSpec
    <3>3. spec'[c[1]][c[2]].attrs["PublicKey"] = k /\ Known(spec', c[1], c[2])
      BY <1>2, <2>3, <3>2, AttributeAssumption DEF PatchedBy, Known
    <3> QED
      BY <1>1, <2>3, <3>3, ClientTypes DEF Keyed, Goto
  <2> QED
    BY <2>1, <2>2, <2>3
<1> QED
  BY <1>1, <1>3, <1>4

LEMMA OffersKeyed ==
  ASSUME Inv, NEW c \in Client, NEW out, PatchAccessible(c, out)
  PROVE  pc'[c] \in {"idle", "apply"}
<1>1. PICK w \in Ways(nc[c], c[2], Answering(c)) :
        /\ OfferPatch(Offer(c, w)) \in Server!PatchReifySpecRequest
        /\ \/ Skip(c, out, [way EXCEPT ![c] = w], "apply")
           \/ PatchSpec(c, out, OfferPatch(Offer(c, w)), WithAccessible(c, Offer(c, w)),
                        [way EXCEPT ![c] = w], "apply")
  BY OffersCourse
<1>2. CASE Skip(c, out, [way EXCEPT ![c] = w], "apply")
  BY <1>2, ClientTypes DEF Skip, Goto
<1> QED
  BY <1>1, <1>2, PatchSpecGoes

LEMMA KeyedWorkStep ==
  ASSUME Inv, KeyInv, KeepsKeys, [Next]_vars, NEW c \in Client PROVE KeyedWork(c)'
<1>1. KeyedWork(c) /\ (Keyed(c) => Keyed(c)')
  BY DEF KeyInv, KeepsKeys
<1>2. CASE Stays(c)
  BY <1>1, <1>2 DEF Stays, KeyedWork, SeesItself, Mine
<1>3. CASE pc'[c] \in {"idle", "apply", "post", "panicked"}
  BY <1>3 DEF KeyedWork
<1>4. ASSUME NEW out \in Outcome, Step(c, out) PROVE KeyedWork(c)'
  <2>1. GetLatest(c) => Stays(c)
    BY DEF GetLatest, Stays
  <2>2. CASE UpdateMyKeys(c, out)
    BY <2>2, KeysKeyed DEF KeyedWork
  <2>3. PatchAccessible(c, out) => pc'[c] \in {"idle", "apply"}
    BY OffersKeyed
  <2>4. Panic(c) \/ Apply(c, out) \/ ApplyPanics(c) \/ Post(c, out) =>
          pc'[c] \in {"idle", "post", "panicked"}
    BY ClientTypes DEF Panic, Apply, ApplyPanics, Post, Goto, GiveUp
  <2> QED
    BY <1>2, <1>3, <1>4, <2>1, <2>2, <2>3, <2>4, GetSpecKeyed DEF Step
<1>5. Idles(c) => pc'[c] = "idle"
  BY DEF Idles
<1> QED
  BY <1>2, <1>3, <1>4, <1>5, Moves

LEMMA KeyInvariance ==
  ASSUME "restart" \notin Faults, \A config \in Configs : KeysFirst(config)
  PROVE  Spec => []KeyInv
<1>1. Init => KeyInv
  BY DEF Init, Start, Server!Init, KeyInv, KeyedWork
<1>2. ASSUME Inv, KeyInv, [Next]_vars PROVE KeyInv'
  <2>1. KeysFirst(spec)' /\ KeepsKeys /\ \A q \in late' : Sound(q)'
    BY <1>2, SoundStep
  <2>2. \A c \in Client : KeyedWork(c)'
    BY <1>2, <2>1, KeyedWorkStep
  <2> QED
    BY <2>1, <2>2 DEF KeyInv
<1> QED
  BY <1>1, <1>2, Invariance, PTL DEF Spec

\* CompileMachine asks a device that offers to forward for no key: none is
\* without one (updateMyKeys goes before patchAccessible, and ends ReifySpec if
\* it fails), while the server runs and if its configuration is so, whichever
\* requests come late and whichever clients are started again.  A server that
\* restarts between the two would let the client offer without its key.
THEOREM OffersAreKeyed ==
  ASSUME "restart" \notin Faults, \A config \in Configs : KeysFirst(config)
  PROVE  Spec => []KeyBeforeForwarding
<1>1. KeyInv => KeyBeforeForwarding
  BY DEF KeyInv, KeysFirst, KeyBeforeForwarding
<1> QED
  BY <1>1, KeyInvariance, PTL

-----------------------------------------------------------------------------
(* What chooseEndpoints and CompileMachine promise of one view *)

LEMMA WayFacts ==
  ASSUME NEW x, NEW d, NEW A \in SUBSET Others(x, d), NEW w \in Ways(x, d, A)
  PROVE  /\ DOMAIN w \subseteq Others(x, d)
         /\ \A e \in A : e \in DOMAIN w /\ w[e] = e
         /\ \A e \in DOMAIN w \ A : w[e] \in DOMAIN w /\ e \in x.Devices[w[e]].Accessible
         /\ \A e \in Others(x, d) : \A f \in A :
              e \in x.Devices[f].Accessible => e \in DOMAIN w
<1>1. PICK D \in SUBSET Others(x, d) : w \in [D -> Others(x, d)]
  BY DEF Ways
<1>2. ASSUME NEW e \in Others(x, d)
      PROVE  /\ e \in DOMAIN w <=> \/ e \in A
                                  \/ GetForwardersFor(x, e, ChosenBefore(w, A, e)) # {}
             /\ e \in DOMAIN w /\ e \in A => w[e] = e
             /\ e \in DOMAIN w /\ e \notin A =>
                  w[e] \in GetForwardersFor(x, e, ChosenBefore(w, A, e))
  BY DEF Ways
<1>3. \A e \in A : e \in DOMAIN w /\ w[e] = e
  BY <1>2
<1>4. ASSUME NEW e \in DOMAIN w \ A
      PROVE  w[e] \in DOMAIN w /\ e \in x.Devices[w[e]].Accessible
  BY <1>1, <1>2 DEF GetForwardersFor, ChosenBefore
<1>5. ASSUME NEW e \in Others(x, d), NEW f \in A, e \in x.Devices[f].Accessible
      PROVE  e \in DOMAIN w
  <2>1. f \in ChosenBefore(w, A, e)
    BY <1>3 DEF ChosenBefore
  <2>2. f \in GetForwardersFor(x, e, ChosenBefore(w, A, e))
    BY <1>5, <2>1 DEF GetForwardersFor
  <2> QED
    BY <1>2, <2>2
<1> QED
  BY <1>1, <1>3, <1>4, <1>5

\* What a device offers itself has no say in the ways it chooses.
LEMMA WaysOwn ==
  ASSUME NEW x, NEW y, NEW d, NEW A, NEW w \in Ways(x, d, A),
         DOMAIN y.Devices = DOMAIN x.Devices,
         \A e \in DOMAIN x.Devices \ {d} : y.Devices[e] = x.Devices[e]
  PROVE  w \in Ways(y, d, A)
<1>1. Others(y, d) = Others(x, d)
  BY DEF Others
<1>2. PICK D \in SUBSET Others(x, d) : w \in [D -> Others(x, d)]
  BY DEF Ways
<1>3. ASSUME NEW e \in Others(x, d)
      PROVE  /\ e \in DOMAIN w <=> \/ e \in A
                                  \/ GetForwardersFor(x, e, ChosenBefore(w, A, e)) # {}
             /\ e \in DOMAIN w => IF e \in A THEN w[e] = e
                                  ELSE w[e] \in GetForwardersFor(x, e, ChosenBefore(w, A, e))
             /\ GetForwardersFor(y, e, ChosenBefore(w, A, e))
                  = GetForwardersFor(x, e, ChosenBefore(w, A, e))
  <2>1. ChosenBefore(w, A, e) \subseteq DOMAIN x.Devices \ {d}
    BY <1>2 DEF ChosenBefore, Others
  <2>2. GetForwardersFor(y, e, ChosenBefore(w, A, e))
          = GetForwardersFor(x, e, ChosenBefore(w, A, e))
    <3> DEFINE chosen == ChosenBefore(w, A, e)
    <3>1. chosen \subseteq DOMAIN x.Devices \ {d}
      BY <2>1
    <3> HIDE DEF chosen
    <3>2. GetForwardersFor(y, e, chosen) = GetForwardersFor(x, e, chosen)
      BY <3>1 DEF GetForwardersFor
    <3> QED
      BY <3>2 DEF chosen
  <2>3. /\ e \in DOMAIN w <=> \/ e \in A
                              \/ GetForwardersFor(x, e, ChosenBefore(w, A, e)) # {}
        /\ e \in DOMAIN w => IF e \in A THEN w[e] = e
                             ELSE w[e] \in GetForwardersFor(x, e, ChosenBefore(w, A, e))
    BY DEF Ways
  <2> QED
    BY <2>2, <2>3
<1>4. w \in UNION {[E -> Others(y, d)] : E \in SUBSET Others(y, d)}
  BY <1>1, <1>2
<1> QED
  BY <1>1, <1>3, <1>4 DEF Ways

\* A peer with a key is sent what is for it, and what it forwards.
LEMMA HopsOf ==
  ASSUME NEW x, NEW d, NEW w, NEW e \in Others(x, d), x.Devices[e].attrs["PublicKey"] # NoKey
  PROVE  /\ e \notin DOMAIN w \/ w[e] = e => Hops(CompileMachine(x, d, w), e) = {e}
         /\ \A f \in Others(x, d) :
              e \in DOMAIN w /\ f # e /\ w[e] = f /\ w[f] = f
                /\ x.Devices[f].attrs["PublicKey"] # NoKey
              => Hops(CompileMachine(x, d, w), e) = {f}
<1> DEFINE keyed == {g \in Others(x, d) : x.Devices[g].attrs["PublicKey"] # NoKey}
           forwarded == {g \in keyed \cap DOMAIN w : w[g] # g}
           m == CompileMachine(x, d, w)
<1>1. m.peers = [p \in keyed \ forwarded |->
                   [PublicKey |-> x.Devices[p].attrs["PublicKey"],
                    AllowedIPs |-> {p} \cup {g \in forwarded : w[g] = p}]]
  BY DEF CompileMachine
<1>2. e \in keyed
  OBVIOUS
<1>3. e \in forwarded <=> e \in DOMAIN w /\ w[e] # e
  BY <1>2
<1>4. ASSUME NEW f \in Others(x, d), w[f] = f, x.Devices[f].attrs["PublicKey"] # NoKey
      PROVE  f \in keyed \ forwarded
  BY <1>4
<1> HIDE DEF m, keyed, forwarded
<1>5. Hops(m, e) = {p \in keyed \ forwarded : p = e \/ (e \in forwarded /\ w[e] = p)}
  BY <1>1 DEF Hops
<1>6. e \notin forwarded => Hops(m, e) = {e}
  BY <1>2, <1>5
<1>7. ASSUME NEW f \in keyed \ forwarded, e \in forwarded, w[e] = f PROVE Hops(m, e) = {f}
  BY <1>5, <1>7
<1> QED
  BY <1>3, <1>4, <1>6, <1>7 DEF m

-----------------------------------------------------------------------------
(* Only one device offers at a time *)

OneOffers(s) ==
  \A n \in DOMAIN s : \A d, e \in DOMAIN s[n] :
    s[n][d].Accessible # {} /\ s[n][e].Accessible # {} => d = e

\* Clone drops what the others offer.
LEMMA OneOffersInvariance ==
  ASSUME \A config \in Configs : OneOffers(config)
  PROVE  Spec => []OneOffers(spec)
<1> DEFINE One == OneOffers(spec)
<1>1. Init => One
  BY DEF Init, Start, Server!Init
<1>2. ASSUME Inv, One, [Next]_vars PROVE One'
  <2>1. CASE UNCHANGED spec
    BY <1>2, <2>1
  <2>2. CASE spec' \in Configs
    BY <2>2
  <2>3. ASSUME NEW n, NEW d, NEW req \in Server!PatchReifySpecRequest,
               Known(spec, n, d), spec' = Server!Patched(n, d, req)
        PROVE  One'
    <3>1. ServerInv
      BY <1>2 DEF Inv, TypeOK, ServerInv
    <3>2. PatchedBy(spec', n, d, req)
      BY <2>3, <3>1, PatchedSpec
    <3>3. /\ DOMAIN spec' = DOMAIN spec
          /\ \A m \in DOMAIN spec : DOMAIN spec'[m] = DOMAIN spec[m]
          /\ \A m \in DOMAIN spec : \A e \in DOMAIN spec[m] :
               m # n \/ e # d => spec'[m][e].Accessible = {}
      BY <3>2 DEF PatchedBy
    <3> QED
      BY <3>3 DEF OneOffers
  <2> QED
    BY <1>2, <2>1, <2>2, <2>3, SpecCourse
<1> HIDE DEF One
<1>3. Spec => []One
  BY <1>1, <1>2, Invariance, PTL DEF Spec
<1> QED
  BY <1>3 DEF One

-----------------------------------------------------------------------------
(* A machine is made of the ways that its client chose *)

\* w is a choice of ways for view x, which says what i offers.
Chosen(i, x, w) ==
  /\ w \in Ways(x, i[2], Others(x, i[2]) \cap reach[i])
  /\ i[2] \in DOMAIN x.Devices
  /\ x.Devices[i[2]].Accessible = Offer(i, w)

WayChosen(i) == pc[i] \in {"apply", "post"} => Chosen(i, nc[i], way[i])

WayApplied(i) ==
  applied[i] # NotApplied =>
    \E w : /\ Chosen(i, applied[i].nc, w)
           /\ applied[i].machine = CompileMachine(applied[i].nc, i[2], w)

LEMMA ReachStays ==
  ASSUME "reach" \notin Faults, Inv, [Next]_vars PROVE reach' = reach
<1>1. ASSUME NEW c \in Client, NEW out \in Outcome, Step(c, out) PROVE reach' = reach
  BY <1>1 DEF Step, GetLatest, GetSpec, Panic, UpdateMyKeys, PatchAccessible, Apply,
              ApplyPanics, Post
<1>2. ASSUME NEW q \in late, HandleLate(q) PROVE reach' = reach
  BY <1>2 DEF HandleLate
<1>3. ASSUME NEW c \in Client, Crash(c) \/ Reboot(c) PROVE reach' = reach
  BY <1>3 DEF Crash, Reboot, Restarted
<1>4. ASSUME NEW config \in Configs, RestartServer(config) PROVE reach' = reach
  BY <1>4 DEF RestartServer
<1>5. ASSUME NEW c \in Client, NEW e \in DeviceName, Reach(c, e) PROVE reach' = reach
  BY <1>5 DEF Reach, Fault
<1>6. CASE UNCHANGED vars
  BY <1>6 DEF vars
<1> QED
  BY <1>1, <1>2, <1>3, <1>4, <1>5, <1>6 DEF Next

LEMMA OffersChosen ==
  ASSUME Inv, NEW c \in Client, NEW out, PatchAccessible(c, out), reach' = reach
  PROVE  WayChosen(c)'
<1>1. nc[c] \in NetworkCensored /\ SeesItself(c)
  BY OffersCourse
<1>2. PICK w \in Ways(nc[c], c[2], Answering(c)) :
        /\ OfferPatch(Offer(c, w)) \in Server!PatchReifySpecRequest
        /\ \/ /\ AccessibleKnown(c, Offer(c, w))
              /\ Skip(c, out, [way EXCEPT ![c] = w], "apply")
           \/ PatchSpec(c, out, OfferPatch(Offer(c, w)), WithAccessible(c, Offer(c, w)),
                        [way EXCEPT ![c] = w], "apply")
  BY OffersCourse
<1> DEFINE body == OfferPatch(Offer(c, w))
           copy == WithAccessible(c, Offer(c, w))
           chosen == [way EXCEPT ![c] = w]
           x == copy[c]
<1>3. /\ DOMAIN x.Devices = DOMAIN nc[c].Devices
      /\ x.Devices[c[2]].Accessible = Offer(c, w)
      /\ \A e \in DOMAIN nc[c].Devices \ {c[2]} : x.Devices[e] = nc[c].Devices[e]
  BY <1>1, WithAccessibleAttrs, ClientTypes
<1>4. /\ body \in Server!PatchReifySpecRequest
      /\ \/ AccessibleKnown(c, Offer(c, w)) /\ Skip(c, out, chosen, "apply")
         \/ PatchSpec(c, out, body, copy, chosen, "apply")
      /\ chosen[c] = w
  BY <1>2, ClientTypes
<1> HIDE DEF body, copy, chosen
<1>5. CASE AccessibleKnown(c, Offer(c, w)) /\ Skip(c, out, chosen, "apply")
  <2>1. nc'[c] = nc[c] /\ way'[c] = w
    BY <1>4, <1>5 DEF Skip
  <2>2. Chosen(c, nc[c], w)
    BY <1>1, <1>5 DEF Chosen, Answering, AccessibleKnown, Mine, SeesItself
  <2> QED
    BY <2>1, <2>2 DEF WayChosen, Chosen
<1>6. CASE PatchSpec(c, out, body, copy, chosen, "apply")
  <2>1. GiveUp(c) \/ (nc' = copy /\ way' = chosen)
    BY <1>4, <1>6, PatchSpecCourse
  <2>2. CASE GiveUp(c)
    BY <2>2, GiveUpStays DEF WayChosen
  <2>3. CASE nc' = copy /\ way' = chosen
    <3>1. w \in Ways(x, c[2], Answering(c))
      BY <1>3, WaysOwn
    <3>2. Chosen(c, x, w)
      BY <1>1, <1>3, <3>1 DEF Chosen, Answering, Others, SeesItself
    <3> QED
      BY <1>4, <2>3, <3>2 DEF WayChosen, Chosen
  <2> QED
    BY <2>1, <2>2, <2>3
<1> QED
  BY <1>4, <1>5, <1>6

LEMMA ApplyChosen ==
  ASSUME Inv, NEW c \in Client, NEW out, Apply(c, out), reach' = reach,
         WayChosen(c), WayApplied(c)
  PROVE  WayChosen(c)' /\ WayApplied(c)'
<1>1. pc[c] = "apply" /\ Chosen(c, nc[c], way[c])
  BY DEF Apply, WayChosen
<1>2. CASE /\ applied' = [applied EXCEPT ![c] = Compiled(c)]
           /\ Goto(c, "post") /\ UNCHANGED <<nc, way>>
  <2>1. /\ applied'[c].nc = nc[c]
        /\ applied'[c].machine = CompileMachine(nc[c], c[2], way[c])
    BY <1>2, ClientTypes DEF Compiled
  <2>2. Chosen(c, nc[c], way[c])'
    BY <1>1, <1>2 DEF Chosen
  <2> QED
    BY <1>2, <2>1, <2>2 DEF WayChosen, WayApplied, Chosen
<1>3. CASE GiveUp(c) /\ applied'[c] \in {applied[c], NotApplied}
  BY <1>3, GiveUpStays DEF WayChosen, WayApplied, Chosen
<1>4. applied' = [applied EXCEPT ![c] = NotApplied] => applied'[c] = NotApplied
  BY ClientTypes
<1> QED
  BY <1>2, <1>3, <1>4 DEF Apply

LEMMA WayStep ==
  ASSUME "reach" \notin Faults, Inv, [Next]_vars, NEW i \in Client, WayChosen(i), WayApplied(i)
  PROVE  WayChosen(i)' /\ WayApplied(i)'
<1>1. reach' = reach
  BY ReachStays
<1>2. applied'[i] \in {applied[i], NotApplied} => WayApplied(i)'
  BY <1>1 DEF WayApplied, Chosen
<1>3. pc'[i] \notin {"apply", "post"} => WayChosen(i)'
  BY DEF WayChosen
<1>4. CASE Stays(i)
  BY <1>1, <1>2, <1>4 DEF Stays, WayChosen, Chosen
<1>5. CASE Idles(i)
  BY <1>2, <1>3, <1>5 DEF Idles
<1>6. ASSUME NEW out \in Outcome, Step(i, out) PROVE WayChosen(i)' /\ WayApplied(i)'
  <2>1. CASE GetLatest(i)
    BY <1>4, <2>1 DEF GetLatest, Stays
  <2>2. CASE GetSpec(i) \/ Panic(i)
    BY <1>2, <1>3, <2>2, ClientTypes DEF GetSpec, Panic, Goto
  <2>3. CASE UpdateMyKeys(i, out)
    <3>1. pc'[i] \in {"idle", "accessible"}
      BY <2>3, KeysCourse, PatchSpecGoes, ClientTypes DEF Skip, Goto
    <3> QED
      BY <1>2, <1>3, <2>3, <3>1 DEF UpdateMyKeys
  <2>4. CASE PatchAccessible(i, out)
    BY <1>1, <1>2, <2>4, OffersChosen DEF PatchAccessible
  <2>5. CASE Apply(i, out)
    BY <1>1, <2>5, ApplyChosen
  <2>6. CASE Post(i, out)
    BY <1>2, <1>3, <2>6, GiveUpStays DEF Post
  <2>7. CASE ApplyPanics(i)
    <3>1. /\ pc'[i] = "panicked" /\ applied'[i].nc = nc[i]
          /\ applied'[i].machine = CompileMachine(nc[i], i[2], way[i])
      BY <2>7, ClientTypes DEF ApplyPanics, Goto, Compiled
    <3>2. Chosen(i, nc[i], way[i])
      BY <2>7 DEF ApplyPanics, WayChosen
    <3> QED
      BY <1>1, <1>3, <3>1, <3>2 DEF WayApplied, Chosen
  <2> QED
    BY <1>6, <2>1, <2>2, <2>3, <2>4, <2>5, <2>6, <2>7 DEF Step
<1> QED
  BY <1>4, <1>5, <1>6, Moves

WayInv == \A i \in Client : WayChosen(i) /\ WayApplied(i)

LEMMA WayInvariance ==
  ASSUME "reach" \notin Faults PROVE Spec => []WayInv
<1>1. Init => WayInv
  BY DEF Init, Start, WayInv, WayChosen, WayApplied
<1>2. ASSUME Inv, WayInv, [Next]_vars PROVE WayInv'
  BY <1>2, WayStep DEF WayInv
<1> QED
  BY <1>1, <1>2, Invariance, PTL DEF Spec

-----------------------------------------------------------------------------
(* What leaves one machine is taken on by the next *)

\* The machine of listed client c is made of ways that it chose, for what the
\* server would show it now.
Settled(c, w) ==
  /\ Known(spec, c[1], c[2])
  /\ applied[c].nc = View(c)
  /\ Chosen(c, View(c), w)
  /\ applied[c].machine = CompileMachine(View(c), c[2], w)

LEMMA ListedSettled ==
  ASSUME Inv, TameInv, WayInv, NEW c \in ListedClients
  PROVE  \E w : Settled(c, w)
<1>1. c \in Client /\ c \in Server!Listed /\ ServerInv
  BY DEF ListedClients, Inv, TypeOK, ServerInv
<1>2. applied[c] # NotApplied /\ applied[c].nc = View(c)
  BY <1>1, ListedView DEF TameInv, AppliedAccepted
<1>3. Known(spec, c[1], c[2])
  BY <1>1, ListedView DEF Server!Known, Known
<1> QED
  BY <1>1, <1>2, <1>3 DEF WayInv, WayApplied, Settled

\* The forwarder reaches what it offers, by itself.
LEMMA ForwarderDelivers ==
  ASSUME OneOffers(spec), NEW f \in Client, NEW w, Settled(f, w), NEW e,
         e \in spec[f[1]][f[2]].Accessible, spec[f[1]][e].attrs["PublicKey"] # NoKey
  PROVE  /\ applied[f].nc.Devices[e].attrs["Addresses"] \in IPv4 => applied[f].machine.forwardsIPv4
         /\ Hops(applied[f].machine, e) = {e}
<1> DEFINE x == View(f)
           d == f[2]
           A == Others(x, d) \cap reach[f]
<1>1. /\ d \in DOMAIN x.Devices
      /\ x.Devices[d].Accessible = spec[f[1]][d].Accessible
      /\ DOMAIN x.Devices \subseteq DOMAIN spec[f[1]]
      /\ \A g \in DOMAIN x.Devices : /\ x.Devices[g].attrs = spec[f[1]][g].attrs
                                     /\ x.Devices[g].Accessible = spec[f[1]][g].Accessible
  BY KnownView DEF Settled, Chosen, Server!Visible
<1>2. e \in DOMAIN w
  BY <1>1 DEF Settled, Chosen, Offer
<1>3. w \in Ways(x, d, A) /\ A \in SUBSET Others(x, d)
  BY DEF Settled, Chosen
<1>4. f[1] \in DOMAIN spec
  BY DEF Settled, Known
<1>5. applied[f].nc = x /\ applied[f].machine = CompileMachine(x, d, w)
  BY DEF Settled
<1> HIDE DEF x, A
<1>6. e \in Others(x, d) /\ DOMAIN w \subseteq Others(x, d)
  BY <1>2, <1>3, WayFacts
<1>7. w[e] = e
  <2>1. CASE e \in A
    BY <1>3, <2>1, WayFacts
  <2>2. CASE e \notin A
    <3>1. w[e] \in DOMAIN w /\ e \in x.Devices[w[e]].Accessible
      BY <1>2, <1>3, <2>2, WayFacts
    <3>2. w[e] \in DOMAIN x.Devices /\ w[e] # d
      BY <1>6, <3>1 DEF Others
    <3>3. spec[f[1]][w[e]].Accessible # {} /\ spec[f[1]][d].Accessible # {}
      BY <1>1, <3>1, <3>2
    <3> QED
      BY <1>1, <1>4, <3>2, <3>3 DEF OneOffers
  <2> QED
    BY <2>1, <2>2
<1>8. x.Devices[e].attrs["PublicKey"] # NoKey
  BY <1>1, <1>6 DEF Others
<1>9. Hops(CompileMachine(x, d, w), e) = {e}
  BY <1>6, <1>7, <1>8, HopsOf
<1>10. x.Devices[e].attrs["Addresses"] \in IPv4 => CompileMachine(x, d, w).forwardsIPv4
  BY <1>1 DEF CompileMachine, ForwardsFamily
<1> QED
  BY <1>5, <1>9, <1>10

\* Both ends of a way: what client i does with what is for e.
LEMMA WayDelivers ==
  ASSUME Inv, TameInv, WayInv, OneOffers(spec), KeysFirst(spec),
         NEW i \in ListedClients, NEW e \in Others(applied[i].nc, i[2]),
         applied[i].nc.Devices[e].attrs["PublicKey"] # NoKey
  PROVE  \E p \in Others(applied[i].nc, i[2]) :
           /\ Hops(applied[i].machine, e) = {p}
           /\ IF p = e THEN e \in reach[i] \/ Offered(i, e) = {}
              ELSE e \notin reach[i] /\ ForwardsTo(<<i[1], p>>, e)
<1>1. PICK w : Settled(i, w)
  BY ListedSettled
<1> DEFINE x == View(i)
           d == i[2]
           A == Others(x, d) \cap reach[i]
<1>2. i \in Client /\ i[1] \in DOMAIN spec
  BY <1>1 DEF ListedClients, Settled, Known
<1>3. /\ applied[i].nc = x /\ applied[i].machine = CompileMachine(x, d, w)
      /\ w \in Ways(x, d, A) /\ A \in SUBSET Others(x, d)
      /\ d \in DOMAIN x.Devices /\ x.Devices[d].Accessible = Offer(i, w)
  BY <1>1 DEF Settled, Chosen
<1>4. /\ DOMAIN x.Devices \subseteq DOMAIN spec[i[1]]
      /\ \A g \in DOMAIN x.Devices : /\ x.Devices[g].attrs = spec[i[1]][g].attrs
                                     /\ x.Devices[g].Accessible = spec[i[1]][g].Accessible
  BY <1>1, KnownView DEF Settled, Server!Visible
<1>5. Offered(i, e) = {f \in reach[i] \cap DOMAIN x.Devices : e \in x.Devices[f].Accessible}
  BY <1>3 DEF Offered
<1>6. A = Others(x, d) \cap reach[i] /\ Others(x, d) = DOMAIN x.Devices \ {d}
  BY DEF Others
<1> HIDE DEF x, A, d
<1>7. /\ e \in Others(x, d) /\ e \in DOMAIN x.Devices
      /\ x.Devices[e].attrs["PublicKey"] # NoKey
  BY <1>3, <1>6 DEF d
<1>8. SUFFICES \E p \in Others(x, d) :
                 /\ Hops(CompileMachine(x, d, w), e) = {p}
                 /\ IF p = e THEN e \in reach[i] \/ Offered(i, e) = {}
                    ELSE e \notin reach[i] /\ ForwardsTo(<<i[1], p>>, e)
  BY <1>3 DEF d
<1>9. CASE e \in A
  <2>1. w[e] = e
    BY <1>3, <1>9, WayFacts
  <2> QED
    BY <1>6, <1>7, <1>9, <2>1, HopsOf
<1>10. CASE e \notin DOMAIN w
  <2>1. Hops(CompileMachine(x, d, w), e) = {e}
    BY <1>7, <1>10, HopsOf
  <2>2. ASSUME NEW f \in reach[i] \cap DOMAIN x.Devices, e \in x.Devices[f].Accessible
        PROVE  FALSE
    <3>1. CASE f = d
      BY <1>3, <1>10, <2>2, <3>1 DEF Offer
    <3>2. CASE f # d
      <4>1. f \in A
        BY <1>6, <2>2, <3>2
      <4> QED
        BY <1>3, <1>7, <1>10, <2>2, <4>1, WayFacts
    <3> QED
      BY <3>1, <3>2
  <2>3. Offered(i, e) = {}
    BY <1>5, <2>2
  <2> QED
    BY <1>7, <2>1, <2>3
<1>11. CASE e \in DOMAIN w \ A
  <2> DEFINE f == w[e]
  <2>1. /\ f \in DOMAIN w /\ e \in x.Devices[f].Accessible /\ e \notin reach[i]
        /\ f \in Others(x, d) /\ f \in DOMAIN x.Devices
    BY <1>3, <1>6, <1>7, <1>11, WayFacts
  <2> HIDE DEF f
  <2>2. \A g \in DOMAIN x.Devices : x.Devices[g].Accessible # {} => g = f
    BY <1>2, <1>4, <2>1 DEF OneOffers
  <2>3. CASE f = e
    <3>1. Hops(CompileMachine(x, d, w), e) = {e}
      BY <1>7, <2>3, HopsOf DEF f
    <3>2. Offered(i, e) = {}
      BY <1>5, <2>1, <2>2, <2>3
    <3> QED
      BY <1>7, <3>1, <3>2
  <2>4. CASE f # e
    <3>1. w[f] = f
      <4>1. CASE f \in A
        BY <1>3, <4>1, WayFacts
      <4>2. CASE f \notin A
        <5>1. w[f] \in DOMAIN w /\ f \in x.Devices[w[f]].Accessible
          BY <1>3, <2>1, <4>2, WayFacts
        <5>2. w[f] \in DOMAIN x.Devices
          BY <1>3, <1>6, <5>1, WayFacts
        <5> QED
          BY <2>2, <5>1, <5>2
      <4> QED
        BY <4>1, <4>2
    <3>2. x.Devices[f].attrs["PublicKey"] # NoKey
      BY <1>2, <1>4, <2>1 DEF KeysFirst
    <3>3. Hops(CompileMachine(x, d, w), e) = {f}
      BY <1>7, <1>11, <2>1, <2>4, <3>1, <3>2, HopsOf DEF f
    <3>4. ForwardsTo(<<i[1], f>>, e)
      <4> DEFINE fwd == <<i[1], f>>
      <4>1. fwd[1] = i[1] /\ fwd[2] = f
        OBVIOUS
      <4> HIDE DEF fwd
      <4>2. e \in spec[fwd[1]][fwd[2]].Accessible /\ spec[fwd[1]][e].attrs["PublicKey"] # NoKey
        BY <1>4, <1>7, <2>1, <4>1
      <4>3. ASSUME fwd \in ListedClients
            PROVE  /\ applied[fwd].nc.Devices[e].attrs["Addresses"] \in IPv4 =>
                        applied[fwd].machine.forwardsIPv4
                   /\ Hops(applied[fwd].machine, e) = {e}
        <5>1. PICK v : Settled(fwd, v)
          BY <4>3, ListedSettled
        <5>2. fwd \in Client
          BY <4>3 DEF ListedClients
        <5> QED
          BY <4>2, <5>1, <5>2, ForwarderDelivers
      <4>4. ForwardsTo(fwd, e)
        BY <4>3 DEF ForwardsTo
      <4> QED
        BY <4>4 DEF fwd
    <3> QED
      BY <2>1, <2>4, <3>3, <3>4
  <2> QED
    BY <2>3, <2>4
<1> QED
  BY <1>9, <1>10, <1>11

\* In a tame world whose server is not restarted and whose endpoints keep
\* answering or not, what a listed client sends to a device with a key leaves
\* through one peer, directly or through a forwarder whose own machine takes it
\* there in one more step: the choices of chooseEndpoints, made by two clients
\* from two views at two times, agree.  They agree because Clone leaves one
\* device at most that offers anything.
THEOREM PacketsDelivered ==
  ASSUME Tame, "restart" \notin Faults, "reach" \notin Faults,
         \A config \in Configs : KeysFirst(config) /\ OneOffers(config)
  PROVE  Spec => []Delivers
<1> DEFINE One == OneOffers(spec)
<1>1. Inv /\ TameInv /\ WayInv /\ KeyInv /\ One => Delivers
  BY WayDelivers DEF KeyInv, Delivers
<1>2. Spec => []One
  BY OneOffersInvariance
<1> HIDE DEF One
<1>3. (Spec => []KeyInv) /\ (Spec => []WayInv) /\ (Spec => []TameInv)
  BY KeyInvariance, WayInvariance, TameInvariance
<1> QED
  BY <1>1, <1>2, <1>3, Invariance, PTL
=============================================================================
