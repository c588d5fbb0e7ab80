-------------------------------- MODULE Reify --------------------------------
(***************************************************************************)
(* The device clients (package device) at work against the coordination    *)
(* server.  Each client repeats ContinousClient.Step: while it believes it *)
(* is latest it asks getLatest; otherwise it runs ReifySpec, which gets    *)
(* the spec, publishes its key, publishes what it can forward to, applies  *)
(* the spec to the machine and posts what it applied.                      *)
(*                                                                         *)
(* A step of a client goes up to and through its next call: what it does   *)
(* between two calls touches nothing another process sees.  A call that    *)
(* changes the server can also be lost, lose its answer, or outlive the    *)
(* client's 5 second timeout and be handled later.  Nothing orders what    *)
(* different clients do.                                                   *)
(***************************************************************************)
EXTENDS Forwarding

CONSTANTS
  Token, Identities, Configs, NoReport, MaxMarks,  \* see CoordServer
  Client,       \* the identities that a device client runs for
  TokenOf,      \* the token of each client
  CanForward,   \* the clients configured with CanForward
  KeyFile,      \* the clients given a private key by their configuration
  MaxKeys,      \* bound: private keys a client generates, over its restarts
  NotApplied,   \* the machine has no configuration, or an unknown part of one
  Faults,       \* the faults that can happen
  MaxFaults     \* bound: how many faults happen

FaultKind == {"lost", "noreply", "delayed", "apply", "dns",
              "crash", "reboot", "restart", "reach"}

PublicKey(c, k) == <<c, k>>

\* As in CoordServer.
ASSUME ServerAssumption ==
  /\ Identities \in [Token -> SUBSET Identity]
  /\ \A config \in Configs : IsSpec(config)
  /\ NoReport \notin NetworkCensored
  /\ MaxMarks \in Nat \ {0}

\* What a machine is configured from: a view, a private key and what
\* CompileMachine made of the view.
Configuration == [nc : NetworkCensored, key : 1 .. MaxKeys, machine : Machine]

ASSUME ClientAssumption ==
  /\ Client \subseteq Identity
  /\ TokenOf \in [Client -> Token]
  /\ CanForward \subseteq Client
  /\ KeyFile \subseteq Client
  /\ MaxKeys \in Nat \ {0}
  /\ MaxFaults \in Nat
  /\ Faults \subseteq FaultKind
  /\ \A c \in Client, k \in 1 .. MaxKeys : PublicKey(c, k) \in Value \ {NoKey}
  /\ NotApplied \notin Configuration

VARIABLES
  spec, latest, accepted, boot,   \* the server, see CoordServer
  pc,        \* where each client is in Step
  clLatest,  \* ContinousClient.latest
  key,       \* Client.privateKey, as a number
  nc,        \* the nc of ReifySpec, while it runs
  way,       \* the endpoints and forwarders chosen in it
  applied,   \* what the machine of each client was last configured from
  reach,     \* the devices whose endpoints answer each client's ping
  late,      \* requests their client gave up on that may still be handled
  faults     \* how many faults happened

serverVars == <<spec, latest, accepted, boot>>
clientVars == <<pc, clLatest, key, nc, way, applied>>
vars == <<spec, latest, accepted, boot, pc, clLatest, key, nc, way, applied, reach, late, faults>>

Server == INSTANCE CoordServer

Request ==
  [kind : {"patch"}, from : Client, body : Server!PatchReifySpecRequest]
    \cup [kind : {"post"}, from : Client, body : NetworkCensored]

TypeOK ==
  /\ Server!TypeOK
  /\ pc \in [Client -> {"idle", "keys", "accessible", "apply", "post", "panicked"}]
  /\ clLatest \in [Client -> BOOLEAN]
  /\ key \in [Client -> 1 .. MaxKeys]
  /\ nc \in [Client -> NetworkCensored \cup {NoReport}]
  /\ way \in [Client -> UNION {[D -> DeviceName] : D \in SUBSET DeviceName}]
  /\ applied \in [Client -> Configuration \cup {NotApplied}]
  /\ reach \in [Client -> SUBSET DeviceName]
  /\ late \subseteq Request
  /\ faults \in 0 .. MaxFaults

-----------------------------------------------------------------------------
(* Calls that change the server *)

Fault(f) == f \in Faults /\ faults < MaxFaults /\ faults' = faults + 1

Admitted(c) == Server!Admitted(TokenOf[c], c[1], c[2])

\* The server answers 200 or 204 to request q.
Accepts(q) ==
  Admitted(q.from) /\ (q.kind = "patch" => Server!PatchValid(q.from[1], q.body))

\* An accepted post that is not current is answered Latest = FALSE.
Current(q) == Accepts(q) /\ Server!ReportIsCurrent(q.from[1], q.from[2], q.body)

Handle(q) ==
  \/ /\ q.kind = "patch"
     /\ Server!PatchReifySpec(TokenOf[q.from], q.from[1], q.from[2], q.body)
  \/ /\ q.kind = "post"
     /\ Server!PostReifyStatus(TokenOf[q.from], q.from[1], q.from[2], q.body)
  \/ /\ IF q.kind = "patch" THEN ~Accepts(q) ELSE ~Current(q)
     /\ UNCHANGED serverVars

\* How a call ends: answered, lost on the way, handled but the answer is lost,
\* or timed out while the server still holds it.
Call(q, out) ==
  \/ out = "ok" /\ Handle(q) /\ UNCHANGED <<late, faults>>
  \/ out = "lost" /\ Fault("lost") /\ UNCHANGED <<serverVars, late>>
  \/ out = "noreply" /\ Fault("noreply") /\ Handle(q) /\ UNCHANGED late
  \/ /\ out = "delayed" /\ Fault("delayed")
     /\ late' = late \cup {q}
     /\ UNCHANGED serverVars

\* The client sees no error.
Succeeds(q, out) == out = "ok" /\ Accepts(q)

\* The server gets to a request after its client gave up on it.
HandleLate(q) ==
  /\ q \in late
  /\ late' = late \ {q}
  /\ Handle(q)
  /\ UNCHANGED <<clientVars, reach, faults>>

-----------------------------------------------------------------------------
(* ContinousClient.Step and Client.ReifySpec *)

Goto(c, l) == pc' = [pc EXCEPT ![c] = l]

\* ReifySpec returns an error: Step leaves latest alone, and starts over.
GiveUp(c) ==
  /\ Goto(c, "idle")
  /\ nc' = [nc EXCEPT ![c] = NoReport]
  /\ way' = [way EXCEPT ![c] = <<>>]

\* getLatest.  A failing call is an error, which leaves c.latest as it is.
GetLatest(c) ==
  /\ pc[c] = "idle" /\ clLatest[c]
  /\ Admitted(c)
  /\ clLatest' = [clLatest EXCEPT ![c] = Server!GetReifyLatest(c[1], c[2])]
  /\ UNCHANGED <<serverVars, pc, key, nc, way, applied, reach, late, faults>>

\* Mutation of GetSpec: patchAccessible is moved before updateMyKeys.
GetSpecSkipsKeys(c) ==
  /\ pc[c] = "idle" /\ ~clLatest[c]
  /\ Admitted(c)
  /\ nc' = [nc EXCEPT ![c] = Server!GetReifySpec(c[1], c[2])]
  /\ Goto(c, "accessible")
  /\ UNCHANGED <<serverVars, clLatest, key, way, applied, reach, late, faults>>

\* getSpec.
GetSpec(c) ==
  /\ pc[c] = "idle" /\ ~clLatest[c]
  /\ Admitted(c)
  /\ nc' = [nc EXCEPT ![c] = Server!GetReifySpec(c[1], c[2])]
  /\ Goto(c, "keys")
  /\ UNCHANGED <<serverVars, clLatest, key, way, applied, reach, late, faults>>

Mine(c) == nc[c].Devices[c[2]]

SeesItself(c) == c[2] \in DOMAIN nc[c].Devices

\* A device missing from its own view: updateMyKeys calls that unreachable.
Panic(c) ==
  /\ pc[c] = "keys" /\ ~SeesItself(c)
  /\ Goto(c, "panicked")
  /\ UNCHANGED <<serverVars, clLatest, key, nc, way, applied, reach, late, faults>>

\* patchSpec, followed by the same change to the client's own copy.
PatchSpec(c, out, body, copy, w, l) ==
  \E q \in {[kind |-> "patch", from |-> c, body |-> body]} :
    /\ Call(q, out)
    /\ IF Succeeds(q, out) THEN nc' = copy /\ Goto(c, l) /\ way' = w ELSE GiveUp(c)

\* The spec already says what the client would patch: no call is made.
Skip(c, out, w, l) ==
  /\ out = "ok"
  /\ Goto(c, l)
  /\ way' = w
  /\ UNCHANGED <<serverVars, nc, late, faults>>

\* Mutation of KeyPublished: a key is only published where there was none.
KeyPublishedOnce(c, k) == Mine(c).attrs["PublicKey"] # NoKey

KeyPublished(c, k) == Mine(c).attrs["PublicKey"] = k

WithKey(c, k) == [nc EXCEPT ![c].Devices[c[2]].attrs["PublicKey"] = k]

\* Mutation of WithAccessible: the offers are patched, and not put into the report.
WithoutAccessible(c, accessible) == nc

WithAccessible(c, accessible) == [nc EXCEPT ![c].Devices[c[2]].Accessible = accessible]

\* updateMyKeys.
UpdateMyKeys(c, out) ==
  /\ pc[c] = "keys" /\ SeesItself(c)
  /\ \E k \in {PublicKey(c, key[c])} :
       IF KeyPublished(c, k)
       THEN Skip(c, out, way, "accessible")
       ELSE PatchSpec(c, out, [attrs |-> [f \in {"PublicKey"} |-> k],
                               AccessibleSet |-> FALSE, Accessible |-> {}],
                      WithKey(c, k), way, "accessible")
  /\ UNCHANGED <<clLatest, key, applied, reach>>

\* ChooseEndpoint succeeds for these: an endpoint of theirs answers the ping.
Answering(c) == Others(nc[c], c[2]) \cap reach[c]

AccessibleKnown(c, accessible) == Mine(c).Accessible = accessible

\* chooseEndpoints, and then patchAccessible: a client that can forward offers
\* every device it has chosen a way to.
PatchAccessible(c, out) ==
  /\ pc[c] = "accessible"
  /\ \E w \in Ways(nc[c], c[2], Answering(c)) :
     \E accessible \in {IF c \in CanForward THEN DOMAIN w ELSE {}} :
     \E chosen \in {[way EXCEPT ![c] = w]} :
       IF AccessibleKnown(c, accessible)
       THEN Skip(c, out, chosen, "apply")
       ELSE PatchSpec(c, out, [attrs |-> <<>>,
                               AccessibleSet |-> TRUE, Accessible |-> accessible],
                      WithAccessible(c, accessible), chosen, "apply")
  /\ UNCHANGED <<clLatest, key, applied, reach>>

\* What ApplyMachine is given: CompileMachine's machine, and the private key.
Compiled(c) == [nc |-> nc[c], key |-> key[c], machine |-> CompileMachine(nc[c], c[2], way[c])]

\* Mutation of Apply: errors of the DNS server and of the applier are ignored.
ApplyAnyway(c, out) ==
  /\ pc[c] = "apply"
  /\ \/ /\ out = "ok"
        /\ applied' = [applied EXCEPT ![c] = Compiled(c)]
        /\ UNCHANGED faults
     \/ out \in {"dns", "apply"} /\ Fault(out) /\ UNCHANGED applied
  /\ Goto(c, "post")
  /\ UNCHANGED <<serverVars, clLatest, key, nc, way, reach, late>>

\* updateDNS, CompileMachine and ApplyMachine.  A failing DNS server stops the
\* client before it touches the machine; ApplyMachine can fail halfway.
Apply(c, out) ==
  /\ pc[c] = "apply"
  /\ \/ /\ out = "ok" /\ ~Compiled(c).machine.forwardsIPv6
        /\ applied' = [applied EXCEPT ![c] = Compiled(c)]
        /\ Goto(c, "post")
        /\ UNCHANGED <<nc, way, faults>>
     \/ out = "dns" /\ Fault("dns") /\ GiveUp(c) /\ UNCHANGED applied
     \/ /\ out = "apply" /\ Fault("apply") /\ GiveUp(c)
        /\ applied' = [applied EXCEPT ![c] = NotApplied]
  /\ UNCHANGED <<serverVars, clLatest, key, reach, late>>

\* A machine that forwards IPv6: ApplyMachine configures it and then panics.
ApplyPanics(c) ==
  /\ pc[c] = "apply" /\ Compiled(c).machine.forwardsIPv6
  /\ applied' = [applied EXCEPT ![c] = Compiled(c)]
  /\ Goto(c, "panicked")
  /\ UNCHANGED <<serverVars, clLatest, key, nc, way, reach, late, faults>>

\* postReifyStatus; Step keeps the answer in ContinousClient.latest.
Post(c, out) ==
  /\ pc[c] = "post"
  /\ \E q \in {[kind |-> "post", from |-> c, body |-> nc[c]]} :
       /\ Call(q, out)
       /\ clLatest' = [clLatest EXCEPT ![c] = IF Succeeds(q, out) THEN Current(q) ELSE @]
  /\ GiveUp(c)
  /\ UNCHANGED <<key, applied, reach>>

Outcome == {"ok", "lost", "noreply", "delayed", "apply", "dns"}

Step(c, out) ==
  \/ out = "ok" /\ (GetLatest(c) \/ GetSpec(c) \/ Panic(c) \/ ApplyPanics(c))
  \/ UpdateMyKeys(c, out)
  \/ PatchAccessible(c, out)
  \/ Apply(c, out)
  \/ Post(c, out)

-----------------------------------------------------------------------------
(* What happens to the processes *)

\* The client process starts again.  Without a key in its configuration it
\* will generate another one at its first updateMyKeys.  The configuration of
\* the machine survives, except through a reboot.
Restarted(c) ==
  /\ c \notin KeyFile => key[c] < MaxKeys
  /\ key' = [key EXCEPT ![c] = IF c \in KeyFile THEN @ ELSE @ + 1]
  /\ clLatest' = [clLatest EXCEPT ![c] = FALSE]
  /\ GiveUp(c)
  /\ UNCHANGED <<serverVars, reach, late>>

Crash(c) == Fault("crash") /\ Restarted(c) /\ UNCHANGED applied

Reboot(c) ==
  /\ Fault("reboot") /\ Restarted(c)
  /\ applied' = [applied EXCEPT ![c] = NotApplied]

\* The requests the server held die with it.
RestartServer(config) ==
  /\ Fault("restart")
  /\ Server!Restart(config)
  /\ late' = {}
  /\ UNCHANGED <<clientVars, reach>>

\* The endpoint of device e starts or stops answering c.
Reach(c, e) ==
  /\ Fault("reach")
  /\ reach' = [reach EXCEPT ![c] = IF e \in @ THEN @ \ {e} ELSE @ \cup {e}]
  /\ UNCHANGED <<serverVars, clientVars, late>>

-----------------------------------------------------------------------------

Start ==
  /\ Server!Init
  /\ pc = [c \in Client |-> "idle"]
  /\ clLatest = [c \in Client |-> FALSE]
  /\ key = [c \in Client |-> 1]
  /\ nc = [c \in Client |-> NoReport]
  /\ way = [c \in Client |-> <<>>]
  /\ applied = [c \in Client |-> NotApplied]
  /\ late = {}
  /\ faults = 0

Init == Start /\ reach \in [Client -> SUBSET DeviceName]

Next ==
  \/ \E c \in Client, out \in Outcome : Step(c, out)
  \/ \E q \in late : HandleLate(q)
  \/ \E c \in Client : Crash(c) \/ Reboot(c)
  \/ \E config \in Configs : RestartServer(config)
  \/ \E c \in Client : \E e \in DeviceName \ {c[2]} : Reach(c, e)

\* createGoroutines runs every client in a goroutine that never stops calling
\* Step, whatever Step returns; calls are answered unless a fault hits them.
Fairness == \A c \in Client : WF_vars(Step(c, "ok"))

Spec == Init /\ [][Next]_vars

FairSpec == Spec /\ Fairness
-----------------------------------------------------------------------------
(* Properties *)

ListedClients == Client \cap Server!Listed

\* "returns whether the device has applied the latest spec" (coord/api.md):
\* the machine of a client on the list was last configured, and from what the
\* server would show the client now.
LatestHasApplied ==
  \A c \in ListedClients :
    /\ applied[c] # NotApplied
    /\ NetworkCensoredEqual(applied[c].nc, Server!ViewOf(c))

\* What reifying is for: of two clients on the list of which the first sees the
\* second, the first has configured the public key that belongs to the private
\* key of the second's interface, whatever restarts replaced the keys.
KeysMatch ==
  \A c, e \in ListedClients :
    e[1] = c[1] /\ e[2] \in DOMAIN applied[c].nc.Devices =>
      applied[c].nc.Devices[e[2]].attrs["PublicKey"] = PublicKey(e, applied[e].key)

\* CompileMachine routes through whoever offers to forward without looking at
\* its key: a device that offers has published one (updateMyKeys comes before
\* patchAccessible, and a failing updateMyKeys ends ReifySpec).
KeyBeforeForwarding ==
  \A n \in DOMAIN spec : \A d \in DOMAIN spec[n] :
    spec[n][d].Accessible # {} => spec[n][d].attrs["PublicKey"] # NoKey

\* The machine of forwarder f, once the server counts it as latest, does
\* forward to e, and by itself.
ForwardsTo(f, e) ==
  f \in ListedClients =>
    /\ applied[f].nc.Devices[e].attrs["Addresses"] \in IPv4 => applied[f].machine.forwardsIPv4
    /\ Hops(applied[f].machine, e) = {e}

\* The forwarders that client i had a direct way to and that offered e to it.
Offered(i, e) ==
  {f \in reach[i] \cap DOMAIN applied[i].nc.Devices :
     e \in applied[i].nc.Devices[f].Accessible}

\* The choices of chooseEndpoints, kept as indices into the list of devices,
\* survive CompileMachine: what a client on the list sends to a device with a
\* key leaves through exactly one peer, which is the device itself unless it
\* does not answer and a forwarder offered it, and otherwise a forwarder whose
\* own machine, made elsewhere and from another view, takes it there.
Delivers ==
  \A i \in ListedClients : \A e \in Others(applied[i].nc, i[2]) :
    applied[i].nc.Devices[e].attrs["PublicKey"] # NoKey =>
      \E p \in Others(applied[i].nc, i[2]) :
        /\ Hops(applied[i].machine, e) = {p}
        /\ IF p = e THEN e \in reach[i] \/ Offered(i, e) = {}
           ELSE e \notin reach[i] /\ ForwardsTo(<<i[1], p>>, e)

\* "This can be set by this peer" (spec.go): while the server runs, what it
\* knows of a device changes only by a request of the client of that device,
\* made now or given up on before.  All but Accessible, which any patch clears
\* for every device.
OwnDeviceOnly ==
  [][\A i \in Identity :
       \/ ~Known(spec, i[1], i[2])
       \/ /\ Known(spec', i[1], i[2])
          /\ [spec'[i[1]][i[2]] EXCEPT !.Accessible = {}]
               = [spec[i[1]][i[2]] EXCEPT !.Accessible = {}]
       \/ i \in Client /\ pc'[i] # pc[i]
       \/ \E q \in late \ late' : q.from = i
       \/ \E config \in Configs : RestartServer(config)]_vars

\* A device the client reports and the one the server shows: the same, or the
\* same but for the offers, which the server has dropped.
CopiedDevice(x, y) == y \in {x, [x EXCEPT !.Accessible = {}]}

\* The report x is what the server shows, y, or lags behind it in that only.
Lags(x, y) ==
  /\ DOMAIN x.Devices = DOMAIN y.Devices
  /\ \A e \in DOMAIN x.Devices : CopiedDevice(x.Devices[e], y.Devices[e])

\* ReifySpec repeats in nc what its own patches do to the spec.  It repeats the
\* key and the offers, exactly; it does not repeat that patchReifySpec, by
\* Clone, drops the offers of all devices.  So a report that was current is
\* still so after the client's own patch if nobody offered anything; if somebody
\* did, it may be refused for the client's own doing, by those offers alone.
OwnPatchesMirrored ==
  [][\A c \in Client :
       /\ <<pc[c], pc'[c]>> \in {<<"keys", "accessible">>, <<"accessible", "apply">>}
       /\ Known(spec, c[1], c[2])
       /\ Lags(nc[c], Server!ViewOf(c))
       => /\ Lags(nc'[c], Server!ViewOf(c)')
          /\ pc'[c] = "apply" /\ nc'[c] # nc[c] =>
               nc'[c].Devices[c[2]] = Server!ViewOf(c)'.Devices[c[2]]]_vars

\* The access control of spec s hides the device of client c from itself.
Hides(s, c) ==
  Known(s, c[1], c[2]) /\ ~s[c[1]][c[2]].AccessAll /\ c[2] \notin s[c[1]][c[2]].AccessOnly

\* Whatever fails, a client panics for one of two causes: its machine would forward
\* IPv6, which ApplyMachine finds out after it configured all the rest, or the
\* view it was shown lacks its own device, which updateMyKeys calls unreachable:
\* no patch of anybody brings that about, only the configuration of the server.
\* And a client that must panic so is not on the list that others go by, not even
\* through a report from before.
PanicsForCause ==
  \A c \in Client :
    /\ pc[c] = "panicked" =>
         IF SeesItself(c) THEN applied[c] = Compiled(c) /\ applied[c].machine.forwardsIPv6
                          ELSE \E config \in Configs : Hides(config, c)
    /\ Hides(spec, c) => c \notin Server!Listed

\* The design's third step, "CS waits for all goals to be implemented": once
\* faults stop, every client comes to be latest and stays so.
Converges == <>[](\A c \in Client : clLatest[c] /\ c \in Server!Listed)
=============================================================================
