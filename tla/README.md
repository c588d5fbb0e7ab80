# A TLA+ model of Qrystal

Qrystal sets up WireGuard networks. A coordination server knows the spec of every
network; the machines of a network run a device client, which publishes its key,
asks for the spec it may see, configures WireGuard from it and reports what it
configured. This directory models that protocol and the parts around it. TLC checks
the modules on small instances; TLAPS proves, for instances of any size, every safety
property that a passing run checks of the server, its handlers, the clients that work
against it, the appliers of a machine, the DNS server and the slice merges, some under
hypotheses that section 4 names. Liveness is left to TLC alone. Four more runs show where
the code does not do what its documents, comments or assertions say.

## 1. The system

### Components

| component | state | operations | talks to |
|---|---|---|---|
| spec data (`spec/spec.go`) | none of its own | `Clone`, `CensorForDevice`, `Equal`, lookups, JSON | used by all |
| coordination server (`coord/`) | `spec`, `latest` (per network, the devices that applied what they see), `tokens`, two RW locks | `getReifyLatest`, `getReifySpec`, `patchReifySpec`, `postReifyStatus`, `updateSpec` | answers HTTP requests of the clients |
| device client (`device/`) | private key, last spec; `ContinousClient.latest` | `Step` (`getLatest` or `ReifySpec`: `getSpec`, `updateMyKeys`, `chooseEndpoints`, `patchAccessible`, `updateDNS`, apply, `postReifyStatus`) | calls the server, the DNS server, the applier |
| endpoint choice (`spec/resolve.go`) | none | `ChooseEndpoint` pings in parallel | called by the client |
| compilation (`spec/compile.go`) | none | `CompileMachine`: censored spec to `goal.Machine` | called by the client |
| applier (`goal/`) | `managedInterfaces`; the kernel's interfaces, addresses, routes, `ip_forward` | `ApplyMachine` | netlink, wgctrl, `/proc` |
| DNS server (`dns/`) | one `SpecCensored` behind a lock | `UpdateSpec`, `handleQuery` | updated directly or by RPC from all clients of the process |
| processes (`cmd/`) | configuration | start-up; a goroutine with an endless retry loop per client | |
| address assignment, backoff (`util/`) | | pure functions | called by nothing |
| tokens, logging, sd_notify, profiles, key generator, test programs | | I/O and encoding | |

The coordination server keeps everything in memory. Nothing but the configuration
files survives a restart of either process; what a client configured in the kernel
survives a restart of the client, and not a reboot.

### What is hard about it

* **Locks.** The server's handlers interleave between their locks: they read bodies
  under `specLock` and take `latestLock` inside it.
* **Interleaving.** Between a client's `getSpec` and its report come up to two
  patches of its own, a sweep of pings and the application of the spec. Any other
  client can patch meanwhile, and a patch of one device changes what others see.
* **No versions.** Views are told apart by equality alone. A report is right if it
  equals the view at that moment, whenever it was built.
* **Failure.** The HTTP client gives up after 5 seconds, but the server still
  handles the request. `ApplyMachine` stops at its first failing call.
* **Restart.** The server forgets all patches and lists; a client without a
  configured key makes a new one.
* **Sharing.** Clients of several networks on one machine share the kernel, its one
  `ip_forward`, and the one spec of the DNS server.
* **Convergence.** Nobody tells a client to stop: each reruns `ReifySpec` until the
  server takes its report, and each patch can undo somebody else's standing.

### What makes each part correct

* Server: whoever is listed in `latest` has reported what the server shows it now;
  a change of the spec unlists exactly those that see something else.
* Client and server together: a listed device really has configured that; peers'
  keys agree; a client changes nothing but its own device; in the end all are listed.
* Applier: a run without error leaves the interface as asked, from any state an
  earlier run left behind; reruns get there; several appliers do not disturb each other.
* Handlers: however they interleave, each takes effect at one moment, answers what is
  so (an undecodable report aside), and gives its locks back.
* Forwarding: what a listed device sends to another leaves through exactly one peer,
  which takes it there.
* Slice merges: what they return for lists with copies, and that they end.
* DNS server: answers for what the clients applied, and under no second spelling.

## 2. The modules

| module | models | state |
|---|---|---|
| `NetworkSpec` | package `spec`: networks, devices, `Clone`, `CensorForDevice`, `Equal` | none |
| `CoordServer` | package `coord`, one action per handler, `UpdateSpec`, `Restart` | `spec`, `latest`, histories `accepted` and `boot` |
| `ReifyTracker` | abstract: what the server promises about `latest` | `view`, `marked`, `told`, `boot` |
| `CoordServer_proofs` | the theorems of `CoordServer` | |
| `RWMutex` | `sync.RWMutex` of the Go library, as far as the server relies on it | none |
| `CoordHandlers` | package `coord` again, one action per step of a handler between two locks: composes `CoordServer` (`Server == INSTANCE`) with `RWMutex` and any number of connections | the server's, `specLock`, `latestLock`, and per connection `pc`, `req`, `body`, `newSpec`, `reply` |
| `CoordHandlers_proofs` | that the handlers linearize, answer right and implement `CoordServer` | |
| `Forwarding` | `chooseEndpoints` and `CompileMachine`: who is reached how, and what that makes of the machine | none |
| `Reify` | package `device` against the server: composes `CoordServer` with `Forwarding`, any number of clients, the network and failures | the server's, and per client `pc`, `clLatest`, `key`, `nc`, `way`, `applied`, `reach`; `late`, `faults` |
| `DeviceMachine` | the appliers of one machine: package `goal`, one action per kernel call | `link`, `peers`, `addrs`, `routes`, `ipForward`, `pc`, `goal`, `tasks`, `faults` |
| `DnsServer` | package `dns`, its configuration, queries and the clients that feed it, in one process or two | `parents`, `self`, `spec`, `connected`, `shown`, `pc`, `sent`, `faults`, `changes` |
| `SliceMerge` | the loops of `sliceUnion`, `setDifference`, `setIntersection`, one action per iteration | `alg`, `given`, `a`, `b`, `i`, `j`, `result`, `pc` |
| `Reify_proofs` | what clients and server achieve together, for any number of clients | |
| `ReifyForwarding_proofs` | why a client panics, what its report has of the spec, what it offers to forward, and that packets arrive | |
| `DeviceMachine_proofs` | that an applier that ends without an error has applied its goal | |
| `DnsServer_proofs` | which names are answered, and what they resolve to | |
| `SliceMerge_proofs` | what those loops return, copy by copy, and that they stay in bounds | |
| `MCCoordServer`, `MCCoordHandlers`, `MCReify`, `MCDeviceMachine`, `MCDnsServer`, `MCSliceMerge` | finite instances | |

How the code maps to them:

* **Spec data.** A list of named records is a function from names: names are unique
  and no operation reorders. A device has the fields `Equal` compares: scalar ones in
  `attrs`, and `Accessible`. `CloneDevice` empties `Accessible`, because
  `NetworkDeviceCensored.Clone` does not copy it. The fields that JSON never carries
  (the chosen endpoint and forwarder) are not part of a spec here.
* **Server.** `patchReifySpec` and `postReifyStatus` hold `specLock` for writing from
  before their first look at the spec until they return, so each is one action, with
  the `updateSpecNoLock` it ends in. The two GET handlers change nothing and are
  operators. `latest` is a list in the code: here the number of copies of each name,
  up to `MaxMarks`, since an accepted report appends without looking. `sliceUnion`
  keeps the names in both lists, once. A body that fails to decode is answered 400,
  but `postReifyStatus` then goes on with what was decoded (a `return` is missing at
  `server.go:264`): to the state this is a report like any other, and its answer is modelled
  in `CoordHandlers`.
* **Handlers.** All five (`updateSpec` is a request like the others) run through one
  course, `ask`, `check`, `body`, `latest`, `write`, `replace`, `reply`, and leave out
  what they do not do. `AskSpecLock` and `AskLatestLock` call `Lock` or `RLock`; the
  next step waits until that returns. A waiting writer keeps new readers out, and
  `Unlock` lets in those that it kept out. `BadBody` and `ReadPatch` split
  `patchReifySpec` at its error returns. `ReadPost` has none: if the body cannot be decoded,
  it writes its 400 into `reply` and goes on, perhaps through `AppendLatest`; as `net/http`
  keeps the status that was written first, the client is answered 400 (`Sent`). Between
  `UpdateLatest` and `ReplaceSpec` the lists are those of the new spec and `s.spec` is
  still the old one: `SpecSeen` is the spec that counts then.
* **Forwarding.** A way of a device maps each device it has chosen to the one it sends
  through, itself if an endpoint answers. `Ways` follows `chooseEndpoints`: first the
  answering devices, then, in list order, those that a device chosen before offers in
  `Accessible`, a random one of them. `CompileMachine` makes peers of the devices with a
  key that are not forwarded, and puts the addresses of forwarded ones into the
  `AllowedIPs` of their forwarder. A set of addresses is the set of devices they belong to.
  The machine forwards IPv4, IPv6 or both, by the addresses of the devices it offers
  (`ForwardsFamily`): `IPv4` and `IPv6` say which values of `Addresses` hold one of either.
* **Client.** A step goes up to and through the next call. A patch or a post can end
  in four ways (`Call`): answered; lost before the server; handled, with its answer
  lost; or given up on while the server still holds it (`late`), to be handled at any
  later time, even after the client crashed. `GiveUp` is the error return of
  `ReifySpec`, which also ends the client's copy `nc` of the spec. `Apply` is
  `updateDNS` with `ApplyMachine`: each can fail, the first before the machine is
  touched, the second leaving it in an unknown state (`NotApplied`). A client can panic at
  two places: where it does not see its own device (`Panic`), and at the end of
  `ApplyMachine` if the machine forwards IPv6 (`ApplyPanics`). Only `DeviceMachine` shows
  that this takes the other clients of the process with it; each client of `Reify` is on a
  machine of its own.
  `reach` says whose endpoint answers a client's ping; `way` is what the client made
  of that, and `Compiled` the machine that its spec and way compile to.
* **Machine.** `SetTasks` makes the list of `addressTask`s, removals first. `AddressTask`
  and `RouteTask` do one each, and fail on an address or prefix that is there, as the
  kernel does. `ListAddresses` also sorts the goal's addresses in place. `Ends` is the end of
  `ApplyMachine`, after `ip_forward` was read and, if need be, written: it returns, or, for a
  machine that forwards IPv6, panics (`apply_linux.go:130`), which leaves every client of the
  process `dead`.
* **Slice merges.** `Sort` sorts both arguments; then one step is one iteration of the
  innermost loop. The two loops that merge are the same code twice, so they share
  `TakeEqual`, `SkipA`, `SkipB`; `PassB` and `NextA` are the inner and the outer loop of
  `setDifference`.
* **DNS server.** A name is a sequence of pieces and dots; pieces side by side make one
  label, because `strings.HasSuffix` does not care where labels begin. `HandleQuery`
  asks the first parent whose suffix matches. `SplitDots`, `strings.Split` at dots, is what
  stands between neighbouring `Cuts`. `NewServerAccepts` is the check of the
  configuration, which does not look at that order. Only questions for A records are
  looked up, so an AAAA record only ever answers one for A. `connected` is the one RPC
  connection that `main` dials: a restart of `device-dns` ends it, and nothing but a
  restart of the clients dials again. `OwnDevice` is in every view: without it the client
  would have panicked before `updateDNS`.

## 3. The runs

The longest passing run, `reify_forwarders`, takes about three and a half minutes,
`reify_faults` about two, the others seconds up to a minute and a half.

| run | instance | checks |
|---|---|---|
| `coord` | 2 networks, 2 devices, 5 configurations, 2 keys, 2 tokens, `MaxMarks` 2 | `TypeOK`, `LatestIsCurrent`, `TracksReports` |
| `handlers` | 3 connections: 2 with all requests of one device and `updateSpec`, 1 that reads, also with the token of another device; 2 configurations, restarts | `TypeOK`, `AnswerIsRight`, `ListedIsCurrent`, `Linearizes`, `EveryRequestAnswered` |
| `reify_faults` | 2 clients, one forwards, 3 configurations: all see all, `b` is removed, `b` has an IPv6 address and is hidden from itself; 2 faults out of lost, noreply, crash, dns, restart with any of the configurations, reach; 2 keys each | `TypeOK`, `LatestHasApplied`, `KeysMatch`, `OwnDeviceOnly`, `OwnPatchesMirrored`, `PanicsForCause` |
| `reify_forwarders` | 3 clients, 2 forward, all see all or one sees a part, 2 maps of who reaches whom, no faults | `LatestHasApplied`, `KeyBeforeForwarding`, `Delivers` |
| `reify_recovers` | 2 clients, one forwards, 2 faults out of lost, noreply, delayed, dns, apply, crash, reboot, restart | `Converges` |
| `machine_two` | 2 networks on one machine, goals of 3 forms each, one of which forwards IPv6, 2 failing calls or restarts | `TypeOK`, `AppliedIsGoal`, `ForwardAgreed`, `RerunReaches` |
| `dns` | 1 network, 3 views, 6 accepted lists of parents, 2 faults, 2 changes, all names of up to 5 pieces and dots | `TypeOK`, `ResolvesApplied`, `OnlyOwnNames`, `Settles` |
| `slices` | all pairs of lists of up to 3 of 3 elements, with copies | `TypeOK`, `ReturnsRightCopies`, `Terminates` |

What they show:

* `coord`: for any order of requests, `latest` names the devices whose last
  accepted report still equals their view, all of them and no other
  (`TracksReports` is the refinement of `ReifyTracker`).
* `handlers`: the steps of the handlers amount to the single actions of `CoordServer`,
  which everything else builds on (`Linearizes`): no patch is lost under another, no
  report is accepted against a spec that has gone. Every answer that is not an error is
  right while it is written (`AnswerIsRight`; what an error is worth is in section 5);
  whoever is listed has reported what it sees now, except while a handler is between the
  new lists and the new spec (`ListedIsCurrent`); and nobody waits for a lock for ever
  (`EveryRequestAnswered`).
* `reify_faults`, `reify_forwarders`: being listed means that the machine was
  configured from that very view (`LatestHasApplied`); of two listed devices that
  see each other, each uses the other's public key (`KeysMatch`), although keys are
  replaced at restarts; a device's part of the spec changes only by its own client
  (`OwnDeviceOnly`), but for `Accessible`, which any patch clears. The client's copy keeps up
  with its own patches, except that it keeps the offers that `Clone` drops at the server
  (`OwnPatchesMirrored`): these alone can make a report stale by the client's own doing;
  nobody offers to forward before it has a key in the spec (`KeyBeforeForwarding`),
  which `CompileMachine` relies on when it gives a forwarder's addresses to a peer;
  and what a listed client sends to a device it has a way to leaves through exactly one
  peer that takes it there, in the end (`Delivers`). `KeyBeforeForwarding` is checked
  where no fault happens, and proved with all but server restarts (section 4): a restart
  between a client's key patch and its Accessible patch forgets the key and takes the list.
  `Delivers` is checked where `reach` does not change: if a device stops answering two
  forwarders, what they offered while it did is stale, and each may route to it through
  the other.
* `reify_recovers`: after any two faults everybody comes to be latest, and stays. A fault
  of the DNS server is one failing call here; a client whose DNS server stays away stays
  behind.
* `reify_faults` also says why a client panics (`PanicsForCause`): because its machine would
  forward IPv6, which it finds out at the end of `ApplyMachine`, or because it was not shown
  its own device. The second is brought about by a configuration only, never by a patch, and
  a client whose device a restart hides is on no list, not even through a report from before.
* `machine_two`: the comment on `ApplyMachine` is right about reruns, for goals that
  change between runs, prefixes that two peers claim, and appliers that interleave;
  `ip_forward` is what the networks ask for when they agree (`ForwardAgreed`). Reruns do not
  get past the panic of a machine that forwards IPv6: then all clients of the process are
  dead, and `RerunReaches` says that this is the only other end.
* `dns`: a client that is latest has its devices resolved as it applied them; no other
  spelling resolves; the server catches up with every change, unless it is a process
  of its own and the connection to it is gone.
* `slices`: `sliceUnion` and `setIntersection` return what is in both, as often as
  the list with fewer copies has it; `setDifference` every copy of what only the first
  has. That is what `updateSpecNoLock` and the appliers need, and for `sliceUnion` not what
  its name and its comment (`update.go:52`) say.

### Where code and documents disagree

Each of these runs checks one property, which a document, comment or assertion of the
repository states, and TLC finds a behaviour of the code that violates it.

| run | property | what happens |
|---|---|---|
| `reify_two_forwarders` | `Converges` | Two clients with `CanForward`: `Clone` drops every `Accessible`, so each patch of one resets the list of the other, which takes both off `latest`, for ever and without any fault (`spec.go:253`; `next2goal.md:11`). |
| `reify_delayed` | `LatestHasApplied` | A report given up on after 5 seconds is handled when the view has come back to what it was, while the machine was configured from what lay between (`server.go:271`; `coord/api.md:18`). |
| `dns_two` | `ResolvesApplied` | `UpdateSpec` replaces the whole spec by one of a single network: the other networks are not answered for (`dns/rpc.go:19`; `modules.nix:118`). |
| `machine_unsorted` | `ReportsWhatItGot` | `setDifference` sorts `iface.Addresses` in place, which the report shares; `Equal` compares in order, so the device is never latest (`goal/util.go:108`; `coord/api.md:40`). |

### Bounds

* Two devices are enough for one client to disturb another; the third, in
  `reify_forwarders`, is reached through a forwarder, or is one of the two that see
  each other only through the third.
* One attribute, `PublicKey`, and in `Reify` the `Addresses`, which decide what a machine
  forwards: the other patchable fields are treated alike by `Clone`, `Equal` and the patch,
  and no client sets them.
* `MaxMarks` 2 tells one copy of a name from several; `sliceUnion` makes one of both.
  With `MaxMarks` 1 appending a second copy is invisible, and nothing that is checked
  there counts copies.
* `MaxKeys` bounds how often a client without a key file restarts; 2 are a key and
  its replacement.
* `MaxFaults` 2: a fault and one during the recovery from it. A delayed request is
  one fault, its late handling is not counted.
* `reach` starts anywhere in runs over `Spec`; runs over `SpecHub` take the two maps
  of `MCReaches`: `b` and `c` out of each other's reach, or `c` out of that of `a`.
* `DeviceMachine`: five prefixes, enough for one to stay, one to go and one to come
  on each of addresses and routes. The two networks own disjoint prefixes. The proofs are
  for any finite set of prefixes, any networks and goals, which may share prefixes.
* `CoordHandlers`: three connections, which is a writer inside, a writer waiting and a
  reader kept out. The proof is for any number.
* `DnsServer`: names of up to five pieces and dots, which reach a device, a network and a
  suffix of one label, with a label too many as well. Under the suffix of two labels the
  full names are longer; `ResolvesApplied` asks for those by themselves. The theorems are
  for any pieces, names of any length and any parents that `NewServer` accepts.
  One network in `dns`, as the server holds one at a time; `dns_two` has the second.
* `SliceMerge`: lists of three elements have copies at their beginning, middle and end;
  both properties are proved for lists of any length.

### Fairness

* `Reify`: `WF_vars(Step(c, "ok"))` for every client. `createGoroutines` starts a
  goroutine per client which never stops calling `Step`, whatever it returns, with a
  sleep of a second or until the next tick; a call that no fault hits is answered,
  since the server waits for nobody. Fault actions have no fairness. Late requests
  have none either: they may never be handled.
* `DeviceMachine`: `WF_vars(ClientStep(n))`, and `DnsServer`:
  `WF_vars(UpdateDNS(n) \/ Applied(n))`, for the same reason.
* `CoordHandlers`: `SF_vars(Handle(s))` for every connection. A body arrives or its
  connection breaks, goroutines are scheduled, and a writer that queues behind others
  gets its turn, since `sync.Mutex` hands itself over to whoever waited for long. (For
  every step but the wait for a lock that others come and go with, this is no more than
  weak fairness.)
* `SliceMerge`: `WF_vars(Next)`; a loop runs on.
* `dns`, `slices`, `machine_two` and `reify_faults` are run with `CHECK_DEADLOCK FALSE`: a
  loop ends, a DNS server that nothing changes any more is at rest, and where every client
  of an instance has panicked nothing is left to happen.
* A panicked client process stays dead, unless a fault starts it again: the service files
  have no `Restart=`.

## 4. The proofs

Every theorem is for any sets of networks, devices, attributes, values, tokens and
configurations. The assumptions on them are those of the modules: keys exist
(`AttributeAssumption`), configurations are specs (`ServerAssumption`), clients are
identities with a token and a supply of keys (`ClientAssumption`), lists of devices are
lists, and addresses are of IPv4, IPv6 or neither (`ForwardingAssumption`), requests are well formed (`HandlersAssumption`), elements are
ordered as numbers are (`SliceAssumption`), and so are prefixes, of which there are finitely
many (`MachineAssumption`); the dot is none of the pieces of a name, and names of networks
and devices are pieces, and each client's own device is in every view (`DnsAssumption`). The remaining parts of the assumptions keep the
placeholder for "nothing" apart from what it stands in for.

There is a theorem for every property of a passing run that is not about liveness.

### The server: `CoordServer_proofs`

* `TypeCorrect`: `Spec => []TypeOK`;
* `LatestCorrect`: `Spec => []LatestIsCurrent`;
* `Refinement`: `Spec => TracksReports`, that `CoordServer` implements `ReifyTracker`.

The inductive invariant is `Inv == TypeOK /\ LatestIsCurrent`. `LatestIsCurrent` is
about the history variable `accepted`, without which "has reported what it sees now"
cannot be said in a state; the types are needed with it, because equality of views is
only equality for views of the right form (`EqualIsEquality`). The argument:

* `CensorType`, `PatchedType`: views and patched specs have their types.
* `UpdateKeeps`: after `updateSpecNoLock` a device is listed iff it was listed, is in
  both specs and sees the same in both. This is the heart of it: `PatchInv` and
  `UpdateInv` follow, and so does `UpdateIsChange`, that the step is a `Change` of
  the tracker.
* `boot` is a history bit that changes at every restart. With it the tracker allows
  marks to be forgotten without reason only there: a patch that drops a device whose
  view it leaves alone is no step of `ReifyTracker`.
* `PostInv`, `PostIsReport`: a report is accepted only if it equals the view.
* `RestartInv`, `RestartIsForget`: a restart empties lists and history together.

### The handlers: `CoordHandlers_proofs`

`HandlersLinearize`: `Spec => Linearizes`, any number of connections. The invariant
is `Shapes` (types) and, for each connection, `Locks` (where a handler is in its course
it holds the locks that place asks for, and a writer of a lock is alone with it) and
`Knows` (what a handler found out under the lock is still so): the identity was verified
(`Verifies`), the device is in the spec (`Finds`), `newSpec` is the patched spec
(`HasPatched`), the report equals the view (`HasCompared`). A handler's step is then
either none of the server's state, or, at the one moment it takes effect, the action of
`CoordServer` for its request. Between `UpdateLatest` and `ReplaceSpec` the lists are
ahead of `s.spec`; `SpecSeen` is the refinement mapping, and the write lock is why nobody
sees the gap.

* `TypeCorrect`: `Spec => []TypeOK`. To be inductive it needs what a slot holds at each
  place (`SlotTypes`): no body before it is read, only one of its own request, an answer
  at `reply` and, before that, only the 400 of an undecoded report, and a `newSpec` that is a spec before it is stored.
* `AnswersAreRight`: `Spec => []AnswerIsRight`, about every answer but errors of a `PATCH` or
  `POST`: a 400 to a report is promised nothing, since the handler goes on after it. The
  answer is right when it is made, and `AnswerStays` while the handler holds `specLock`:
  who could change the spec or a list would have to hold it for writing.
* `HandlersImplementServer`: `Spec => Seen!Spec`. `Linearizes` is about steps; with the
  initial states this is the whole refinement of `CoordServer`, under the mapping
  `SpecSeen`.
* `ListsAreCurrent`: `Spec => []ListedIsCurrent`. Nothing of the server's invariant is
  proved again: `LatestIsCurrent` comes from `CoordServer_proofs` through the refinement.

### Clients and server: `Reify_proofs`

With every fault, in any number:

* `TypeCorrect`: `Spec => []TypeOK`;
* `OwnDevice`: `Spec => OwnDeviceOnly`: a device is described by its own client only;
* `ImplementsServer`: `Spec => Server!Spec`. What the clients do to the server is a
  behaviour of `CoordServer`, so that its theorems hold in the composition too.

The inductive invariant `Inv` adds to types and `LatestIsCurrent`, for each client: in
`ReifySpec` it holds a view (`HasView`), past `updateMyKeys` one with its own key in it
(`HasPublished`), and its machine was configured only from such a view
(`OwnKeyApplied`).

Two more are proved under the assumption `Tame`, that `Faults` holds neither `delayed`
nor `apply` nor `reboot`. Requests and answers are still lost, clients crash and make
new keys, the server restarts with another configuration, DNS fails, endpoints come and
go, patches of all clients interleave:

* `LatestApplied`: `Spec => []LatestHasApplied`;
* `KeysAgree`: `Spec => []KeysMatch`.

The first of the three faults is where the code breaks the property (`reify_delayed`).
The other two break it at once and for a time, by what the words mean: a machine that
loses its configuration, while its client is on the list, has not applied the spec
until the client has run again.

The invariant `TameInv` says that no request is late and, for each client, that its
machine holds what it last reported (`AppliedAccepted`) and, at the post, what it is
about to report (`ReportsApplied`). For `Apply`, which replaces what the machine holds
while the client may be listed, one more is needed: a listed client that works again
works on the very view that put it on the list (`WorksOnAccepted`). The reason is
`OwnPatchUnlists`: a patch of its own changes what it sees of itself, so it is listed
no more; anybody else's patch either leaves its view alone or unlists it; and what
`getSpec` shows to a listed client is what it reported (`ListedView`, from
`LatestIsCurrent`).

`Inv` and `TameInv` were checked with TLC on the instances of `reify_faults` and
`reify_recovers` before they were proved. The lemmas named `Same...` say that the server
inside `Reify` and the one `CoordServer_proofs` is instantiated with are the same.

### Panics, copies and forwarding: `ReifyForwarding_proofs`

* `PanicCauses`: `Spec => []PanicsForCause`, with every fault and no hypothesis.
  Configurations are arbitrary: devices may or may not see themselves, be of IPv4 or IPv6. The
  invariant (`HidingInv`) says that a device is hidden from itself only where a configuration
  hides it, since `Clone` and the patches keep `AccessAll` and `AccessOnly` (`ConfigsHide`);
  that what a client was not shown of itself was hidden (`Excused`), and that every report
  that counts or is on its way holds the device it is from (`ReportsNameThemselves`), since a
  client that does not see itself comes no further than `updateMyKeys`. A listed report is
  the view of now, so the device of a listed client is not hidden.
* `CopiesFollow`: `Spec => OwnPatchesMirrored`, with every fault and no hypothesis. The patch
  a client applies to its copy is the one the server applies, whoever else patched before,
  but for the offers, which `Clone` drops at the server. So a copy that is the server's view,
  or behind it in dropped offers only (`Lags`), stays so through the client's own patches,
  and what the client says of its own device after `patchAccessible` is what the server
  shows. That the report is then accepted does not follow, and is false where somebody offers.
* `OffersAreKeyed`: `Spec => []KeyBeforeForwarding`, if the server does not restart
  (`"restart" \notin Faults`) and the configurations satisfy it (`KeysFirst`). The server
  alone does not promise it; it takes two more facts (`KeyInv`): no request, late ones
  included, takes a key away or offers for a device without one (`Sound`), and a client
  between its two patches has its key at the server (`KeyedWork`).
* `PacketsDelivered`: `Spec => []Delivers`, under `Tame`, without `restart` and `reach`, and
  with configurations in which at most one device of a network offers (`OneOffers`) and
  has a key. What is applied was compiled from a choice of ways whose offer is in the very
  view (`WayChosen`, `WayApplied`); listed clients have applied what they see now, so the
  sender's view of the forwarder is the forwarder's own, and the forwarder's own machine
  takes the packet on. At most one device ever offers, since `Clone` clears what the others
  offer: that is why `OneOffers` stays, and why chains of forwarders do not form.

The hypotheses are where TLC draws the line. In the instance of `reify_forwarders`, one
`restart` or one `reach` is enough to violate `Delivers`; after a server restart a patch of
`Accessible` can reach a server that has forgotten the key.

### The machine: `DeviceMachine_proofs`

* `TypeCorrect`: `Spec => []TypeOK`;
* `AppliedGoal`: `Spec => []AppliedIsGoal`;
* `ForwardsAgree`: `Spec => []ForwardAgreed`.

Any number of clients, each call may fail, each run may stop anywhere and start again
with another goal. `Inv` says of each client how far its run is (`Underway`): that it has a
goal; after `ConfigureDevice`, the peers (`Configured`); that the tasks still to do lead
from the addresses there are to those of the goal (`Addressed`), and later from the routes
there are to its `AllowedIPs` (`Routed`). `Leads(have, q, want)` is that relation: what is
surplus is removed by `q`, what is missing is added, and nothing else is. `TasksLead` shows
it of the tasks that two calls of `setDifference` make, each task keeps it, and with no
tasks left it says that both are equal. What the step of another client leaves alone is
`Spared`: although all share one routing table, a client removes only the routes of its own
interface and adds only where there is none. `ForwardAgreed` holds because whoever is the last
to end has just read or written in `ip_forward` what it wants. A panic on IPv6 ends all of
them at once, and none is then `done`.

### The DNS server: `DnsServer_proofs`

* `TypeCorrect`: `Spec => []TypeOK`;
* `NoOtherNames`: `Spec => []OnlyOwnNames`, for every list of parents `NewServer` accepts;
* `ResolvesAlone`: `Spec => []ResolvesApplied`, on machines with one network (`dns_two`
  shows that two break it).

`NoOtherNames` is about the code's `strings.HasSuffix`, which compares without regard to
labels. `EndsIn` says what a suffix leaves of a name, `TwoLabels` that only `d.n` splits into
`d` and `n`, and `NamedIsOwn` that for an accepted parent the parts are those of a device
exactly if the name is one of the device's own. `ResolvesAlone` needs the invariant `Given`:
what a client has sent is what the server holds, until the server's process restarts; the
question then goes to the first parent that matches (`FirstMatches`), and
`OwnNameAnswered` shows the answer. Names are sequences of any
length here; `NameLength` only bounds those that `OnlyOwnNames` ranges over.

### The slice merges: `SliceMerge_proofs`

* `TypeCorrect`: `Spec => []TypeOK`, so the indices of the loops stay within the lists;
* `RightCopies`: `Spec => []ReturnsRightCopies`.

The invariant holds, next to types and sortedness, for `setDifference` that what was passed
of `b` is smaller than what is to come of `a` (`DifferenceInv`). `CopiesInv` counts the copies
up to an index (`Upto`): sorting leaves the numbers alone
(`SameCopies`), what was taken is in order and not above what is to come (`TakenInOrder`),
`setDifference` has kept every copy it passed and should keep (`Kept`), and the merging
loops have taken copies in pairs until one list had no more (`Paired`).

### Only model-checked

* Liveness, which the prover does not do: no fairness, no `ENABLED`. These are `Converges`
  of `Reify`, `RerunReaches` of `DeviceMachine`,
  `EveryRequestAnswered` of `CoordHandlers`, `Settles` of `DnsServer`, `Terminates` of
  `SliceMerge`.
* What a property does outside the hypotheses of its theorem: `LatestHasApplied` and
  `ResolvesApplied` are violated there by a run of section 3; of `PanicsForCause`, `Delivers`
  and `KeyBeforeForwarding` no run checks more than the theorems say.
* What the code violates: `ReportsWhatItGot` is no theorem.

## 5. What is left out

* **Time.** `MinimumInterval`, the one-second sleep and the five-second timeout only set
  the pace; every order they could produce is a behaviour.
* **The scores** among several endpoints of one device (`PingCommandScorer`): a device
  answers or does not.
* **The deletion of interfaces.** A client's applier manages one interface, so the
  code is never reached (it would index the interfaces with -1, `apply_linux.go:82`).
* **IPv6 forwarding.** `spec.go:200` says that it is not supported; the code panics for it
  (`apply_linux.go:129` to `:131`) instead of refusing it, after it has configured the rest.
  The models have the panic, and `PanicsForCause` and `RerunReaches` except it.
* **Views without the client's own device** in `DnsServer`: the client panics before it
  updates the DNS server (`PanicsForCause`).
* **A partly decoded report** is any report here: which prefix of a body `encoding/json`
  keeps is not modelled.
* **A permanent failure of the DNS server** is modelled in `DnsServer` (`connected`), where it
  stops every update; in `Reify` each failure is one call.
* **Circles and chains of forwarders.** `Delivers` is checked and proved where what answers
  does not change and at most one device of a network offers, and there they do not form.
* **The race on the address array** between the sort of `setDifference` and a DNS server
  in the same process.
* **Case and opcodes in DNS**: names are compared as they are; only standard queries are
  modelled.
* Tokens, JSON and other encodings, logging, profiles, sd_notify, tools: pure I/O or
  encoding. `Validate`, `AssignAddress` and `Backoff` are called by nothing.

Consequences of the code that the models have and no run pins down:

* A network without forwarding switches `ip_forward` off for the others of the machine
  (`apply_linux.go:116`).
* A device that is reached through a forwarder is published as accessible, though
  `server.go:162` says "accessible without forwarding".
* After a restart of `device-dns` the clients of a running `device-client` stay stuck
  (`main.go:110` dials once).
* The devices of `TUTORIAL.md:50` to `:69` have neither `AccessAll` nor `AccessOnly`, so that
  they do not see themselves and their clients panic at `client.go:198`, which calls that
  unreachable.
* A client's own key patch drops what others offer at the server and not in its copy, so that
  its report can be refused without anybody else doing anything; `cmd/test-device/main.go:50`
  panics on that ("posted but already not latest").
* A client that is latest pings nobody (`continuous.go:19`): what a forwarder offers stays as
  it was when it last ran `ReifySpec`.
* A report that could not be decoded is answered 400 and counted all the same if what was
  decoded equals the view (`server.go:264`; `Undecoded`, `ReadPost` and `AppendLatest` have it).

## 6. The plan

Done: `NetworkSpec`, `CoordServer` with `ReifyTracker`, `CoordHandlers` over `RWMutex`,
`Reify` over `CoordServer` and `Forwarding`, `DeviceMachine`, `DnsServer`, `SliceMerge`,
and a theorem for every safety property that a passing run checks of them.

Left, the most important first:

1. Weaker hypotheses: `LatestHasApplied` while `ApplyMachine` may fail, restated for what a
   client reported rather than for what its machine holds; `Delivers` with configurations
   in which several devices offer.
2. The DNS server and the clients in one module, to say what resolves while views change
   under several networks.
3. `createGoroutines` with its ticker, `Backoff`, `AssignAddress`: small, and the last two
   unused.
