----------------------------- MODULE CoordServer -----------------------------
(***************************************************************************)
(* The coordination server (package coord): it keeps the spec of every     *)
(* network and remembers which devices have accepted applying what they    *)
(* are shown of it now.                                                    *)
(*                                                                         *)
(* Every handler that changes something holds specLock for writing from    *)
(* before its first look at the spec until it returns, so a handler is one *)
(* action here.  The two GET handlers change nothing: they appear as the   *)
(* operators that give their answers.  A request that is refused (401, 404 *)
(* or 400) leaves the state alone, so its guard is simply false.           *)
(***************************************************************************)
EXTENDS NetworkSpec

CONSTANTS
  Token,        \* the credentials clients present
  Identities,   \* TokenInfo: the identities each token may act as
  Configs,      \* the specs an operator may put in the configuration file
  NoReport,     \* no report of a device was accepted yet
  MaxMarks      \* bound: copies of a name in a list of latest told apart

ASSUME ServerAssumption ==
  /\ Identities \in [Token -> SUBSET Identity]
  /\ \A config \in Configs : IsSpec(config)
  /\ NoReport \notin NetworkCensored
  /\ MaxMarks \in Nat \ {0}

VARIABLES
  spec,         \* Server.spec
  latest,       \* Server.latest: copies of each device in each network's list
  accepted,     \* history: the report that put a device on its list, while
                \* the device is on it
  boot          \* history: changes when the server is started again

vars == <<spec, latest, accepted, boot>>

NoMarks == [d \in DeviceName |-> 0]

TypeOK ==
  /\ IsSpec(spec)
  /\ latest \in [NetworkName -> [DeviceName -> 0 .. MaxMarks]]
  /\ accepted \in [Identity -> NetworkCensored \cup {NoReport}]
  /\ boot \in {0, 1}

-----------------------------------------------------------------------------
(* Requests and answers *)

PatchReifySpecRequest ==
  [attrs : UNION {[A -> Value] : A \in SUBSET Patchable},
   AccessibleSet : BOOLEAN, Accessible : SUBSET DeviceName]

VerifyIdentity(tok, n, d) == <<n, d>> \in Identities[tok]

\* The checks every handler makes first; failing them is a 401 or a 404.
Admitted(tok, n, d) == VerifyIdentity(tok, n, d) /\ Known(spec, n, d)

\* Mutation of GetReifyLatest: a network without a list is taken for latest.
GetReifyLatestByDefault(n, d) == latest[n] = NoMarks \/ latest[n][d] > 0

\* Mutation of GetReifySpec: the devices are sent with their access control.
GetReifySpecUncensored(n, d) == [Name |-> n, CensoredFor |-> d, Devices |-> spec[n]]

\* The answer of getReifyLatest and of getReifySpec.
GetReifyLatest(n, d) == latest[n][d] > 0

GetReifySpec(n, d) == CensorForDevice(spec, n, d)

-----------------------------------------------------------------------------
(* Replacing the spec *)

\* sliceUnion of a duplicate-free list and a list: what is in both, once.
SliceUnion(keep, marks) ==
  [d \in DeviceName |-> IF d \in keep /\ marks[d] > 0 THEN 1 ELSE 0]

\* Mutation of Keep: every device that is still in the network keeps its mark.
KeepKnown(newSpec, n) == DOMAIN spec[n] \cap DOMAIN newSpec[n]

\* Mutation of Keep: the whole network is compared, not what the device sees.
KeepUnlessNetworkChanged(newSpec, n) ==
  {d \in DOMAIN newSpec[n] : newSpec[n] = spec[n]}

\* The devices of network n whose censored view newSpec leaves as it is.
Keep(newSpec, n) ==
  {d \in DOMAIN newSpec[n] :
     /\ d \in DOMAIN spec[n]
     /\ NetworkCensoredEqual(CensorForDevice(spec, n, d),
                             CensorForDevice(newSpec, n, d))}

\* The lists after newSpec has come: the networks it leaves out lose theirs.
Kept(newSpec) ==
  [n \in NetworkName |->
     CASE n \in DOMAIN spec \ DOMAIN newSpec -> NoMarks
       [] n \in DOMAIN spec \cap DOMAIN newSpec ->
            SliceUnion(Keep(newSpec, n), latest[n])
       [] OTHER -> latest[n]]

\* History: what stays accepted is what stays listed.
StillAccepted == [id \in Identity |->
                    IF latest'[id[1]][id[2]] > 0 THEN accepted[id] ELSE NoReport]

\* Mutation of UpdateSpecNoLock: the list of a removed network stays.
UpdateSpecNoLockKeepsRemoved(newSpec) ==
  /\ latest' = [n \in NetworkName |->
                  IF n \in DOMAIN spec \cap DOMAIN newSpec
                  THEN SliceUnion(Keep(newSpec, n), latest[n]) ELSE latest[n]]
  /\ spec' = newSpec
  /\ accepted' = StillAccepted
  /\ UNCHANGED boot

UpdateSpecNoLock(newSpec) ==
  /\ latest' = Kept(newSpec)
  /\ spec' = newSpec
  /\ accepted' = StillAccepted
  /\ UNCHANGED boot

-----------------------------------------------------------------------------
(* Handlers *)

\* Accessible may only name devices of the network (otherwise 400).
PatchValid(n, req) == req.AccessibleSet => req.Accessible \subseteq DOMAIN spec[n]

\* Mutation of Patched: the fields that the request leaves out are lost.
PatchedOver(n, d, req) ==
  [Clone(spec) EXCEPT ![n][d].attrs = req.attrs, ![n][d].Accessible = req.Accessible]

Patched(n, d, req) ==
  [Clone(spec) EXCEPT
     ![n][d].attrs = [a \in Attribute |->
                        IF a \in DOMAIN req.attrs THEN req.attrs[a] ELSE @[a]],
     ![n][d].Accessible = IF req.AccessibleSet THEN req.Accessible ELSE @]

PatchReifySpec(tok, n, d, req) ==
  /\ Admitted(tok, n, d)
  /\ PatchValid(n, req)
  /\ \E newSpec \in {Patched(n, d, req)} : UpdateSpecNoLock(newSpec)

\* A report that does not equal the current view is answered Latest = FALSE
\* and changes nothing.  After a body that fails to decode the handler goes on
\* with what was decoded of the report: to the state that is a report like any
\* other, and what it is answered is for CoordHandlers.
ReportIsCurrent(n, d, rep) == NetworkCensoredEqual(rep, CensorForDevice(spec, n, d))

PostReifyStatus(tok, n, d, rep) ==
  /\ Admitted(tok, n, d)
  /\ ReportIsCurrent(n, d, rep)
  /\ latest' = [latest EXCEPT ![n][d] = IF @ < MaxMarks THEN @ + 1 ELSE @]
  /\ accepted' = [accepted EXCEPT ![<<n, d>>] = rep]
  /\ UNCHANGED <<spec, boot>>

\* updateSpec, the locked entry that replaces the whole spec.  No handler calls
\* it yet: it is there for an operator interface, and modelled as one.
UpdateSpec(newSpec) == UpdateSpecNoLock(newSpec)

\* The process ends and is started again: nothing was persisted, the spec is
\* what the configuration file holds by then and nobody is known to be latest.
Restart(config) ==
  /\ spec' = config
  /\ latest' = [n \in NetworkName |-> NoMarks]
  /\ accepted' = [id \in Identity |-> NoReport]
  /\ boot' = 1 - boot

-----------------------------------------------------------------------------

Init ==
  /\ spec \in Configs
  /\ latest = [n \in NetworkName |-> NoMarks]
  /\ accepted = [id \in Identity |-> NoReport]
  /\ boot = 0

Next ==
  \/ \E tok \in Token, n \in NetworkName, d \in DeviceName,
        req \in PatchReifySpecRequest : PatchReifySpec(tok, n, d, req)
  \/ \E tok \in Token, n \in NetworkName, d \in DeviceName,
        rep \in NetworkCensored : PostReifyStatus(tok, n, d, rep)
  \/ \E newSpec \in Configs : UpdateSpec(newSpec)
  \/ \E config \in Configs : Restart(config)

Spec == Init /\ [][Next]_vars

-----------------------------------------------------------------------------
(* Properties *)

\* "latest lists which devices have applied the latest spec" (server.go): a
\* device listed for a network is a device of that network, and what it last
\* accepted is what the server would show it now, whatever was patched,
\* replaced or restarted since the report.
LatestIsCurrent ==
  \A n \in NetworkName, d \in DeviceName :
    latest[n][d] > 0 =>
      /\ Known(spec, n, d)
      /\ accepted[<<n, d>>] \in NetworkCensored
      /\ NetworkCensoredEqual(accepted[<<n, d>>], CensorForDevice(spec, n, d))

\* What a device can see of the spec now, and the names on the lists.
ViewOf(id) ==
  IF Known(spec, id[1], id[2]) THEN CensorForDevice(spec, id[1], id[2])
                               ELSE NoReport

Listed == {id \in Identity : latest[id[1]][id[2]] > 0}

\* The server keeps the promise of ReifyTracker: the lists of latest name the
\* devices whose last report still holds, all of them and no other.
Tracker == INSTANCE ReifyTracker
             WITH Gone <- NoReport, view <- [id \in Identity |-> ViewOf(id)],
                  marked <- Listed, told <- accepted, boot <- boot

TracksReports == Tracker!Spec
=============================================================================
