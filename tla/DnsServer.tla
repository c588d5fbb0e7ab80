------------------------------ MODULE DnsServer ------------------------------
(***************************************************************************)
(* The DNS server (package dns): the spec it was last given, the clients   *)
(* of a machine that give it theirs before they apply them, and what it    *)
(* answers to a query.  It runs in the process of the clients (dns-self)   *)
(* or in one of its own, which the clients call over one RPC connection    *)
(* that they dial when they start.                                         *)
(*                                                                         *)
(* A name is a sequence of pieces and dots, without the final dot that     *)
(* handleQuery cuts off.  Pieces next to each other make one label:        *)
(* strings.HasSuffix does not care where labels begin.                     *)
(***************************************************************************)
EXTENDS Naturals, Sequences, SequencesExt

CONSTANTS
  Piece,        \* pieces of labels
  Dot,
  Network,      \* networks of this machine, one client each, named by a piece
  Device,       \* devices, named by a piece
  Address,      \* addresses (goal.IPNet)
  IsHost,       \* which of them are a /32 or /128
  ParentConfigs,  \* the lists of Parents an operator may configure
  OwnDevice,    \* which device each client is
  Views,        \* what the coordination server may show of each network
  None,         \* no network, no device, no spec
  NameLength,   \* bound: pieces and dots in a queried name
  MaxFaults,    \* bound: restarts of processes and failures to apply
  MaxChanges    \* bound: changes of what is shown

Parent == [Suffix : Seq(Piece \cup {Dot}), Network : Network \cup {None},
           Device : Device \cup {None}]

\* The devices of a network with their addresses.  A client that is not shown its
\* own device panics before it comes to updateDNS (Panic in Reify), so
\* the views are restricted to those in which it is.
IsView(v) == DOMAIN v \subseteq Device /\ v \in [DOMAIN v -> SUBSET Address]

ASSUME DnsAssumption ==
  /\ Dot \notin Piece
  /\ Network \cup Device \subseteq Piece
  /\ IsHost \subseteq Address
  /\ \A ps \in ParentConfigs : ps \in Seq(Parent)
  /\ \A n \in Network : /\ Views[n] # {}
                         /\ \A v \in Views[n] : IsView(v) /\ OwnDevice[n] \in DOMAIN v
  /\ None \notin Piece
  /\ \A n \in Network : \A v \in Views[n] : [m \in {n} |-> v] # None
  /\ NameLength \in Nat /\ MaxFaults \in Nat /\ MaxChanges \in Nat

VARIABLES
  parents,   \* Server.parents
  self,      \* the server runs in the process of the clients
  spec,      \* RPCServer.spec: networks with their devices, or None
  connected, \* the RPC connection of the clients stands
  shown,     \* what the coordination server shows of each network
  pc,        \* per client: about to update the server, applying, or latest
  sent,      \* what each client last gave to the server and applied
  faults, changes

vars == <<parents, self, spec, connected, shown, pc, sent, faults, changes>>

TypeOK ==
  /\ parents \in ParentConfigs /\ self \in BOOLEAN /\ connected \in BOOLEAN
  /\ spec = None \/ (DOMAIN spec \subseteq Network /\ \A n \in DOMAIN spec : IsView(spec[n]))
  /\ pc \in [Network -> {"idle", "apply", "latest"}]
  /\ DOMAIN shown = Network /\ DOMAIN sent = Network
  /\ \A n \in Network : shown[n] \in Views[n] /\ sent[n] \in Views[n] \cup {None}
  /\ faults \in 0 .. MaxFaults /\ changes \in 0 .. MaxChanges

-----------------------------------------------------------------------------
(* NewServer: the check of the configuration *)

ParentOK(p) ==
  /\ p.Suffix # <<>> /\ Last(p.Suffix) # Dot
  /\ (p.Network = None) = (p.Device = None)
  /\ (p.Network = None) = (Head(p.Suffix) = Dot)

NewServerAccepts(ps) ==
  /\ ps # <<>>
  /\ \A i \in DOMAIN ps : ParentOK(ps[i])
  /\ \A i, j \in DOMAIN ps : ps[i].Suffix = ps[j].Suffix => i = j

-----------------------------------------------------------------------------
(* Queries *)

\* Where the labels of a name begin and end: at the start, the dots and the end.
Cuts(name) == {0, Len(name) + 1} \cup {k \in DOMAIN name : name[k] = Dot}

\* The number in S that i others are smaller than.
Nth(S, i) == CHOOSE k \in S : Cardinality({c \in S : c < k}) = i

\* strings.Split at the dots.
SplitDots(name) ==
  LET cuts == Cuts(name)
  IN [i \in 1 .. Cardinality(cuts) - 1 |->
        SubSeq(name, Nth(cuts, i - 1) + 1, Nth(cuts, i) - 1)]

\* Mutation of Parts: the labels are taken in the order in which they are written.
PartsUnreversed(name, p) ==
  LET left == SubSeq(name, 1, Len(name) - Len(p.Suffix))
  IN (IF p.Network = None THEN <<>> ELSE <<<<p.Network>>>>)
       \o (IF p.Device = None THEN <<>> ELSE <<<<p.Device>>>>)
       \o (IF left = <<>> THEN <<>> ELSE SplitDots(left))

\* The network, the device, and whatever else there is, that name stands for
\* under parent p.
Parts(name, p) ==
  LET left == SubSeq(name, 1, Len(name) - Len(p.Suffix))
  IN (IF p.Network = None THEN <<>> ELSE <<<<p.Network>>>>)
       \o (IF p.Device = None THEN <<>> ELSE <<<<p.Device>>>>)
       \o (IF left = <<>> THEN <<>> ELSE Reverse(SplitDots(left)))

Reply(rcode, records) == [rcode |-> rcode, records |-> records]

\* returnAddresses: only whole addresses become records, A or AAAA.
ReturnAddresses(addresses) == Reply("NOERROR", addresses \cap IsHost)

\* Mutation of IsNamed: more labels than those of network and device do no harm.
IsNamedAtLeast(parts, n, d) == Len(parts) >= 2 /\ parts[1] = <<n>> /\ parts[2] = <<d>>

\* The parts are the name of network n and that of device d, and nothing more.
IsNamed(parts, n, d) == parts = <<<<n>>, <<d>>>>

HandleParent(name, p) ==
  LET found == {nd \in Network \X Device :
                  /\ IsNamed(Parts(name, p), nd[1], nd[2])
                  /\ nd[1] \in DOMAIN spec /\ nd[2] \in DOMAIN spec[nd[1]]}
  IN CASE spec = None -> Reply("SERVFAIL", {})
       [] spec # None /\ found = {} -> Reply("NXDOMAIN", {})
       [] OTHER -> LET nd == CHOOSE nd \in found : TRUE IN ReturnAddresses(spec[nd[1]][nd[2]])

\* The parents whose suffix the name ends in; the first of them is asked.
Matching(name) == {i \in DOMAIN parents : IsSuffix(parents[i].Suffix, name)}

First(name) == CHOOSE i \in Matching(name) : \A j \in Matching(name) : i <= j

\* handleQuery.  Only questions for A records are looked up.
HandleQuery(name, qtype) ==
  IF qtype # "A" \/ Matching(name) = {} THEN Reply("NOERROR", {})
                                         ELSE HandleParent(name, parents[First(name)])

-----------------------------------------------------------------------------
(* The clients and the processes *)

\* Mutation of UpdateDNS: the network itself is sent, in no spec.
UpdateDNSBare(n) ==
  /\ pc[n] # "apply" /\ (pc[n] = "latest" => sent[n] # shown[n])
  /\ connected
  /\ spec' = shown[n]
  /\ sent' = [sent EXCEPT ![n] = shown[n]]
  /\ pc' = [pc EXCEPT ![n] = "apply"]
  /\ UNCHANGED <<parents, self, connected, shown, faults, changes>>

\* Mutation of UpdateDNS: the DNS server is told only once.
UpdateDNSOnce(n) ==
  /\ pc[n] # "apply" /\ (pc[n] = "latest" => sent[n] # shown[n])
  /\ connected
  /\ spec' = IF sent[n] = None THEN [m \in {n} |-> shown[n]] ELSE spec
  /\ sent' = [sent EXCEPT ![n] = shown[n]]
  /\ pc' = [pc EXCEPT ![n] = "apply"]
  /\ UNCHANGED <<parents, self, connected, shown, faults, changes>>

\* updateDNS, in a ReifySpec that started because the client is not latest: the
\* spec of the server becomes that of this client, which is its one network.
\* When the connection is gone, ReifySpec fails here, before it applies.
UpdateDNS(n) ==
  /\ pc[n] # "apply" /\ (pc[n] = "latest" => sent[n] # shown[n])
  /\ connected
  /\ spec' = [m \in {n} |-> shown[n]]
  /\ sent' = [sent EXCEPT ![n] = shown[n]]
  /\ pc' = [pc EXCEPT ![n] = "apply"]
  /\ UNCHANGED <<parents, self, connected, shown, faults, changes>>

\* ApplyMachine and the accepted report.
Applied(n) ==
  /\ pc[n] = "apply"
  /\ pc' = [pc EXCEPT ![n] = "latest"]
  /\ UNCHANGED <<parents, self, spec, connected, shown, sent, faults, changes>>

ApplyFails(n) ==
  /\ pc[n] = "apply"
  /\ pc' = [pc EXCEPT ![n] = "idle"]
  /\ faults < MaxFaults /\ faults' = faults + 1
  /\ UNCHANGED <<parents, self, spec, connected, shown, sent, changes>>

\* The coordination server shows something else: somebody patched the network, or
\* the server was started again with another configuration.
Change(n) ==
  /\ changes < MaxChanges /\ changes' = changes + 1
  /\ shown' \in {[shown EXCEPT ![n] = v] : v \in Views[n]}
  /\ UNCHANGED <<parents, self, spec, connected, pc, sent, faults>>

\* The process of the clients starts again, and dials the DNS server if that
\* is another process; or the server in it is new too.
RestartClients ==
  /\ faults < MaxFaults /\ faults' = faults + 1
  /\ pc' = [n \in Network |-> "idle"]
  /\ sent' = [n \in Network |-> None]
  /\ spec' = IF self THEN None ELSE spec
  /\ connected' = TRUE
  /\ UNCHANGED <<parents, self, shown, changes>>

\* device-dns starts again: its spec was in memory, and nobody redials.
RestartDns ==
  /\ ~self
  /\ faults < MaxFaults /\ faults' = faults + 1
  /\ spec' = None
  /\ connected' = FALSE
  /\ UNCHANGED <<parents, self, shown, pc, sent, changes>>

Init ==
  /\ parents \in {ps \in ParentConfigs : NewServerAccepts(ps)}
  /\ self \in BOOLEAN
  /\ spec = None
  /\ connected = TRUE
  /\ \E v \in [Network -> UNION {Views[n] : n \in Network}] :
       (\A n \in Network : v[n] \in Views[n]) /\ shown = v
  /\ pc = [n \in Network |-> "idle"]
  /\ sent = [n \in Network |-> None]
  /\ faults = 0 /\ changes = 0

Next ==
  \/ \E n \in Network : UpdateDNS(n) \/ Applied(n) \/ ApplyFails(n) \/ Change(n)
  \/ RestartClients \/ RestartDns

\* The goroutine of a client calls Step for ever, as in Reify.
Fairness == \A n \in Network : WF_vars(UpdateDNS(n) \/ Applied(n))

Spec == Init /\ [][Next]_vars /\ Fairness

-----------------------------------------------------------------------------
(* Properties *)

\* The name of device d of network n under parent p: the suffix with device and
\* network before it, or the suffix alone if it stands for that very device.
OwnNames(p, n, d) ==
  CASE p.Network = None -> {<<d, Dot, n>> \o p.Suffix}
    [] p.Network = n /\ p.Device = d -> {p.Suffix}
    [] OTHER -> {}

\* Under each parent that no earlier parent hides, every device that n's client
\* has handed over resolves to its whole addresses.
Resolves(n) ==
  \A d \in DOMAIN sent[n], i \in DOMAIN parents :
    \A name \in OwnNames(parents[i], n, d) :
      i = First(name) => HandleQuery(name, "A") = Reply("NOERROR", sent[n][d] \cap IsHost)

\* What a client that is latest has applied is what the DNS server answers
\* with ("DNS suffix", modules.nix), for every network of the machine.  A server
\* in its own process may have forgotten its spec, and says so; it never
\* answers with anything else.
ResolvesApplied ==
  \A n \in Network : pc[n] = "latest" => Resolves(n) \/ (~self /\ spec = None)

\* The names a query may have.
WellFormed(name) ==
  /\ name # <<>> /\ Head(name) # Dot /\ Last(name) # Dot
  /\ \A i \in 1 .. Len(name) - 1 : name[i] # Dot \/ name[i + 1] # Dot

QueryNames ==
  {name \in BoundedSeq(Piece \cup {Dot}, NameLength) : WellFormed(name)}

\* No other name gets addresses: what is cut off and turned round in
\* handleParent leaves no second way to write the name of a device, although
\* suffixes are compared without regard to labels.
OnlyOwnNames ==
  \A name \in QueryNames, qtype \in {"A", "AAAA"} :
    HandleQuery(name, qtype).records # {} =>
      \E n \in DOMAIN spec : \E d \in DOMAIN spec[n], i \in DOMAIN parents :
        name \in OwnNames(parents[i], n, d)

\* Once nothing changes any more, every client comes to be latest with what it
\* is shown, and its devices resolve: always if the DNS server is in its
\* process, else as long as the connection to it stands.
Settles ==
  \/ <>[](\A n \in Network : pc[n] = "latest" /\ sent[n] = shown[n] /\ Resolves(n))
  \/ <>[](~self /\ ~connected)
=============================================================================
