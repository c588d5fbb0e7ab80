---------------------------- MODULE DeviceMachine ----------------------------
(***************************************************************************)
(* One machine: the clients a device-client process runs for it, one for   *)
(* each network, between the moment they know what to apply and the moment *)
(* they post it.  Each has its own goal.Applier; they share the kernel     *)
(* (package goal).                                                         *)
(*                                                                         *)
(* A step is one call to the kernel: calls of different clients            *)
(* interleave, any of them can fail, and the process can stop between      *)
(* two.  An Applier manages the one interface of its client's network, so  *)
(* that ApplyMachine deletes no interface and updates exactly that one.    *)
(* A network prefix (goal.IPNet) is a number, in the order of lessIPNet.   *)
(***************************************************************************)
EXTENDS Naturals, Sequences, FiniteSets, SequencesExt

CONSTANTS
  Net,            \* the networks the machine is in, one interface each
  IPNet,          \* network prefixes
  Goals,          \* what the client of each network may have to apply
  ReadWriteProc,  \* the appliers set ip_forward (AssumeProc is not set)
  None,           \* no configuration, no spec, no route
  MaxFaults       \* bound: how many calls fail or processes stop

\* What CompileMachine makes of a spec: peers are the peers of the WireGuard
\* configuration, allowedIPs lists the AllowedIPs of all of them in turn.
Goal == [peers : SUBSET Nat, addresses : Seq(IPNet), allowedIPs : Seq(IPNet),
         forwardsIPv4 : BOOLEAN, forwardsIPv6 : BOOLEAN]

\* A process runs at least one client.
ASSUME MachineAssumption ==
  /\ Net # {}
  /\ IPNet \subseteq Nat /\ IsFiniteSet(IPNet)
  /\ None \notin IPNet \cup Net
  /\ \A n \in Net : Goals[n] # {} /\ \A g \in Goals[n] : g \in Goal
  /\ ReadWriteProc \in BOOLEAN
  /\ MaxFaults \in Nat

VARIABLES
  link,       \* per network: the interface is "absent", "down" or "up"
  peers,      \* the WireGuard configuration of each interface
  addrs,      \* the addresses of each interface
  routes,     \* the interface each prefix is routed to
  ipForward,  \* /proc/sys/net/ipv4/ip_forward
  pc,         \* where each client is
  goal,       \* what it is applying, or has applied
  tasks,      \* the addressTasks left
  faults

kernelVars == <<link, peers, addrs, routes, ipForward>>
vars == <<link, peers, addrs, routes, ipForward, pc, goal, tasks, faults>>

Labels == {"idle", "create", "configure", "addresses", "addressTasks", "up",
           "routes", "routeTasks", "forward", "write", "done", "dead"}

Task == [add : BOOLEAN, ip : IPNet]

TypeOK ==
  /\ link \in [Net -> {"absent", "down", "up"}]
  /\ peers \in [Net -> SUBSET Nat]
  /\ addrs \in [Net -> SUBSET IPNet]
  /\ routes \in [IPNet -> Net \cup {None}]
  /\ ipForward \in BOOLEAN
  /\ pc \in [Net -> Labels]
  /\ goal \in [Net -> Goal \cup {None}]
  /\ tasks \in [Net -> Seq(Task)]
  /\ \A n \in Net : tasks[n] # <<>> => pc[n] \in {"addressTasks", "routeTasks"}
  /\ faults \in 0 .. MaxFaults

-----------------------------------------------------------------------------
(* Helpers *)

Copies(s, x) == Cardinality({i \in DOMAIN s : s[i] = x})

Ordered(s) == \A i, j \in DOMAIN s : i < j => s[i] <= s[j]

\* setDifference, as SliceMerge has it: the elements of s that are not in t,
\* sorted, each as often as s has it.  There is one such sequence.
SetDifference(s, t) ==
  {d \in SeqOf(Range(s), Len(s)) :
     Ordered(d) /\ \A x \in Range(s) :
                     Copies(d, x) = IF x \in Range(t) THEN 0 ELSE Copies(s, x)}

\* What it makes of s itself.
Sorted(s) == SetDifference(s, <<>>)

\* The kernel lists what it has once, in whatever order.
Listings(S) == {s \in [1 .. Cardinality(S) -> S] : Range(s) = S}

AddressTasks(s, add) == [i \in DOMAIN s |-> [add |-> add, ip |-> s[i]]]

\* The tasks that lead from the prefixes the interface has to those it should
\* have: first the removals, then the additions.
SetTasks(n, have, want) ==
  \E removed \in SetDifference(have, want), added \in SetDifference(want, have) :
    tasks' = [tasks EXCEPT ![n] = AddressTasks(removed, FALSE) \o AddressTasks(added, TRUE)]

\* Mutation of RoutesOf: the routes of every interface are listed.
RoutesOfAll(n) == {ip \in IPNet : routes[ip] # None}

RoutesOf(n) == {ip \in IPNet : routes[ip] = n}

Goto(n, l) == pc' = [pc EXCEPT ![n] = l]

\* Mutation of Bail: the tasks outlive the run.
BailKeepsTasks(n) == Goto(n, "idle") /\ UNCHANGED tasks

\* ApplyMachine bails out with an error, and with it ReifySpec.
Bail(n) ==
  /\ Goto(n, "idle")
  /\ tasks' = [tasks EXCEPT ![n] = <<>>]

-----------------------------------------------------------------------------
(* The client of network n *)

\* The look at the existing interfaces at the start of ApplyMachine.
Start(n, g) ==
  /\ pc[n] \in {"idle", "done"}
  /\ goal' = [goal EXCEPT ![n] = g]
  /\ Goto(n, IF link[n] = "absent" THEN "create" ELSE "configure")
  /\ UNCHANGED <<kernelVars, tasks, faults>>

\* createInterface.
CreateInterface(n) ==
  /\ pc[n] = "create"
  /\ link' = [link EXCEPT ![n] = "down"]
  /\ Goto(n, "configure")
  /\ UNCHANGED <<peers, addrs, routes, ipForward, goal, tasks, faults>>

\* Mutation of ConfigureWireguard: ReplacePeers is not set.
ConfigureWireguardAdds(n) ==
  /\ pc[n] = "configure"
  /\ peers' = [peers EXCEPT ![n] = @ \cup goal[n].peers]
  /\ Goto(n, "addresses")
  /\ UNCHANGED <<link, addrs, routes, ipForward, goal, tasks, faults>>

\* configureWireguard: replaces the peers.
ConfigureWireguard(n) ==
  /\ pc[n] = "configure"
  /\ peers' = [peers EXCEPT ![n] = goal[n].peers]
  /\ Goto(n, "addresses")
  /\ UNCHANGED <<link, addrs, routes, ipForward, goal, tasks, faults>>

\* updateInterfaceAddresses: list the addresses, then do one task after another.
\* setDifference sorts the addresses of the goal in place: that is the array
\* that the report of ReifySpec holds too.
ListAddresses(n) ==
  /\ pc[n] = "addresses"
  /\ \E have \in Listings(addrs[n]), sorted \in Sorted(goal[n].addresses) :
       /\ SetTasks(n, have, sorted)
       /\ goal' = [goal EXCEPT ![n].addresses = sorted]
  /\ Goto(n, "addressTasks")
  /\ UNCHANGED <<kernelVars, faults>>

\* AddrAdd fails on an address the interface has.
AddressTask(n) ==
  /\ pc[n] = "addressTasks"
  /\ \/ /\ tasks[n] = <<>>
        /\ Goto(n, "up")
        /\ UNCHANGED <<addrs, tasks>>
     \/ /\ tasks[n] # <<>>
        /\ LET t == Head(tasks[n]) IN
             \/ /\ t.add <=> t.ip \notin addrs[n]
                /\ addrs' = [addrs EXCEPT ![n] = IF t.add THEN @ \cup {t.ip} ELSE @ \ {t.ip}]
                /\ tasks' = [tasks EXCEPT ![n] = Tail(@)]
                /\ UNCHANGED pc
             \/ /\ t.add <=> t.ip \in addrs[n]
                /\ Bail(n)
                /\ UNCHANGED addrs
  /\ UNCHANGED <<link, peers, routes, ipForward, goal, faults>>

\* netlink.LinkSetUp.
LinkSetUp(n) ==
  /\ pc[n] = "up"
  /\ link' = [link EXCEPT ![n] = "up"]
  /\ Goto(n, "routes")
  /\ UNCHANGED <<peers, addrs, routes, ipForward, goal, tasks, faults>>

\* applyInterfaceRoutes.
ListRoutes(n) ==
  /\ pc[n] = "routes"
  /\ \E have \in Listings(RoutesOf(n)) : SetTasks(n, have, goal[n].allowedIPs)
  /\ Goto(n, "routeTasks")
  /\ UNCHANGED <<kernelVars, goal, faults>>

\* RouteAdd fails on a prefix that is routed, to this interface or another.
RouteTask(n) ==
  /\ pc[n] = "routeTasks"
  /\ \/ /\ tasks[n] = <<>>
        /\ Goto(n, "forward")
        /\ UNCHANGED <<routes, tasks>>
     \/ /\ tasks[n] # <<>>
        /\ LET t == Head(tasks[n]) IN
             \/ /\ IF t.add THEN routes[t.ip] = None ELSE routes[t.ip] = n
                /\ routes' = [routes EXCEPT ![t.ip] = IF t.add THEN n ELSE None]
                /\ tasks' = [tasks EXCEPT ![n] = Tail(@)]
                /\ UNCHANGED pc
             \/ /\ IF t.add THEN routes[t.ip] # None ELSE routes[t.ip] # n
                /\ Bail(n)
                /\ UNCHANGED routes
  /\ UNCHANGED <<link, peers, addrs, ipForward, goal, faults>>

\* The end of ApplyMachine: it returns, unless the machine forwards IPv6.  Then
\* it panics, which ends the process and with it the clients of all networks.
Ends(n) ==
  \/ /\ ~goal[n].forwardsIPv6
     /\ Goto(n, "done")
     /\ UNCHANGED tasks
  \/ /\ goal[n].forwardsIPv6
     /\ pc' = [m \in Net |-> "dead"]
     /\ tasks' = [m \in Net |-> <<>>]

\* Mutation of MustWrite: forwarding is only ever switched on.
MustWriteOn(n) == ReadWriteProc /\ ~ipForward /\ goal[n].forwardsIPv4

MustWrite(n) == ReadWriteProc /\ ipForward # goal[n].forwardsIPv4

\* Read ip_forward, and write it if it is not what this machine needs.
ReadForward(n) ==
  /\ pc[n] = "forward"
  /\ IF MustWrite(n) THEN Goto(n, "write") /\ UNCHANGED tasks ELSE Ends(n)
  /\ UNCHANGED <<kernelVars, goal, faults>>

WriteForward(n) ==
  /\ pc[n] = "write"
  /\ ipForward' = goal[n].forwardsIPv4
  /\ Ends(n)
  /\ UNCHANGED <<link, peers, addrs, routes, goal, faults>>

ClientStep(n) ==
  \/ \E g \in Goals[n] : Start(n, g)
  \/ CreateInterface(n) \/ ConfigureWireguard(n)
  \/ ListAddresses(n) \/ AddressTask(n)
  \/ LinkSetUp(n)
  \/ ListRoutes(n) \/ RouteTask(n)
  \/ ReadForward(n) \/ WriteForward(n)

-----------------------------------------------------------------------------
(* Failures *)

Fault == faults < MaxFaults /\ faults' = faults + 1

\* The call the client makes fails.
CallFails(n) ==
  /\ Fault
  /\ pc[n] \notin {"idle", "done", "dead"}
  /\ Bail(n)
  /\ UNCHANGED <<kernelVars, goal>>

\* The process starts again, with every client and with its DNS server.
Restart ==
  /\ Fault
  /\ pc' = [n \in Net |-> "idle"]
  /\ goal' = [n \in Net |-> None]
  /\ tasks' = [n \in Net |-> <<>>]
  /\ UNCHANGED kernelVars

Init ==
  /\ link = [n \in Net |-> "absent"]
  /\ peers = [n \in Net |-> {}]
  /\ addrs = [n \in Net |-> {}]
  /\ routes = [ip \in IPNet |-> None]
  /\ ipForward = FALSE
  /\ pc = [n \in Net |-> "idle"]
  /\ goal = [n \in Net |-> None]
  /\ tasks = [n \in Net |-> <<>>]
  /\ faults = 0

Next ==
  \/ \E n \in Net : ClientStep(n) \/ CallFails(n)
  \/ Restart

\* A client that is not latest calls ReifySpec again after any error.
Spec == Init /\ [][Next]_vars /\ \A n \in Net : WF_vars(ClientStep(n))

-----------------------------------------------------------------------------
(* Properties *)

\* When ApplyMachine returns without an error, the interface is what the
\* machine asks for, whatever earlier runs for other goals, failing calls and
\* killed processes left behind.
AppliedIsGoal ==
  \A n \in Net : pc[n] = "done" =>
    /\ link[n] = "up" /\ peers[n] = goal[n].peers
    /\ addrs[n] = Range(goal[n].addresses)
    /\ RoutesOf(n) = Range(goal[n].allowedIPs)

\* "Assuming the error is temporary, you can just rerun this function to get to
\* your goal state" (apply_linux.go): once calls stop failing, a client that
\* reruns it gets there, from any state it was interrupted in.  The one other
\* end is the panic of a machine that forwards IPv6, for all clients at once.
RerunReaches ==
  \/ \A n \in Net : []<>(pc[n] = "done")
  \/ <>[](/\ \A n \in Net : pc[n] = "dead"
          /\ \E n \in Net : goal[n] # None /\ goal[n].forwardsIPv6)

\* "Returns whether the applied spec is up-to-date" (coord/api.md), and order
\* counts there: what the client has after applying, and posts, is what it was
\* given to apply.
ReportsWhatItGot == \A n \in Net : pc[n] = "done" => goal[n] \in Goals[n]

\* The clients take turns at one ip_forward, and each reads it before it
\* writes: once all are done and ask for the same, it is what they ask for,
\* whatever they asked for before and whoever wrote last.
ForwardAgreed ==
  \A b \in BOOLEAN :
    ReadWriteProc /\ (\A n \in Net : pc[n] = "done" /\ goal[n].forwardsIPv4 = b)
      => ipForward = b
=============================================================================
