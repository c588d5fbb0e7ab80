------------------------- MODULE DeviceMachine_proofs -------------------------
(***************************************************************************)
(* Whatever an earlier run left behind, and however the appliers of a      *)
(* machine interleave, a run of ApplyMachine that ends without an error    *)
(* has made the interface what it was asked for: for any number of         *)
(* networks and any goals.                                                 *)
(***************************************************************************)
EXTENDS DeviceMachine, FiniteSetTheorems, SequenceTheorems, TLAPS

-----------------------------------------------------------------------------
(* What a list of tasks does *)

Addition(ip) == [add |-> TRUE, ip |-> ip]

Removal(ip) == [add |-> FALSE, ip |-> ip]

Additions(q) == {ip \in IPNet : Addition(ip) \in Range(q)}

Removals(q) == {ip \in IPNet : Removal(ip) \in Range(q)}

\* The tasks q lead from the prefixes in have to those in want: they remove what
\* is surplus and add what is missing, and nothing else is wrong.
Leads(have, q, want) ==
  /\ Removals(q) \cap want = {} /\ Additions(q) \subseteq want
  /\ have \ Removals(q) \subseteq want
  /\ want \subseteq have \cup Additions(q)

LEMMA TaskFields ==
  ASSUME NEW ip, NEW other
  PROVE  /\ Addition(ip) = Addition(other) <=> ip = other
         /\ Removal(ip) = Removal(other) <=> ip = other
         /\ Addition(ip) # Removal(other)
BY DEF Addition, Removal

LEMMA CopiesZero ==
  ASSUME NEW S, NEW q \in Seq(S), NEW x
  PROVE  Copies(q, x) = 0 <=> x \notin Range(q)
<1> DEFINE K == {i \in DOMAIN q : q[i] = x}
<1>1. IsFiniteSet(1 .. Len(q)) /\ DOMAIN q = 1 .. Len(q)
  BY FS_Interval
<1>2. IsFiniteSet(K)
  BY <1>1, FS_Subset
<1>3. Cardinality(K) = 0 <=> K = {}
  BY <1>2, FS_EmptySet
<1> QED
  BY <1>3 DEF Copies, Range

\* setDifference returns what its name says.
LEMMA DifferenceRange ==
  ASSUME NEW s \in Seq(IPNet), NEW t, NEW d \in SetDifference(s, t)
  PROVE  d \in Seq(IPNet) /\ Range(d) = Range(s) \ Range(t)
<1>1. PICK m \in 0 .. Len(s) : d \in [1 .. m -> Range(s)]
  BY DEF SetDifference, SeqOf
<1>2. Range(s) \subseteq IPNet
  BY DEF Range
<1>3. d \in Seq(IPNet)
  BY <1>1, <1>2
<1>4. ASSUME NEW x PROVE x \in Range(d) <=> x \in Range(s) /\ x \notin Range(t)
  <2>1. x \in Range(d) => x \in Range(s)
    BY <1>1 DEF Range
  <2>2. x \in Range(s) => Copies(d, x) = IF x \in Range(t) THEN 0 ELSE Copies(s, x)
    BY DEF SetDifference
  <2>3. /\ Copies(d, x) = 0 <=> x \notin Range(d)
        /\ Copies(s, x) = 0 <=> x \notin Range(s)
    BY <1>3, CopiesZero
  <2> QED
    BY <2>1, <2>2, <2>3
<1> QED
  BY <1>3, <1>4

LEMMA SortedRange ==
  ASSUME NEW s \in Seq(IPNet), NEW d \in Sorted(s)
  PROVE  d \in Seq(IPNet) /\ Range(d) = Range(s)
<1>1. d \in SetDifference(s, <<>>)
  BY DEF Sorted
<1>2. d \in Seq(IPNet) /\ Range(d) = Range(s) \ Range(<<>>)
  BY <1>1, DifferenceRange
<1>3. Range(<<>>) = {}
  BY DEF Range
<1> QED
  BY <1>2, <1>3

LEMMA ListingRange ==
  ASSUME NEW S \in SUBSET IPNet, NEW s \in Listings(S)
  PROVE  s \in Seq(IPNet) /\ Range(s) = S
<1>1. Cardinality(S) \in Nat
  BY MachineAssumption, FS_Subset, FS_CardinalityType
<1> QED
  BY <1>1 DEF Listings

\* The tasks that both lists make lead from the one to the other.
LEMMA TasksLead ==
  ASSUME NEW have \in Seq(IPNet), NEW want \in Seq(IPNet), NEW n, SetTasks(n, have, want)
  PROVE  \E q \in Seq(Task) : /\ tasks' = [tasks EXCEPT ![n] = q]
                              /\ Leads(Range(have), q, Range(want))
<1>1. PICK removed \in SetDifference(have, want), added \in SetDifference(want, have) :
        tasks' = [tasks EXCEPT ![n] = AddressTasks(removed, FALSE)
                                        \o AddressTasks(added, TRUE)]
  BY DEF SetTasks
<1> DEFINE r == AddressTasks(removed, FALSE)
           a == AddressTasks(added, TRUE)
           q == r \o a
<1>2. /\ removed \in Seq(IPNet) /\ Range(removed) = Range(have) \ Range(want)
      /\ added \in Seq(IPNet) /\ Range(added) = Range(want) \ Range(have)
  BY DifferenceRange
<1>3. /\ r \in Seq(Task) /\ DOMAIN r = DOMAIN removed
      /\ \A i \in DOMAIN removed : r[i] = Removal(removed[i])
  <2>1. /\ DOMAIN removed = 1 .. Len(removed) /\ Len(removed) \in Nat
        /\ \A i \in DOMAIN removed : removed[i] \in IPNet
    BY <1>2
  <2>2. \A i \in DOMAIN removed : [add |-> FALSE, ip |-> removed[i]] \in Task
    BY <2>1 DEF Task
  <2> QED
    BY <2>1, <2>2 DEF AddressTasks, Removal
<1>4. /\ a \in Seq(Task) /\ DOMAIN a = DOMAIN added
      /\ \A i \in DOMAIN added : a[i] = Addition(added[i])
  <2>1. /\ DOMAIN added = 1 .. Len(added) /\ Len(added) \in Nat
        /\ \A i \in DOMAIN added : added[i] \in IPNet
    BY <1>2
  <2>2. \A i \in DOMAIN added : [add |-> TRUE, ip |-> added[i]] \in Task
    BY <2>1 DEF Task
  <2> QED
    BY <2>1, <2>2 DEF AddressTasks, Addition
<1>5. tasks' = [tasks EXCEPT ![n] = q]
  BY <1>1
<1> HIDE DEF r, a
<1>6. q \in Seq(Task) /\ Range(q) = Range(r) \cup Range(a)
  BY <1>3, <1>4, ConcatProperties, RangeConcatenation
<1>7. ASSUME NEW ip
      PROVE  /\ Removal(ip) \in Range(q) <=> ip \in Range(removed)
             /\ Addition(ip) \in Range(q) <=> ip \in Range(added)
  <2>1. Removal(ip) \in Range(r) <=> ip \in Range(removed)
    BY <1>3, TaskFields DEF Range
  <2>2. Addition(ip) \in Range(a) <=> ip \in Range(added)
    BY <1>4, TaskFields DEF Range
  <2>3. Removal(ip) \notin Range(a) /\ Addition(ip) \notin Range(r)
    BY <1>3, <1>4, TaskFields DEF Range
  <2> QED
    BY <1>6, <2>1, <2>2, <2>3
<1> HIDE DEF q
<1>8. Removals(q) = Range(removed) /\ Additions(q) = Range(added)
  <2>1. Range(removed) \subseteq IPNet /\ Range(added) \subseteq IPNet
    BY <1>2 DEF Range
  <2> QED
    BY <1>7, <2>1 DEF Removals, Additions
<1>9. Leads(Range(have), q, Range(want))
  BY <1>2, <1>8 DEF Leads
<1> QED
  BY <1>5, <1>6, <1>9

\* One task done, the others still lead there.
LEMMA TaskDone ==
  ASSUME NEW have, NEW want, NEW q \in Seq(Task), q # <<>>, Leads(have, q, want)
  PROVE  LET t == Head(q)
         IN /\ t \in Task /\ Tail(q) \in Seq(Task)
            /\ t.add => Leads(have \cup {t.ip}, Tail(q), want)
            /\ ~t.add => Leads(have \ {t.ip}, Tail(q), want)
<1> DEFINE t == Head(q)
<1>1. t \in Task /\ Tail(q) \in Seq(Task)
  OBVIOUS
<1>2. Range(q) = {t} \cup Range(Tail(q))
  <2>1. /\ DOMAIN q = 1 .. Len(q) /\ Len(q) > 0 /\ t = q[1]
        /\ DOMAIN Tail(q) = 1 .. Len(q) - 1
        /\ \A i \in 1 .. Len(q) - 1 : Tail(q)[i] = q[i + 1]
    OBVIOUS
  <2>2. \A i \in 2 .. Len(q) : i - 1 \in DOMAIN Tail(q) /\ q[i] = Tail(q)[i - 1]
    BY <2>1
  <2>3. \A i \in DOMAIN Tail(q) : i + 1 \in DOMAIN q
    BY <2>1
  <2> HIDE DEF t
  <2>4. Range(q) \subseteq {t} \cup Range(Tail(q))
    <3> SUFFICES ASSUME NEW i \in DOMAIN q, q[i] # t PROVE q[i] \in Range(Tail(q))
      BY DEF Range
    <3>1. i \in 2 .. Len(q)
      BY <2>1
    <3> QED
      BY <2>2, <3>1 DEF Range
  <2>5. {t} \cup Range(Tail(q)) \subseteq Range(q)
    BY <2>1, <2>3 DEF Range
  <2> QED
    BY <2>4, <2>5
<1>3. CASE t.add
  <2>1. t = Addition(t.ip) /\ t.ip \in IPNet
    BY <1>1, <1>3 DEF Task, Addition
  <2>2. ASSUME NEW ip
        PROVE  /\ Addition(ip) = t <=> ip = t.ip
               /\ Removal(ip) # t
    BY <2>1, TaskFields
  <2>3. /\ Additions(q) = Additions(Tail(q)) \cup {t.ip}
        /\ Removals(q) = Removals(Tail(q))
    BY <1>2, <2>1, <2>2 DEF Additions, Removals
  <2> HIDE DEF t
  <2> QED
    BY <1>1, <1>3, <2>3 DEF Leads, t
<1>4. CASE ~t.add
  <2>1. t = Removal(t.ip) /\ t.ip \in IPNet
    BY <1>1, <1>4 DEF Task, Removal
  <2>2. ASSUME NEW ip
        PROVE  /\ Removal(ip) = t <=> ip = t.ip
               /\ Addition(ip) # t
    BY <2>1, TaskFields
  <2>3. /\ Removals(q) = Removals(Tail(q)) \cup {t.ip}
        /\ Additions(q) = Additions(Tail(q))
    BY <1>2, <2>1, <2>2 DEF Additions, Removals
  <2> QED
    BY <1>1, <1>4, <2>3 DEF Leads
<1> QED
  BY <1>3, <1>4

LEMMA NoTaskLeft ==
  ASSUME NEW have, NEW want, Leads(have, <<>>, want)
  PROVE  have = want
<1>1. Range(<<>>) = {}
  BY DEF Range
<1> QED
  BY <1>1 DEF Leads, Additions, Removals

-----------------------------------------------------------------------------
(* The inductive invariant: what a run has brought about, label by label *)

HasGoal(n) == pc[n] \notin {"idle", "dead"} => goal[n] \in Goal

Configured(n) ==
  pc[n] \notin {"idle", "dead", "create", "configure"} => peers[n] = goal[n].peers

\* Another client never touches these: the tasks left still lead to the goal.
Addressed(n) ==
  /\ pc[n] = "addressTasks" => Leads(addrs[n], tasks[n], Range(goal[n].addresses))
  /\ pc[n] \in {"up", "routes", "routeTasks", "forward", "write", "done"} =>
       addrs[n] = Range(goal[n].addresses)

IsUp(n) == pc[n] \in {"routes", "routeTasks", "forward", "write", "done"} => link[n] = "up"

\* The routes are one table for all, but a client only removes its own and only
\* adds where there is none.
Routed(n) ==
  /\ pc[n] = "routeTasks" => Leads(RoutesOf(n), tasks[n], Range(goal[n].allowedIPs))
  /\ pc[n] \in {"forward", "write", "done"} => RoutesOf(n) = Range(goal[n].allowedIPs)

Underway(n) == HasGoal(n) /\ Configured(n) /\ Addressed(n) /\ IsUp(n) /\ Routed(n)

Inv == TypeOK /\ \A n \in Net : Underway(n)

\* What a step of another client leaves alone.
Spared(m) ==
  /\ UNCHANGED <<link[m], peers[m], addrs[m], pc[m], goal[m], tasks[m]>>
  /\ UNCHANGED RoutesOf(m)

LEMMA SparedUnderway ==
  ASSUME NEW m, Underway(m), Spared(m)
  PROVE  Underway(m)'
<1>1. HasGoal(m)' /\ Configured(m)' /\ Addressed(m)' /\ IsUp(m)'
  BY DEF Underway, Spared, HasGoal, Configured, Addressed, IsUp
<1>2. Routed(m)'
  BY DEF Underway, Spared, Routed
<1> QED
  BY <1>1, <1>2 DEF Underway

\* One step of the client of n, and what it needs to know of n alone.  It leaves
\* the other clients alone, or takes them with it.
StepIsRight(n) ==
  TypeOK' /\ Underway(n)' /\ \A m \in Net \ {n} : Spared(m) \/ pc'[m] = "dead"

LEMMA BailIsRight ==
  ASSUME Inv, NEW n \in Net, Bail(n), UNCHANGED <<kernelVars, goal>>, faults' \in 0 .. MaxFaults
  PROVE  StepIsRight(n)
<1>1. TypeOK'
  BY DEF Inv, TypeOK, Bail, Goto, Labels, kernelVars
<1>2. Underway(n)'
  BY DEF Inv, TypeOK, Bail, Goto, Underway, HasGoal, Configured, Addressed, IsUp, Routed
<1>3. \A m \in Net \ {n} : Spared(m)
  BY DEF Inv, TypeOK, Bail, Goto, Spared, RoutesOf, kernelVars
<1> QED
  BY <1>1, <1>2, <1>3 DEF StepIsRight

LEMMA StartIsRight ==
  ASSUME Inv, NEW n \in Net, NEW g \in Goals[n], Start(n, g)
  PROVE  StepIsRight(n)
<1>1. g \in Goal /\ pc'[n] \in {"create", "configure"} /\ pc' \in [Net -> Labels]
  BY MachineAssumption DEF Inv, TypeOK, Start, Goto, Labels
<1>2. TypeOK'
  <2>1. goal' \in [Net -> Goal \cup {None}]
    BY <1>1 DEF Inv, TypeOK, Start
  <2>2. \A m \in Net : tasks'[m] # <<>> => pc'[m] \in {"addressTasks", "routeTasks"}
    BY DEF Inv, TypeOK, Start, Goto
  <2> QED
    BY <1>1, <2>1, <2>2 DEF Inv, TypeOK, Start, kernelVars
<1>3. Underway(n)'
  BY <1>1 DEF Inv, TypeOK, Start, Underway, HasGoal, Configured, Addressed, IsUp, Routed
<1>4. \A m \in Net \ {n} : Spared(m)
  BY DEF Inv, TypeOK, Start, Goto, Spared, RoutesOf, kernelVars
<1> QED
  BY <1>2, <1>3, <1>4 DEF StepIsRight

LEMMA CreateIsRight ==
  ASSUME Inv, NEW n \in Net, CreateInterface(n)
  PROVE  StepIsRight(n)
<1>1. TypeOK'
  BY DEF Inv, TypeOK, CreateInterface, Goto, Labels
<1>2. Underway(n)'
  BY DEF Inv, TypeOK, CreateInterface, Goto,
         Underway, HasGoal, Configured, Addressed, IsUp, Routed
<1>3. \A m \in Net \ {n} : Spared(m)
  BY DEF Inv, TypeOK, CreateInterface, Goto, Spared, RoutesOf
<1> QED
  BY <1>1, <1>2, <1>3 DEF StepIsRight

LEMMA ConfigureIsRight ==
  ASSUME Inv, NEW n \in Net, ConfigureWireguard(n)
  PROVE  StepIsRight(n)
<1>1. goal[n] \in Goal
  BY DEF Inv, Underway, HasGoal, ConfigureWireguard
<1>2. TypeOK'
  <2>1. peers' \in [Net -> SUBSET Nat]
    BY <1>1 DEF Inv, TypeOK, ConfigureWireguard, Goal
  <2> QED
    BY <2>1 DEF Inv, TypeOK, ConfigureWireguard, Goto, Labels
<1>3. Underway(n)'
  BY <1>1 DEF Inv, TypeOK, ConfigureWireguard, Goto,
              Underway, HasGoal, Configured, Addressed, IsUp, Routed
<1>4. \A m \in Net \ {n} : Spared(m)
  BY DEF Inv, TypeOK, ConfigureWireguard, Goto, Spared, RoutesOf
<1> QED
  BY <1>2, <1>3, <1>4 DEF StepIsRight

LEMMA ListAddressesIsRight ==
  ASSUME Inv, NEW n \in Net, ListAddresses(n)
  PROVE  StepIsRight(n)
<1>1. goal[n] \in Goal /\ goal[n].addresses \in Seq(IPNet) /\ addrs[n] \in SUBSET IPNet
  BY DEF Inv, TypeOK, Underway, HasGoal, ListAddresses, Goal
<1>2. PICK have \in Listings(addrs[n]), sorted \in Sorted(goal[n].addresses) :
        SetTasks(n, have, sorted) /\ goal' = [goal EXCEPT ![n].addresses = sorted]
  BY DEF ListAddresses
<1>3. /\ have \in Seq(IPNet) /\ Range(have) = addrs[n]
      /\ sorted \in Seq(IPNet)
  BY <1>1, ListingRange, SortedRange
<1>4. PICK q \in Seq(Task) : /\ tasks' = [tasks EXCEPT ![n] = q]
                             /\ Leads(addrs[n], q, Range(sorted))
  BY <1>2, <1>3, TasksLead
<1>5. /\ tasks' \in [Net -> Seq(Task)] /\ tasks'[n] = q
      /\ \A m \in Net \ {n} : tasks'[m] = tasks[m]
  BY <1>4 DEF Inv, TypeOK
<1>6. /\ goal' \in [Net -> Goal \cup {None}] /\ goal'[n] \in Goal
      /\ goal'[n].addresses = sorted /\ goal'[n].peers = goal[n].peers
      /\ \A m \in Net \ {n} : goal'[m] = goal[m]
  <2>1. [goal[n] EXCEPT !.addresses = sorted] \in Goal
    BY <1>1, <1>3 DEF Goal
  <2>2. goal' = [goal EXCEPT ![n] = [goal[n] EXCEPT !.addresses = sorted]]
    BY <1>2
  <2>3. /\ [goal[n] EXCEPT !.addresses = sorted].addresses = sorted
        /\ [goal[n] EXCEPT !.addresses = sorted].peers = goal[n].peers
    BY <1>1 DEF Goal
  <2> QED
    BY <2>1, <2>2, <2>3 DEF Inv, TypeOK
<1>7. /\ pc' \in [Net -> Labels] /\ pc[n] = "addresses" /\ pc'[n] = "addressTasks"
      /\ \A m \in Net \ {n} : pc'[m] = pc[m]
  BY DEF Inv, TypeOK, ListAddresses, Goto, Labels
<1>8. UNCHANGED <<link, peers, addrs, routes, ipForward, faults>>
  BY DEF ListAddresses, kernelVars
<1>9. TypeOK'
  <2>1. \A m \in Net : tasks'[m] # <<>> => pc'[m] \in {"addressTasks", "routeTasks"}
    BY <1>5, <1>7 DEF Inv, TypeOK
  <2> QED
    BY <1>5, <1>6, <1>7, <1>8, <2>1 DEF Inv, TypeOK
<1>10. Underway(n)'
  BY <1>4, <1>5, <1>6, <1>7, <1>8
  DEF Inv, Underway, HasGoal, Configured, Addressed, IsUp, Routed
<1>11. \A m \in Net \ {n} : Spared(m)
  BY <1>5, <1>6, <1>7, <1>8 DEF Spared, RoutesOf
<1> QED
  BY <1>9, <1>10, <1>11 DEF StepIsRight

LEMMA AddressTaskIsRight ==
  ASSUME Inv, NEW n \in Net, AddressTask(n)
  PROVE  StepIsRight(n)
<1> DEFINE want == Range(goal[n].addresses)
<1>1. /\ pc[n] = "addressTasks" /\ goal[n] \in Goal
      /\ peers[n] = goal[n].peers /\ Leads(addrs[n], tasks[n], want)
  BY DEF Inv, Underway, HasGoal, Configured, Addressed, AddressTask
<1>2. UNCHANGED <<link, peers, routes, ipForward, goal, faults>>
  BY DEF AddressTask
<1>3. CASE tasks[n] = <<>> /\ Goto(n, "up") /\ UNCHANGED <<addrs, tasks>>
  <2>1. TypeOK'
    BY <1>2, <1>3 DEF Inv, TypeOK, Goto, Labels
  <2>2. addrs[n] = want
    BY <1>1, <1>3, NoTaskLeft
  <2>3. Underway(n)'
    BY <1>1, <1>2, <1>3, <2>2
    DEF Inv, TypeOK, Goto, Underway, HasGoal, Configured, Addressed, IsUp, Routed
  <2>4. \A m \in Net \ {n} : Spared(m)
    BY <1>2, <1>3 DEF Inv, TypeOK, Goto, Spared, RoutesOf
  <2> QED
    BY <2>1, <2>3, <2>4 DEF StepIsRight
<1>4. ASSUME NEW t, t = Head(tasks[n]), tasks[n] # <<>>,
             addrs' = [addrs EXCEPT ![n] = IF t.add THEN @ \cup {t.ip} ELSE @ \ {t.ip}],
             tasks' = [tasks EXCEPT ![n] = Tail(@)],
             UNCHANGED pc
      PROVE  StepIsRight(n)
  <2>1. tasks[n] \in Seq(Task)
    BY DEF Inv, TypeOK
  <2>2. /\ t \in Task /\ Tail(tasks[n]) \in Seq(Task)
        /\ t.add => Leads(addrs[n] \cup {t.ip}, Tail(tasks[n]), want)
        /\ ~t.add => Leads(addrs[n] \ {t.ip}, Tail(tasks[n]), want)
    BY <1>1, <1>4, <2>1, TaskDone
  <2>3. /\ tasks' \in [Net -> Seq(Task)] /\ tasks'[n] = Tail(tasks[n])
        /\ \A m \in Net \ {n} : tasks'[m] = tasks[m]
    BY <1>4, <2>2 DEF Inv, TypeOK
  <2>4. /\ addrs' \in [Net -> SUBSET IPNet]
        /\ addrs'[n] = IF t.add THEN addrs[n] \cup {t.ip} ELSE addrs[n] \ {t.ip}
        /\ \A m \in Net \ {n} : addrs'[m] = addrs[m]
    BY <1>4, <2>2 DEF Inv, TypeOK, Task
  <2>5. TypeOK'
    BY <1>1, <1>2, <1>4, <2>3, <2>4 DEF Inv, TypeOK
  <2>6. Leads(addrs'[n], tasks'[n], Range(goal'[n].addresses))
    BY <1>2, <2>2, <2>3, <2>4
  <2>7. Underway(n)'
    BY <1>1, <1>2, <1>4, <2>6
    DEF Underway, HasGoal, Configured, Addressed, IsUp, Routed
  <2>8. \A m \in Net \ {n} : Spared(m)
    BY <1>2, <1>4, <2>3, <2>4 DEF Spared, RoutesOf
  <2> QED
    BY <2>5, <2>7, <2>8 DEF StepIsRight
<1>5. CASE Bail(n) /\ UNCHANGED addrs
  <2>1. UNCHANGED <<kernelVars, goal>> /\ faults' \in 0 .. MaxFaults
    BY <1>2, <1>5 DEF kernelVars, Inv, TypeOK
  <2> QED
    BY <1>5, <2>1, BailIsRight
<1> QED
  BY <1>3, <1>4, <1>5 DEF AddressTask

LEMMA LinkSetUpIsRight ==
  ASSUME Inv, NEW n \in Net, LinkSetUp(n)
  PROVE  StepIsRight(n)
<1>1. TypeOK'
  BY DEF Inv, TypeOK, LinkSetUp, Goto, Labels
<1>2. Underway(n)'
  BY DEF Inv, TypeOK, LinkSetUp, Goto,
         Underway, HasGoal, Configured, Addressed, IsUp, Routed
<1>3. \A m \in Net \ {n} : Spared(m)
  BY DEF Inv, TypeOK, LinkSetUp, Goto, Spared, RoutesOf
<1> QED
  BY <1>1, <1>2, <1>3 DEF StepIsRight

LEMMA ListRoutesIsRight ==
  ASSUME Inv, NEW n \in Net, ListRoutes(n)
  PROVE  StepIsRight(n)
<1>1. goal[n] \in Goal /\ goal[n].allowedIPs \in Seq(IPNet) /\ RoutesOf(n) \in SUBSET IPNet
  BY DEF Inv, Underway, HasGoal, ListRoutes, Goal, RoutesOf
<1>2. PICK have \in Listings(RoutesOf(n)) : SetTasks(n, have, goal[n].allowedIPs)
  BY DEF ListRoutes
<1>3. have \in Seq(IPNet) /\ Range(have) = RoutesOf(n)
  BY <1>1, ListingRange
<1>4. PICK q \in Seq(Task) : /\ tasks' = [tasks EXCEPT ![n] = q]
                             /\ Leads(RoutesOf(n), q, Range(goal[n].allowedIPs))
  BY <1>1, <1>2, <1>3, TasksLead
<1>5. /\ tasks' \in [Net -> Seq(Task)] /\ tasks'[n] = q
      /\ \A m \in Net \ {n} : tasks'[m] = tasks[m]
  BY <1>4 DEF Inv, TypeOK
<1>6. /\ pc' \in [Net -> Labels] /\ pc[n] = "routes" /\ pc'[n] = "routeTasks"
      /\ \A m \in Net \ {n} : pc'[m] = pc[m]
  BY DEF Inv, TypeOK, ListRoutes, Goto, Labels
<1>7. UNCHANGED <<link, peers, addrs, routes, ipForward, goal, faults>>
  BY DEF ListRoutes, kernelVars
<1>8. TypeOK'
  BY <1>5, <1>6, <1>7 DEF Inv, TypeOK
<1>9. Underway(n)'
  <2>1. RoutesOf(n)' = RoutesOf(n)
    BY <1>7 DEF RoutesOf
  <2> QED
    BY <1>1, <1>4, <1>5, <1>6, <1>7, <2>1
    DEF Inv, Underway, HasGoal, Configured, Addressed, IsUp, Routed
<1>10. \A m \in Net \ {n} : Spared(m)
  BY <1>5, <1>6, <1>7 DEF Spared, RoutesOf
<1> QED
  BY <1>8, <1>9, <1>10 DEF StepIsRight

LEMMA RouteTaskIsRight ==
  ASSUME Inv, NEW n \in Net, RouteTask(n)
  PROVE  StepIsRight(n)
<1> DEFINE want == Range(goal[n].allowedIPs)
<1>1. /\ pc[n] = "routeTasks" /\ goal[n] \in Goal /\ link[n] = "up"
      /\ peers[n] = goal[n].peers /\ addrs[n] = Range(goal[n].addresses)
      /\ Leads(RoutesOf(n), tasks[n], want)
  BY DEF Inv, Underway, HasGoal, Configured, Addressed, IsUp, Routed, RouteTask
<1>2. UNCHANGED <<link, peers, addrs, ipForward, goal, faults>>
  BY DEF RouteTask
<1>3. CASE tasks[n] = <<>> /\ Goto(n, "forward") /\ UNCHANGED <<routes, tasks>>
  <2>1. TypeOK'
    BY <1>2, <1>3 DEF Inv, TypeOK, Goto, Labels
  <2>2. RoutesOf(n) = want /\ UNCHANGED RoutesOf(n)
    BY <1>1, <1>3, NoTaskLeft DEF RoutesOf
  <2>3. Underway(n)'
    BY <1>1, <1>2, <1>3, <2>2
    DEF Inv, TypeOK, Goto, Underway, HasGoal, Configured, Addressed, IsUp, Routed
  <2>4. \A m \in Net \ {n} : Spared(m)
    BY <1>2, <1>3 DEF Inv, TypeOK, Goto, Spared, RoutesOf
  <2> QED
    BY <2>1, <2>3, <2>4 DEF StepIsRight
<1>4. ASSUME NEW t, t = Head(tasks[n]), tasks[n] # <<>>,
             IF t.add THEN routes[t.ip] = None ELSE routes[t.ip] = n,
             routes' = [routes EXCEPT ![t.ip] = IF t.add THEN n ELSE None],
             tasks' = [tasks EXCEPT ![n] = Tail(@)],
             UNCHANGED pc
      PROVE  StepIsRight(n)
  <2>1. tasks[n] \in Seq(Task)
    BY DEF Inv, TypeOK
  <2>2. /\ t \in Task /\ Tail(tasks[n]) \in Seq(Task)
        /\ t.add => Leads(RoutesOf(n) \cup {t.ip}, Tail(tasks[n]), want)
        /\ ~t.add => Leads(RoutesOf(n) \ {t.ip}, Tail(tasks[n]), want)
    BY <1>1, <1>4, <2>1, TaskDone
  <2>3. /\ tasks' \in [Net -> Seq(Task)] /\ tasks'[n] = Tail(tasks[n])
        /\ \A m \in Net \ {n} : tasks'[m] = tasks[m]
    BY <1>4, <2>2 DEF Inv, TypeOK
  <2>4. /\ t.ip \in IPNet /\ routes' \in [IPNet -> Net \cup {None}]
        /\ routes'[t.ip] = IF t.add THEN n ELSE None
        /\ \A ip \in IPNet \ {t.ip} : routes'[ip] = routes[ip]
    BY <1>4, <2>2 DEF Inv, TypeOK, Task
  <2>5. TypeOK'
    BY <1>1, <1>2, <1>4, <2>3, <2>4 DEF Inv, TypeOK
  <2>6. RoutesOf(n)' = IF t.add THEN RoutesOf(n) \cup {t.ip} ELSE RoutesOf(n) \ {t.ip}
    BY <2>4, MachineAssumption DEF RoutesOf
  <2>7. \A m \in Net \ {n} : RoutesOf(m)' = RoutesOf(m)
    BY <1>4, <2>4, MachineAssumption DEF RoutesOf
  <2>8. (Leads(RoutesOf(n), tasks[n], Range(goal[n].allowedIPs)))'
    BY <1>2, <2>2, <2>3, <2>6
  <2>9. Underway(n)'
    BY <1>1, <1>2, <1>4, <2>8
    DEF Underway, HasGoal, Configured, Addressed, IsUp, Routed
  <2>10. \A m \in Net \ {n} : Spared(m)
    BY <1>2, <1>4, <2>3, <2>7 DEF Spared
  <2> QED
    BY <2>5, <2>9, <2>10 DEF StepIsRight
<1>5. CASE Bail(n) /\ UNCHANGED routes
  <2>1. UNCHANGED <<kernelVars, goal>> /\ faults' \in 0 .. MaxFaults
    BY <1>2, <1>5 DEF kernelVars, Inv, TypeOK
  <2> QED
    BY <1>5, <2>1, BailIsRight
<1> QED
  BY <1>3, <1>4, <1>5 DEF RouteTask

\* Nothing is asked of a process that ended.
LEMMA DeadUnderway ==
  ASSUME NEW m, pc'[m] = "dead" PROVE Underway(m)'
BY DEF Underway, HasGoal, Configured, Addressed, IsUp, Routed

LEMMA EndsIsRight ==
  ASSUME Inv, NEW n \in Net, pc[n] \in {"forward", "write"}, Ends(n), ipForward' \in BOOLEAN,
         UNCHANGED <<link, peers, addrs, routes, goal, faults>>
  PROVE  StepIsRight(n)
<1>1. CASE Goto(n, "done") /\ UNCHANGED tasks
  <2>1. TypeOK'
    BY <1>1 DEF Inv, TypeOK, Goto, Labels
  <2>2. Underway(n)'
    <3>1. UNCHANGED RoutesOf(n)
      BY DEF RoutesOf
    <3> QED
      BY <1>1, <3>1 DEF Inv, TypeOK, Goto,
                        Underway, HasGoal, Configured, Addressed, IsUp, Routed
  <2>3. \A m \in Net \ {n} : Spared(m)
    BY <1>1 DEF Inv, TypeOK, Goto, Spared, RoutesOf
  <2> QED
    BY <2>1, <2>2, <2>3 DEF StepIsRight
<1>2. CASE pc' = [m \in Net |-> "dead"] /\ tasks' = [m \in Net |-> <<>>]
  <2>1. <<>> \in Seq(Task)
    OBVIOUS
  <2>2. TypeOK'
    BY <1>2, <2>1 DEF Inv, TypeOK, Labels
  <2> QED
    BY <1>2, <2>2, DeadUnderway DEF StepIsRight
<1> QED
  BY <1>1, <1>2 DEF Ends

LEMMA ReadForwardIsRight ==
  ASSUME Inv, NEW n \in Net, ReadForward(n)
  PROVE  StepIsRight(n)
<1>1. CASE Goto(n, "write") /\ UNCHANGED tasks
  <2>1. TypeOK'
    BY <1>1 DEF Inv, TypeOK, ReadForward, Goto, Labels, kernelVars
  <2>2. Underway(n)'
    <3>1. UNCHANGED RoutesOf(n)
      BY DEF ReadForward, kernelVars, RoutesOf
    <3> QED
      BY <1>1, <3>1 DEF Inv, TypeOK, ReadForward, Goto, kernelVars,
                        Underway, HasGoal, Configured, Addressed, IsUp, Routed
  <2>3. \A m \in Net \ {n} : Spared(m)
    BY <1>1 DEF Inv, TypeOK, ReadForward, Goto, Spared, RoutesOf, kernelVars
  <2> QED
    BY <2>1, <2>2, <2>3 DEF StepIsRight
<1>2. CASE Ends(n)
  BY <1>2, EndsIsRight DEF ReadForward, kernelVars, Inv, TypeOK
<1> QED
  BY <1>1, <1>2 DEF ReadForward

LEMMA WriteForwardIsRight ==
  ASSUME Inv, NEW n \in Net, WriteForward(n)
  PROVE  StepIsRight(n)
<1>1. goal[n] \in Goal
  BY DEF Inv, Underway, HasGoal, WriteForward
<1>2. ipForward' \in BOOLEAN
  BY <1>1 DEF WriteForward, Goal
<1> QED
  BY <1>2, EndsIsRight DEF WriteForward

-----------------------------------------------------------------------------
(* The theorems *)

LEMMA InitInv == Init => Inv
<1> SUFFICES ASSUME Init PROVE Inv
  OBVIOUS
<1>1. TypeOK
  <2>1. <<>> \in Seq(Task)
    OBVIOUS
  <2>2. tasks \in [Net -> Seq(Task)]
    BY <2>1 DEF Init
  <2>3. \A n \in Net : tasks[n] = <<>>
    BY DEF Init
  <2>4. faults \in 0 .. MaxFaults
    BY MachineAssumption DEF Init
  <2>5. /\ link \in [Net -> {"absent", "down", "up"}] /\ peers \in [Net -> SUBSET Nat]
        /\ addrs \in [Net -> SUBSET IPNet] /\ routes \in [IPNet -> Net \cup {None}]
        /\ ipForward \in BOOLEAN /\ pc \in [Net -> Labels] /\ goal \in [Net -> Goal \cup {None}]
    BY DEF Init, Labels
  <2> QED
    BY <2>2, <2>3, <2>4, <2>5 DEF TypeOK
<1>2. \A n \in Net : Underway(n)
  BY DEF Init, Underway, HasGoal, Configured, Addressed, IsUp, Routed
<1> QED
  BY <1>1, <1>2 DEF Inv

LEMMA NextInv == Inv /\ [Next]_vars => Inv'
<1> SUFFICES ASSUME Inv, [Next]_vars PROVE Inv'
  OBVIOUS
<1>1. ASSUME NEW n \in Net, StepIsRight(n)
      PROVE  Inv'
  <2>1. ASSUME NEW m \in Net \ {n} PROVE Underway(m)'
    BY <1>1, <2>1, SparedUnderway, DeadUnderway DEF StepIsRight, Inv
  <2> QED
    BY <1>1, <2>1 DEF StepIsRight, Inv
<1>2. ASSUME NEW n \in Net, ClientStep(n)
      PROVE  Inv'
  <2>1. StepIsRight(n)
    BY <1>2, StartIsRight, CreateIsRight, ConfigureIsRight, ListAddressesIsRight,
       AddressTaskIsRight, LinkSetUpIsRight, ListRoutesIsRight, RouteTaskIsRight,
       ReadForwardIsRight, WriteForwardIsRight
    DEF ClientStep
  <2> QED
    BY <1>1, <2>1
<1>3. ASSUME NEW n \in Net, CallFails(n)
      PROVE  Inv'
  <2>1. faults' \in 0 .. MaxFaults
    BY <1>3, MachineAssumption DEF CallFails, Fault, Inv, TypeOK
  <2> QED
    BY <1>1, <1>3, <2>1, BailIsRight DEF CallFails
<1>4. CASE Restart
  <2>1. TypeOK'
    BY <1>4, MachineAssumption DEF Restart, Fault, Inv, TypeOK, Labels, kernelVars
  <2>2. \A n \in Net : Underway(n)'
    BY <1>4 DEF Restart, Underway, HasGoal, Configured, Addressed, IsUp, Routed
  <2> QED
    BY <2>1, <2>2 DEF Inv
<1>5. CASE UNCHANGED vars
  <2>1. TypeOK'
    BY <1>5 DEF vars, Inv, TypeOK
  <2>2. \A n \in Net : Spared(n)
    BY <1>5 DEF vars, Spared, RoutesOf
  <2> QED
    BY <2>1, <2>2, SparedUnderway DEF Inv
<1> QED
  BY <1>2, <1>3, <1>4, <1>5 DEF Next

LEMMA Invariance == Spec => []Inv
BY InitInv, NextInv, PTL DEF Spec

\* What the kernel and the appliers hold is of its type, and no task outlives
\* the run that listed it: for any networks, prefixes and goals.
THEOREM TypeCorrect == Spec => []TypeOK
<1>1. Inv => TypeOK
  BY DEF Inv
<1> QED
  BY <1>1, Invariance, PTL

\* When ApplyMachine returns without an error, the interface has the peers, the
\* addresses and the routes of the machine, whatever the runs before it left
\* behind and whatever the other clients do to the one routing table meanwhile.
THEOREM AppliedGoal == Spec => []AppliedIsGoal
<1>1. Inv => AppliedIsGoal
  <2> SUFFICES ASSUME Inv, NEW n \in Net, pc[n] = "done"
               PROVE  /\ link[n] = "up" /\ peers[n] = goal[n].peers
                      /\ addrs[n] = Range(goal[n].addresses)
                      /\ RoutesOf(n) = Range(goal[n].allowedIPs)
    BY DEF AppliedIsGoal
  <2> QED
    BY DEF Inv, Underway, Configured, Addressed, IsUp, Routed
<1> QED
  BY <1>1, Invariance, PTL

\* The appliers that take turns at one ip_forward leave there what all of them
\* want, when they want the same: for any number of them, in any order.
THEOREM ForwardsAgree == Spec => []ForwardAgreed
<1>1. Init => ForwardAgreed
  BY MachineAssumption DEF Init, ForwardAgreed
<1>2. Inv /\ ForwardAgreed /\ [Next]_vars => ForwardAgreed'
  <2> SUFFICES ASSUME Inv, ForwardAgreed, [Next]_vars, ReadWriteProc,
                      NEW b \in BOOLEAN,
                      \A m \in Net : pc'[m] = "done" /\ goal'[m].forwardsIPv4 = b
               PROVE  ipForward' = b
    BY DEF ForwardAgreed
  <2>1. ASSUME NEW n \in Net, pc'[n] # "done"
        PROVE  FALSE
    BY <2>1
  <2>2. ASSUME NEW n \in Net, ClientStep(n)
        PROVE  ReadForward(n) \/ WriteForward(n)
    BY <2>1, <2>2 DEF ClientStep, Start, CreateInterface, ConfigureWireguard, ListAddresses,
       AddressTask, LinkSetUp, ListRoutes, RouteTask, Goto, Bail, Inv, TypeOK
  <2>3. ASSUME NEW n \in Net, ReadForward(n)
        PROVE  ipForward' = b
    <3>1. ~MustWrite(n) /\ UNCHANGED <<ipForward, goal>>
      BY <2>1, <2>3 DEF ReadForward, Goto, Inv, TypeOK, kernelVars
    <3> QED
      BY <3>1 DEF MustWrite
  <2>4. ASSUME NEW n \in Net, WriteForward(n)
        PROVE  ipForward' = b
    BY <2>4 DEF WriteForward
  <2>5. ASSUME NEW n \in Net, CallFails(n)
        PROVE  FALSE
    BY <2>1, <2>5 DEF CallFails, Bail, Goto, Inv, TypeOK
  <2>6. CASE Restart
    BY <2>1, <2>6, MachineAssumption DEF Restart
  <2>7. CASE UNCHANGED vars
    BY <2>7 DEF vars, ForwardAgreed
  <2> QED
    BY <2>2, <2>3, <2>4, <2>5, <2>6, <2>7 DEF Next
<1> QED
  BY <1>1, <1>2, Invariance, PTL DEF Spec

=============================================================================
