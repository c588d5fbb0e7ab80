--------------------------- MODULE MCDeviceMachine ---------------------------
(***************************************************************************)
(* Finite instances of DeviceMachine.                                      *)
(***************************************************************************)
EXTENDS DeviceMachine

CONSTANTS n1, n2

MachineGoal(p, addresses, allowedIPs, forwards) ==
  [peers |-> p, addresses |-> addresses, allowedIPs |-> allowedIPs,
   forwardsIPv4 |-> "IPv4" \in forwards, forwardsIPv6 |-> "IPv6" \in forwards]

\* Addresses in the order of a configuration that nobody sorted.
MCUnsortedGoals == [n \in Net |-> {MachineGoal({1}, <<2, 1>>, <<3>>, {})}]

\* Two networks, with prefixes of their own.  The spec of the first changes:
\* addresses and peers added, moved and removed, a prefix that two peers claim,
\* forwarding on and off.  The second loses and regains its only route, and
\* forwards without it; at last it is to forward IPv6.
MCTwoGoals ==
  [n \in Net |->
     IF n = n1 THEN {MachineGoal({1}, <<1, 2>>, <<3>>, {}),
                     MachineGoal({1, 2}, <<1>>, <<4, 3>>, {"IPv4"}),
                     MachineGoal({3}, <<2>>, <<4, 4>>, {"IPv4"})}
               ELSE {MachineGoal({1}, <<2>>, <<5>>, {}),
                     MachineGoal({2}, <<2>>, <<>>, {"IPv4"}),
                     MachineGoal({1}, <<2>>, <<5>>, {"IPv6"})}]
=============================================================================
