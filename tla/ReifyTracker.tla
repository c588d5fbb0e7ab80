----------------------------- MODULE ReifyTracker -----------------------------
(***************************************************************************)
(* What the coordination server promises about latest, whatever form its   *)
(* spec and its lists have: it "returns whether the device has applied the *)
(* latest spec" (coord/api.md).  A device is marked by a report of what it *)
(* sees now; a change of the spec unmarks exactly the devices that see     *)
(* something else after it; a server that starts afresh has no marks.      *)
(***************************************************************************)
EXTENDS Naturals

CONSTANTS
  Identity,     \* the devices, each named within its network
  Gone          \* the view of a device that is not in the spec, and no report

VARIABLES
  view,         \* what each device sees of the spec
  marked,       \* the devices said to have applied the latest spec
  told,         \* what each marked device reported
  boot          \* changes when the server is started again

vars == <<view, marked, told, boot>>

Init ==
  /\ marked = {}
  /\ told = [id \in Identity |-> Gone]
  /\ boot = 0

\* A device reports what it sees, and is marked.
Report(id) ==
  /\ view[id] # Gone
  /\ marked' = marked \cup {id}
  /\ told' = [told EXCEPT ![id] = view[id]]
  /\ UNCHANGED <<view, boot>>

\* The spec changes in any way at all.
Change ==
  /\ marked' = {id \in marked : view'[id] = view[id]}
  /\ told' = [id \in Identity |-> IF id \in marked' THEN told[id] ELSE Gone]
  /\ UNCHANGED boot

\* The server starts again with any spec.  Nothing else may forget a mark of a
\* device that sees what it saw.
Forget ==
  /\ marked' = {}
  /\ told' = [id \in Identity |-> Gone]
  /\ boot' = 1 - boot

Next ==
  \/ \E id \in Identity : Report(id)
  \/ Change
  \/ Forget

Spec == Init /\ [][Next]_vars
=============================================================================
