------------------------------- MODULE RWMutex -------------------------------
(***************************************************************************)
(* sync.RWMutex of the Go library, as the handlers of package coord rely   *)
(* on it: a goroutine that calls Lock first becomes the one writer, which  *)
(* keeps new readers out, and then waits for the readers that are in.      *)
(* Unlock lets in all the readers that were kept out meanwhile, before any *)
(* other writer.                                                           *)
(***************************************************************************)
CONSTANTS
  Goroutine,    \* who takes locks
  Nobody        \* no goroutine: not one of them

RWMutex ==
  [writer : Goroutine \cup {Nobody}, readers : SUBSET Goroutine,
   kept : SUBSET Goroutine]

Unlocked == [writer |-> Nobody, readers |-> {}, kept |-> {}]

\* RLock is called: the reader is in, or kept out while there is a writer.
RLock(l, g) ==
  IF l.writer = Nobody THEN [l EXCEPT !.readers = @ \cup {g}]
                       ELSE [l EXCEPT !.kept = @ \cup {g}]

\* RLock returns.
RLocked(l, g) == g \in l.readers

RUnlock(l, g) == [l EXCEPT !.readers = @ \ {g}]

\* Lock is called: g can become the writer once there is no other.
CanLock(l) == l.writer = Nobody

Lock(l, g) == [l EXCEPT !.writer = g]

\* Lock returns.
Locked(l, g) == l.writer = g /\ l.readers = {}

Unlock(l) == [writer |-> Nobody, readers |-> l.kept, kept |-> {}]
=============================================================================
