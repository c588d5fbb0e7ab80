------------------------- MODULE CoordHandlers_proofs -------------------------
(***************************************************************************)
(* The locks of the coordination server do their work: with any number of  *)
(* connections, the handlers change the server as the single actions of    *)
(* CoordServer do.                                                         *)
(***************************************************************************)
EXTENDS CoordHandlers, TLAPS

\* The handlers have their slots, and specLock is a lock.
Shapes ==
  /\ DOMAIN pc = Slot /\ DOMAIN req = Slot /\ DOMAIN body = Slot
  /\ DOMAIN newSpec = Slot /\ DOMAIN reply = Slot
  /\ specLock \in RWMutex

\* The places from which a handler sees the spec under specLock.
Inside == {"body", "latest", "write", "replace"}

\* It holds specLock there, and while it writes an answer, unless that is a 401.
Covered(s) == pc[s] \in Inside \/ (pc[s] = "reply" /\ reply[s].code # 401)

\* The writer of specLock is a handler that asked for it, and once that has
\* gone on from there, no reader is in.  specLock is held all the way.
Locks(s) ==
  /\ specLock.writer = s =>
       /\ pc[s] \notin {"idle", "ask"}
       /\ req[s].kind \in WritesSpec
       /\ pc[s] # "check" => specLock.readers = {}
  /\ Covered(s) => HasSpecLock(s)
  /\ pc[s] = "replace" => req[s].kind \in {"patch", "update"}

\* What a handler found out before it came to write is still so.
Verifies(s) ==
  pc[s] \in {"check"} \cup Inside /\ req[s].kind # "update" =>
    Server!VerifyIdentity(req[s].tok, req[s].net, req[s].dev)

Finds(s) ==
  pc[s] \in Inside /\ req[s].kind # "update" =>
    Known(spec, req[s].net, req[s].dev)

HasPatched(s) ==
  pc[s] \in {"latest", "write", "replace"} /\ req[s].kind = "patch" =>
    /\ body[s] \in PatchBody
    /\ Server!PatchValid(req[s].net, body[s])
    /\ newSpec[s] = Server!Patched(req[s].net, req[s].dev, body[s])

HasCompared(s) ==
  pc[s] \in {"latest", "write"} /\ req[s].kind = "post" =>
    /\ body[s] \in PostBody
    /\ Server!ReportIsCurrent(req[s].net, req[s].dev, body[s])

HasConfig(s) ==
  pc[s] \in {"latest", "write", "replace"} /\ req[s].kind = "update" =>
    newSpec[s] \in Configs

Knows(s) == Verifies(s) /\ Finds(s) /\ HasPatched(s) /\ HasCompared(s) /\ HasConfig(s)

Inv == Shapes /\ \A s \in Slot : Locks(s) /\ Knows(s)

-----------------------------------------------------------------------------
(* What the invariant says about the locks *)

\* With a handler that writes inside, nobody else is.
LEMMA OneInside ==
  ASSUME NEW s \in Slot, NEW t \in Slot, Locks(s), Locks(t),
         Covered(s), req[s].kind \in WritesSpec, Covered(t)
  PROVE  s = t
BY DEF Locks, HasSpecLock, Holds, Locked, RLocked

\* While a handler that writes is before its last step, nobody is replacing.
LEMMA NobodyReplaces ==
  ASSUME Inv, NEW s \in Slot,
         Covered(s), pc[s] # "replace", req[s].kind \in WritesSpec
  PROVE  Replacing = {}
<1> SUFFICES ASSUME NEW t \in Slot, pc[t] = "replace" PROVE FALSE
  BY DEF Replacing
<1>1. Locks(s) /\ Locks(t)
  BY DEF Inv
<1>2. req[t].kind \in WritesSpec
  BY <1>1 DEF Locks, WritesSpec
<1>3. t = s
  BY <1>1, <1>2, OneInside DEF Covered, Inside
<1> QED
  BY <1>3

\* The spec that is seen changes only with who replaces it, or by what.
LEMMA SeenSame ==
  ASSUME spec' = spec,
         \A t \in Slot : pc'[t] = "replace" <=> pc[t] = "replace",
         \A t \in Slot : pc[t] = "replace" => newSpec'[t] = newSpec[t]
  PROVE  SpecSeen' = SpecSeen
<1>1. Replacing' = Replacing
  BY DEF Replacing
<1>2. CASE Replacing = {}
  BY <1>1, <1>2 DEF SpecSeen
<1>3. CASE Replacing # {}
  <2> DEFINE r == CHOOSE s \in Replacing : TRUE
  <2>1. r \in Replacing
    BY <1>3
  <2>2. newSpec'[r] = newSpec[r]
    BY <2>1 DEF Replacing
  <2> QED
    BY <1>1, <1>3, <2>2 DEF SpecSeen
<1> QED
  BY <1>2, <1>3

-----------------------------------------------------------------------------
(* The invariant is kept *)

\* A step that leaves the spec and what s is doing alone.
LEMMA KnowsFrame ==
  ASSUME NEW s \in Slot, Knows(s), spec' = spec, pc'[s] = pc[s], req'[s] = req[s],
         body'[s] = body[s], newSpec'[s] = newSpec[s]
  PROVE  Knows(s)'
<1>1. Verifies(s)'
  BY DEF Knows, Verifies, Server!VerifyIdentity
<1>2. Finds(s)'
  BY DEF Knows, Finds
<1>3. HasPatched(s)'
  <2>1. ASSUME NEW n, NEW d, NEW b
        PROVE  Server!Patched(n, d, b)' = Server!Patched(n, d, b)
    BY DEF Server!Patched
  <2>2. ASSUME NEW n, NEW b
        PROVE  Server!PatchValid(n, b)' <=> Server!PatchValid(n, b)
    BY DEF Server!PatchValid
  <2> QED
    BY <2>1, <2>2 DEF Knows, HasPatched
<1>4. HasCompared(s)' /\ HasConfig(s)'
  BY DEF Knows, HasCompared, HasConfig, Server!ReportIsCurrent
<1> QED
  BY <1>1, <1>2, <1>3, <1>4 DEF Knows

LEMMA LocksFrame ==
  ASSUME NEW s \in Slot, Locks(s), specLock' = specLock, pc'[s] = pc[s], req'[s] = req[s],
         reply'[s] = reply[s]
  PROVE  Locks(s)'
BY DEF Locks, Covered, HasSpecLock, Holds, Locked, RLocked

\* So it is with a step of handler s for every other handler, unless the step
\* is about specLock or replaces the spec.
LEMMA OthersFrame ==
  ASSUME Inv, NEW s \in Slot, Shapes', spec' = spec, specLock' = specLock,
         \A t \in Slot \ {s} : /\ pc'[t] = pc[t] /\ req'[t] = req[t]
                              /\ body'[t] = body[t] /\ newSpec'[t] = newSpec[t]
                              /\ reply'[t] = reply[t],
         Locks(s)', Knows(s)'
  PROVE  Inv'
<1>1. ASSUME NEW t \in Slot \ {s} PROVE Locks(t)' /\ Knows(t)'
  BY <1>1, KnowsFrame, LocksFrame DEF Inv
<1> QED
  BY <1>1 DEF Inv

\* Handler s, which holds specLock, goes on to l and changes its own only.
LEMMA Advance ==
  ASSUME Inv, NEW s \in Slot, NEW l,
         HasSpecLock(s), l \notin {"idle", "ask"},
         l = "replace" => req[s].kind \in {"patch", "update"},
         spec' = spec, specLock' = specLock, req' = req, Goto(s, l),
         DOMAIN body' = Slot, DOMAIN newSpec' = Slot, DOMAIN reply' = Slot,
         \A t \in Slot \ {s} : /\ body'[t] = body[t] /\ newSpec'[t] = newSpec[t]
                              /\ reply'[t] = reply[t],
         Knows(s)'
  PROVE  Inv'
<1>1. DOMAIN pc' = Slot /\ pc'[s] = l /\ \A t \in Slot \ {s} : pc'[t] = pc[t]
  BY DEF Inv, Shapes, Goto
<1>2. Shapes'
  BY <1>1 DEF Inv, Shapes
<1>3. Locks(s)'
  <2>1. specLock.writer = s => req[s].kind \in WritesSpec
    BY DEF Inv, Locks
  <2>2. HasSpecLock(s)'
    BY DEF HasSpecLock, Holds, Locked, RLocked
  <2> QED
    BY <1>1, <2>1, <2>2 DEF Locks, Covered, HasSpecLock, Holds, Locked
<1> QED
  BY <1>1, <1>2, <1>3, OthersFrame

\* A handler that answers needs to know nothing more.
LEMMA AnswerKnowsNothing ==
  ASSUME NEW s \in Slot, pc'[s] \in {"idle", "ask", "reply"}
  PROVE  Knows(s)'
BY DEF Knows, Verifies, Finds, HasPatched, HasCompared, HasConfig, Inside

LEMMA ReceiveInv ==
  ASSUME Inv, NEW s \in Slot, NEW r, Receive(s, r)
  PROVE  Inv'
<1>1. DOMAIN pc' = Slot /\ pc'[s] = "ask" /\ \A t \in Slot \ {s} : pc'[t] = pc[t]
  BY DEF Inv, Shapes, Receive, Goto
<1>2. Shapes' /\ \A t \in Slot \ {s} : req'[t] = req[t]
  BY <1>1 DEF Inv, Shapes, Receive
<1>3. Locks(s)'
  BY <1>1 DEF Inv, Locks, Receive, Covered, Inside
<1>4. Knows(s)'
  BY <1>1, AnswerKnowsNothing
<1> QED
  BY <1>1, <1>2, <1>3, <1>4, OthersFrame DEF Receive, serverVars

LEMMA RefuseInv ==
  ASSUME Inv, NEW s \in Slot, Refuse(s)
  PROVE  Inv'
<1>1. DOMAIN pc' = Slot /\ pc'[s] = "reply" /\ \A t \in Slot \ {s} : pc'[t] = pc[t]
  BY DEF Inv, Shapes, Refuse, AnswerWith, Goto
<1>2. /\ Shapes' /\ reply'[s].code = 401
      /\ \A t \in Slot \ {s} : reply'[t] = reply[t]
  BY <1>1 DEF Inv, Shapes, Refuse, AnswerWith, Answer
<1>3. Locks(s)'
  BY <1>1, <1>2 DEF Inv, Locks, Refuse, Covered, Inside
<1>4. Knows(s)'
  BY <1>1, AnswerKnowsNothing
<1> QED
  BY <1>1, <1>2, <1>3, <1>4, OthersFrame DEF Refuse, serverVars

\* specLock is asked for: whoever holds it, holds it still.
LEMMA AskSpecLockInv ==
  ASSUME Inv, NEW s \in Slot, AskSpecLock(s)
  PROVE  Inv'
<1>1. /\ DOMAIN pc' = Slot /\ pc[s] = "ask" /\ pc'[s] = "check"
      /\ \A t \in Slot \ {s} : pc'[t] = pc[t]
  BY DEF Inv, Shapes, AskSpecLock, Goto
<1>2. /\ spec' = spec /\ req' = req /\ body' = body /\ newSpec' = newSpec
      /\ reply' = reply
  BY DEF AskSpecLock, serverVars
<1>3. specLock \in RWMutex /\ s # Nobody
  BY HandlersAssumption DEF Inv, Shapes
<1>4. \/ /\ req[s].kind \in WritesSpec /\ specLock.writer = Nobody
         /\ specLock' = [specLock EXCEPT !.writer = s]
      \/ /\ req[s].kind \notin WritesSpec /\ specLock.writer = Nobody
         /\ specLock' = [specLock EXCEPT !.readers = @ \cup {s}]
      \/ /\ req[s].kind \notin WritesSpec /\ specLock.writer # Nobody
         /\ specLock' = [specLock EXCEPT !.kept = @ \cup {s}]
  BY DEF AskSpecLock, Take, CanLock, Lock, RLock
<1>5. specLock' \in RWMutex
  BY <1>3, <1>4 DEF RWMutex
<1>6. Shapes'
  BY <1>1, <1>5 DEF Inv, Shapes, AskSpecLock
<1>7. ASSUME NEW t \in Slot \ {s} PROVE Locks(t)' /\ Knows(t)'
  <2>1. Knows(t)'
    BY <1>1, <1>2, KnowsFrame DEF Inv
  <2>2. Locks(t) /\ t # Nobody
    BY HandlersAssumption DEF Inv
  <2>3. Locks(t)'
    BY <1>1, <1>2, <1>3, <1>4, <2>2
       DEF Locks, Covered, HasSpecLock, Holds, Locked, RLocked, RWMutex
  <2> QED
    BY <2>1, <2>3
<1>8. Locks(s)'
  <2>1. specLock.writer # s
    BY <1>1 DEF Inv, Locks
  <2> QED
    BY <1>1, <1>2, <1>3, <1>4, <2>1 DEF Locks, Covered, RWMutex, Inside
<1>9. Knows(s)'
  BY <1>1, <1>2 DEF AskSpecLock, Verified, Knows, Verifies, Finds, HasPatched,
                    HasCompared, HasConfig, Inside, Server!VerifyIdentity
<1> QED
  BY <1>6, <1>7, <1>8, <1>9 DEF Inv

\* specLock is given back: a waiting writer is no longer kept out, waiting
\* readers come in, and whoever else holds it holds it still.
LEMMA ReturnInv ==
  ASSUME Inv, NEW s \in Slot, Return(s)
  PROVE  Inv'
<1>1. /\ pc[s] = "reply" /\ pc'[s] = "idle"
      /\ \A t \in Slot \ {s} : /\ pc'[t] = pc[t] /\ req'[t] = req[t]
                              /\ body'[t] = body[t] /\ newSpec'[t] = newSpec[t]
                              /\ reply'[t] = reply[t]
  BY DEF Inv, Shapes, Return, Forget, Goto
<1>2. specLock \in RWMutex /\ s # Nobody
  BY HandlersAssumption DEF Inv, Shapes
<1>3. \/ /\ specLock.writer = s /\ specLock.readers = {}
         /\ specLock' = [writer |-> Nobody, readers |-> specLock.kept, kept |-> {}]
      \/ /\ specLock.writer # s /\ s \in specLock.readers
         /\ specLock' = [specLock EXCEPT !.readers = @ \ {s}]
      \/ specLock.writer # s /\ s \notin specLock.readers /\ specLock' = specLock
  <2>1. specLock.writer = s => specLock.readers = {}
    BY <1>1 DEF Inv, Locks
  <2>2. Release(specLock, s)
    BY DEF Return
  <2> QED
    BY <2>1, <2>2 DEF Release, Unlock, RUnlock
<1>4. specLock' \in RWMutex
  BY <1>2, <1>3 DEF RWMutex
<1>5. Shapes'
  BY <1>4 DEF Inv, Shapes, Return, Forget, Goto
<1>6. ASSUME NEW t \in Slot \ {s} PROVE Locks(t)' /\ Knows(t)'
  <2>1. Knows(t)'
    BY <1>1, KnowsFrame DEF Inv, Return, serverVars
  <2>2. Locks(t) /\ t # Nobody
    BY HandlersAssumption DEF Inv
  <2>3. CASE specLock.writer = s
    <3>1. ~Covered(t)
      BY <1>3, <2>2, <2>3 DEF Locks, HasSpecLock, Holds, Locked, RLocked
    <3>2. specLock'.writer = Nobody
      BY <1>3, <2>3
    <3> QED
      BY <1>1, <2>1, <2>2, <3>1, <3>2 DEF Locks, Covered, Inside
  <2>4. CASE specLock.writer # s
    <3>1. specLock'.writer = specLock.writer
      BY <1>2, <1>3, <2>4 DEF RWMutex
    <3>2. specLock'.readers \in {specLock.readers, specLock.readers \ {s}}
      BY <1>2, <1>3, <2>4 DEF RWMutex
    <3>3. Covered(t)' => HasSpecLock(t)'
      BY <1>1, <2>2, <3>1, <3>2 DEF Locks, Covered, HasSpecLock, Holds, Locked, RLocked
    <3> QED
      BY <1>1, <2>1, <2>2, <3>1, <3>2, <3>3 DEF Locks
  <2> QED
    BY <2>3, <2>4
<1>7. Locks(s)'
  BY <1>1, <1>2, <1>3 DEF Locks, Covered, RWMutex, Inside
<1>8. Knows(s)'
  BY <1>1, AnswerKnowsNothing
<1> QED
  BY <1>5, <1>6, <1>7, <1>8 DEF Inv

\* The spec is replaced: nobody else was about to rely on the old one.
LEMMA ReplaceSpecInv ==
  ASSUME Inv, NEW s \in Slot, ReplaceSpec(s)
  PROVE  Inv'
<1>1. /\ pc[s] = "replace" /\ pc'[s] = "reply" /\ DOMAIN pc' = Slot
      /\ \A t \in Slot \ {s} : pc'[t] = pc[t]
  BY DEF Inv, Shapes, ReplaceSpec, AnswerWith, Goto
<1>2. specLock' = specLock /\ req' = req /\ body' = body /\ newSpec' = newSpec
  BY DEF ReplaceSpec
<1>3. Shapes' /\ \A t \in Slot \ {s} : reply'[t] = reply[t]
  BY <1>1, <1>2 DEF Inv, Shapes, ReplaceSpec, AnswerWith
<1>4. ASSUME NEW t \in Slot \ {s} PROVE Locks(t)' /\ Knows(t)'
  <2>1. Locks(t)'
    BY <1>1, <1>2, <1>3, LocksFrame DEF Inv
  <2>2. pc[t] \notin Inside
    BY <1>1, OneInside DEF Inv, Locks, Covered, Inside, WritesSpec
  <2>4. Verifies(t)'
    BY <1>1, <1>2 DEF Inv, Knows, Verifies, Server!VerifyIdentity
  <2>5. Finds(t)' /\ HasPatched(t)' /\ HasCompared(t)' /\ HasConfig(t)'
    BY <1>1, <1>2, <2>2 DEF Finds, HasPatched, HasCompared, HasConfig, Inside
  <2> QED
    BY <2>1, <2>4, <2>5 DEF Knows
<1>5. Locks(s)'
  <2>1. Locks(s)
    BY DEF Inv
  <2> QED
    BY <1>1, <1>2, <2>1 DEF Locks, Covered, HasSpecLock, Holds, Locked, Inside
<1>6. Knows(s)'
  BY <1>1, AnswerKnowsNothing
<1> QED
  BY <1>3, <1>4, <1>5, <1>6 DEF Inv

\* A handler that goes on from the places under specLock holds it.
LEMMA InsideHolds ==
  ASSUME Inv, NEW s \in Slot, pc[s] \in Inside
  PROVE  HasSpecLock(s)
BY DEF Inv, Locks, Covered

\* All the steps after which s has its answer and no lock has changed.
LEMMA AnswerInv ==
  ASSUME Inv, NEW s \in Slot, NEW answer, HasSpecLock(s), AnswerWith(s, answer),
         UNCHANGED <<spec, specLock, req, body, newSpec>>
  PROVE  Inv'
<1>1. pc'[s] = "reply"
  BY DEF Inv, Shapes, AnswerWith, Goto
<1>2. Knows(s)'
  BY <1>1, AnswerKnowsNothing
<1>3. /\ DOMAIN body' = Slot /\ DOMAIN newSpec' = Slot /\ DOMAIN reply' = Slot
      /\ \A t \in Slot \ {s} : reply'[t] = reply[t]
  BY DEF Inv, Shapes, AnswerWith
<1> QED
  BY <1>2, <1>3, Advance DEF AnswerWith

LEMMA NotFoundInv ==
  ASSUME Inv, NEW s \in Slot, NotFound(s)
  PROVE  Inv'
BY AnswerInv DEF NotFound, serverVars

LEMMA CheckInv ==
  ASSUME Inv, NEW s \in Slot, Check(s)
  PROVE  Inv'
<1>1. CASE req[s].kind = "spec"
  <2>1. AnswerWith(s, Answer(200, Server!GetReifySpec(req[s].net, req[s].dev)))
    BY <1>1 DEF Check
  <2> QED
    BY <2>1, AnswerInv DEF Check, serverVars
<1>2. CASE req[s].kind # "spec"
  <2>1. PICK l \in {"latest", "body"} :
          Goto(s, l) /\ (l = "latest" <=> req[s].kind = "latest")
    BY <1>2 DEF Check
  <2>2. pc'[s] = l
    BY <2>1 DEF Inv, Shapes, Goto
  <2>3. Knows(s)'
    <3>1. Verifies(s)'
      BY <2>2 DEF Inv, Check, Knows, Verifies, Server!VerifyIdentity
    <3>2. Finds(s)'
      BY <2>2 DEF Check, Found, Finds, serverVars
    <3>3. HasPatched(s)' /\ HasCompared(s)' /\ HasConfig(s)'
      BY <2>1, <2>2 DEF Check, HasPatched, HasCompared, HasConfig
    <3> QED
      BY <3>1, <3>2, <3>3 DEF Knows
  <2>4. UNCHANGED <<spec, specLock, req, body, newSpec, reply>>
    BY <1>2 DEF Check, serverVars
  <2> QED
    BY <2>1, <2>3, <2>4, Advance DEF Check, Inv, Shapes
<1> QED
  BY <1>1, <1>2

LEMMA BeginUpdateInv ==
  ASSUME Inv, NEW s \in Slot, BeginUpdate(s)
  PROVE  Inv'
<1>1. pc'[s] = "latest"
  BY DEF Inv, Shapes, BeginUpdate, Goto
<1>2. /\ DOMAIN newSpec' = Slot /\ \A t \in Slot \ {s} : newSpec'[t] = newSpec[t]
      /\ newSpec'[s] \in Configs
  BY DEF Inv, Shapes, BeginUpdate
<1>3. Knows(s)'
  BY <1>1, <1>2
     DEF BeginUpdate, Knows, Verifies, Finds, HasPatched, HasCompared, HasConfig
<1> QED
  BY <1>2, <1>3, Advance DEF BeginUpdate, serverVars, Inv, Shapes

LEMMA BadBodyInv ==
  ASSUME Inv, NEW s \in Slot, BadBody(s)
  PROVE  Inv'
BY AnswerInv, InsideHolds DEF BadBody, serverVars, Inside

\* The clone that a PATCH makes of the spec is its patched form.
LEMMA ReadPatchInv ==
  ASSUME Inv, NEW s \in Slot, ReadPatch(s)
  PROVE  Inv'
<1>1. PICK b \in PatchBody :
        IF Server!PatchValid(req[s].net, b)
        THEN /\ body' = [body EXCEPT ![s] = b]
             /\ newSpec' = [newSpec EXCEPT ![s] = Server!Patched(req[s].net, req[s].dev, b)]
             /\ Goto(s, "latest")
             /\ UNCHANGED reply
        ELSE AnswerWith(s, Answer(400, None)) /\ UNCHANGED <<body, newSpec>>
  BY DEF ReadPatch
<1>2. /\ HasSpecLock(s) /\ pc[s] = "body" /\ req[s].kind = "patch"
      /\ UNCHANGED <<spec, specLock, req>>
  BY InsideHolds DEF ReadPatch, Inside, serverVars
<1>3. CASE ~Server!PatchValid(req[s].net, b)
  BY <1>1, <1>2, <1>3, AnswerInv
<1>4. CASE Server!PatchValid(req[s].net, b)
  <2>1. /\ pc'[s] = "latest" /\ body'[s] = b
        /\ newSpec'[s] = Server!Patched(req[s].net, req[s].dev, b)
    BY <1>1, <1>4 DEF Inv, Shapes, Goto
  <2>2. HasPatched(s)'
    <3>1. Server!PatchValid(req[s].net, body[s])'
      BY <1>2, <1>4, <2>1 DEF Server!PatchValid
    <3>2. Server!Patched(req[s].net, req[s].dev, body[s])'
            = Server!Patched(req[s].net, req[s].dev, b)
      BY <1>2, <2>1 DEF Server!Patched
    <3> QED
      BY <2>1, <3>1, <3>2 DEF HasPatched
  <2>3. Verifies(s)'
    BY <1>2, <2>1 DEF Inv, Knows, Verifies, Inside, Server!VerifyIdentity
  <2>4. Finds(s)' /\ HasCompared(s)' /\ HasConfig(s)'
    BY <1>2, <2>1 DEF Inv, Knows, Finds, Inside, HasCompared, HasConfig
  <2>5. /\ DOMAIN body' = Slot /\ DOMAIN newSpec' = Slot /\ DOMAIN reply' = Slot
        /\ \A t \in Slot \ {s} : /\ body'[t] = body[t] /\ newSpec'[t] = newSpec[t]
                                /\ reply'[t] = reply[t]
    BY <1>1, <1>4 DEF Inv, Shapes
  <2>6. Goto(s, "latest")
    BY <1>1, <1>4
  <2> QED
    BY <1>2, <2>2, <2>3, <2>4, <2>5, <2>6, Advance DEF Knows
<1> QED
  BY <1>3, <1>4

\* What reading the body of a POST does.
LEMMA ReadPostStep ==
  ASSUME NEW s \in Slot, ReadPost(s)
  PROVE  \E b \in PostBody, written \in {None, Answer(400, None)} :
           /\ body' = [body EXCEPT ![s] = b]
           /\ IF Server!ReportIsCurrent(req[s].net, req[s].dev, b)
              THEN reply' = [reply EXCEPT ![s] = written] /\ Goto(s, "latest")
              ELSE AnswerWith(s, Sent(written, Answer(200, FALSE)))
BY DEF ReadPost

LEMMA ReadPostInv ==
  ASSUME Inv, NEW s \in Slot, ReadPost(s)
  PROVE  Inv'
<1>1. PICK b \in PostBody, written \in {None, Answer(400, None)} :
        /\ body' = [body EXCEPT ![s] = b]
        /\ IF Server!ReportIsCurrent(req[s].net, req[s].dev, b)
           THEN reply' = [reply EXCEPT ![s] = written] /\ Goto(s, "latest")
           ELSE AnswerWith(s, Sent(written, Answer(200, FALSE)))
  BY ReadPostStep
<1>2. /\ HasSpecLock(s) /\ pc[s] = "body" /\ req[s].kind = "post"
      /\ UNCHANGED <<spec, specLock, req, newSpec>>
  BY InsideHolds DEF ReadPost, Inside, serverVars
<1>3. /\ DOMAIN body' = Slot /\ DOMAIN newSpec' = Slot /\ DOMAIN reply' = Slot
      /\ body'[s] = b
      /\ \A t \in Slot \ {s} : /\ body'[t] = body[t] /\ newSpec'[t] = newSpec[t]
                              /\ reply'[t] = reply[t]
  BY <1>1, <1>2 DEF Inv, Shapes, AnswerWith
<1>4. CASE ~Server!ReportIsCurrent(req[s].net, req[s].dev, b)
  <2>1. Goto(s, "reply")
    BY <1>1, <1>4 DEF AnswerWith
  <2>2. Knows(s)'
    BY <2>1, AnswerKnowsNothing DEF Inv, Shapes, Goto
  <2> QED
    BY <1>2, <1>3, <2>1, <2>2, Advance
<1>5. CASE Server!ReportIsCurrent(req[s].net, req[s].dev, b)
  <2>1. Goto(s, "latest")
    BY <1>1, <1>5
  <2>2. pc'[s] = "latest"
    BY <2>1 DEF Inv, Shapes, Goto
  <2>3. HasCompared(s)' /\ HasConfig(s)'
    BY <1>2, <1>3, <1>5 DEF HasCompared, HasConfig, Server!ReportIsCurrent
  <2>4. Verifies(s)'
    BY <1>2, <2>2 DEF Inv, Knows, Verifies, Inside, Server!VerifyIdentity
  <2>5. Finds(s)' /\ HasPatched(s)'
    BY <1>2, <2>2 DEF Inv, Knows, Finds, Inside, HasPatched
  <2> QED
    BY <1>2, <1>3, <2>1, <2>3, <2>4, <2>5, Advance DEF Knows
<1> QED
  BY <1>4, <1>5

LEMMA AskLatestLockInv ==
  ASSUME Inv, NEW s \in Slot, AskLatestLock(s)
  PROVE  Inv'
<1>1. /\ HasSpecLock(s) /\ pc[s] = "latest" /\ Goto(s, "write")
      /\ UNCHANGED <<spec, specLock, req, body, newSpec, reply>>
  BY InsideHolds DEF AskLatestLock, Inside, serverVars
<1>2. pc'[s] = "write"
  BY <1>1 DEF Inv, Shapes, Goto
<1>3. Verifies(s)'
  BY <1>1, <1>2 DEF Inv, Knows, Verifies, Inside, Server!VerifyIdentity
<1>4. Finds(s)'
  BY <1>1, <1>2 DEF Inv, Knows, Finds, Inside
<1>5. HasPatched(s)'
  <2>1. ASSUME NEW n, NEW d, NEW b
        PROVE  /\ Server!Patched(n, d, b)' = Server!Patched(n, d, b)
               /\ Server!PatchValid(n, b)' <=> Server!PatchValid(n, b)
    BY <1>1 DEF Server!Patched, Server!PatchValid
  <2> QED
    BY <1>1, <1>2, <2>1 DEF Inv, Knows, HasPatched
<1>6. HasCompared(s)' /\ HasConfig(s)'
  BY <1>1, <1>2 DEF Inv, Knows, HasCompared, HasConfig, Server!ReportIsCurrent
<1> QED
  BY <1>1, <1>3, <1>4, <1>5, <1>6, Advance DEF Inv, Shapes, Knows

LEMMA ReadLatestInv ==
  ASSUME Inv, NEW s \in Slot, ReadLatest(s)
  PROVE  Inv'
BY AnswerInv, InsideHolds DEF ReadLatest, serverVars, Inside

LEMMA AppendLatestInv ==
  ASSUME Inv, NEW s \in Slot, AppendLatest(s)
  PROVE  Inv'
BY AnswerInv, InsideHolds DEF AppendLatest, Inside

LEMMA UpdateLatestInv ==
  ASSUME Inv, NEW s \in Slot, UpdateLatest(s)
  PROVE  Inv'
<1>1. /\ HasSpecLock(s) /\ pc[s] = "write" /\ Goto(s, "replace")
      /\ req[s].kind \in {"patch", "update"}
      /\ UNCHANGED <<spec, specLock, req, body, newSpec, reply>>
  BY InsideHolds DEF UpdateLatest, Inside
<1>2. pc'[s] = "replace"
  BY <1>1 DEF Inv, Shapes, Goto
<1>3. Knows(s)'
  <2>1. Verifies(s)'
    BY <1>1, <1>2 DEF Inv, Knows, Verifies, Inside, Server!VerifyIdentity
  <2>2. Finds(s)' /\ HasCompared(s)' /\ HasConfig(s)'
    BY <1>1, <1>2 DEF Inv, Knows, Finds, Inside, HasCompared, HasConfig
  <2>3. HasPatched(s)'
    <3>1. ASSUME NEW n, NEW d, NEW b
          PROVE  /\ Server!Patched(n, d, b)' = Server!Patched(n, d, b)
                 /\ Server!PatchValid(n, b)' <=> Server!PatchValid(n, b)
      BY <1>1 DEF Server!Patched, Server!PatchValid
    <3> QED
      BY <1>1, <1>2, <3>1 DEF Inv, Knows, HasPatched
  <2> QED
    BY <2>1, <2>2, <2>3 DEF Knows
<1> QED
  BY <1>1, <1>3, Advance DEF Inv, Shapes

LEMMA InitInv == Init => Inv
<1> SUFFICES ASSUME Init PROVE Inv
  OBVIOUS
<1>1. specLock \in RWMutex
  BY DEF Init, Unlocked, RWMutex
<1>2. Shapes
  BY <1>1 DEF Init, Shapes
<1>3. ASSUME NEW s \in Slot PROVE Locks(s) /\ Knows(s)
  BY HandlersAssumption
     DEF Init, Unlocked, Locks, Covered, Inside, Knows, Verifies, Finds, HasPatched,
         HasCompared, HasConfig
<1> QED
  BY <1>2, <1>3 DEF Inv

LEMMA RestartInv ==
  ASSUME NEW config, Restart(config)
  PROVE  Inv'
<1>1. specLock' \in RWMutex
  BY DEF Restart, Unlocked, RWMutex
<1>2. Shapes'
  BY <1>1 DEF Restart, Shapes
<1>3. ASSUME NEW s \in Slot PROVE Locks(s)' /\ Knows(s)'
  <2>1. pc'[s] = "idle" /\ specLock'.writer = Nobody
    BY DEF Restart, Unlocked
  <2>2. Locks(s)'
    BY <2>1, HandlersAssumption DEF Locks, Covered, Inside
  <2> QED
    BY <2>1, <2>2, AnswerKnowsNothing
<1> QED
  BY <1>2, <1>3 DEF Inv

LEMMA StutterInv ==
  ASSUME Inv, UNCHANGED vars
  PROVE  Inv'
<1>1. Shapes'
  BY DEF Inv, Shapes, vars
<1>2. ASSUME NEW s \in Slot PROVE Locks(s)' /\ Knows(s)'
  BY KnowsFrame, LocksFrame DEF Inv, vars
<1> QED
  BY <1>1, <1>2 DEF Inv

LEMMA NextInv == Inv /\ [Next]_vars => Inv'
<1> SUFFICES ASSUME Inv, [Next]_vars PROVE Inv'
  OBVIOUS
<1>1. ASSUME NEW s \in Slot, Handle(s) PROVE Inv'
  BY <1>1, RefuseInv, AskSpecLockInv, NotFoundInv, CheckInv, BeginUpdateInv, BadBodyInv,
     ReadPatchInv, ReadPostInv, AskLatestLockInv, ReadLatestInv, AppendLatestInv,
     UpdateLatestInv, ReplaceSpecInv, ReturnInv DEF Handle
<1>2. ASSUME NEW s \in Slot, NEW r \in Requests[s], Receive(s, r) PROVE Inv'
  BY <1>2, ReceiveInv
<1>3. ASSUME NEW config \in Configs, Restart(config) PROVE Inv'
  BY <1>3, RestartInv
<1>4. CASE UNCHANGED vars
  BY <1>4, StutterInv
<1> QED
  BY <1>1, <1>2, <1>3, <1>4 DEF Next

-----------------------------------------------------------------------------
(* Every step is a step of CoordServer, or none *)

Nothing == UNCHANGED <<SpecSeen, latest, accepted, boot>>

\* The operators of the two instances of CoordServer are the same ones.
LEMMA SameComparison ==
  ASSUME NEW x, NEW y
  PROVE  Seen!NetworkCensoredEqual(x, y) <=> Server!NetworkCensoredEqual(x, y)
BY DEF Seen!NetworkCensoredEqual, Server!NetworkCensoredEqual,
       Seen!DeviceEqual, Server!DeviceEqual

LEMMA SameView ==
  ASSUME NEW x, NEW n, NEW d
  PROVE  Seen!CensorForDevice(x, n, d) = Server!CensorForDevice(x, n, d)
BY DEF Seen!CensorForDevice, Server!CensorForDevice, Seen!Visible, Server!Visible,
       Seen!Censored, Server!Censored

LEMMA SamePatched ==
  ASSUME SpecSeen = spec, NEW n, NEW d, NEW b
  PROVE  Seen!Patched(n, d, b) = Server!Patched(n, d, b)
<1>1. Seen!Clone(spec) = Server!Clone(spec)
  BY DEF Seen!Clone, Server!Clone, Seen!CloneDevice, Server!CloneDevice
<1> QED
  BY <1>1 DEF Seen!Patched, Server!Patched

LEMMA SameKept ==
  ASSUME SpecSeen = spec, NEW new
  PROVE  Seen!Kept(new) = Server!Kept(new)
<1>1. ASSUME NEW n PROVE Seen!Keep(new, n) = Server!Keep(new, n)
  BY SameComparison, SameView DEF Seen!Keep, Server!Keep
<1>2. ASSUME NEW k, NEW m PROVE Seen!SliceUnion(k, m) = Server!SliceUnion(k, m)
  BY DEF Seen!SliceUnion, Server!SliceUnion
<1>3. Seen!NoMarks = Server!NoMarks
  BY DEF Seen!NoMarks, Server!NoMarks
<1> QED
  BY <1>1, <1>2, <1>3 DEF Seen!Kept, Server!Kept

\* Whatever else a handler does shows to nobody.
LEMMA OtherSteps ==
  ASSUME Inv, NEW s \in Slot,
         Handle(s), ~AppendLatest(s), ~UpdateLatest(s), ~ReplaceSpec(s)
  PROVE  Nothing
<1>1. UNCHANGED <<spec, latest, accepted, boot>>
  BY DEF Handle, Refuse, AskSpecLock, NotFound, Check, BeginUpdate, BadBody, ReadPatch,
         ReadPost, AskLatestLock, ReadLatest, Return, serverVars
<1>2. pc[s] # "replace" /\ pc'[s] # "replace"
  BY DEF Inv, Shapes, Handle, Refuse, AskSpecLock, NotFound, Check, BeginUpdate, BadBody,
         ReadPatch, ReadPost, AskLatestLock, ReadLatest, Return, AnswerWith, Goto
<1>3. ASSUME NEW t \in Slot \ {s} PROVE pc'[t] = pc[t] /\ newSpec'[t] = newSpec[t]
  BY DEF Inv, Shapes, Handle, Refuse, AskSpecLock, NotFound, Check, BeginUpdate, BadBody,
         ReadPatch, ReadPost, AskLatestLock, ReadLatest, Return, AnswerWith, Goto, Forget
<1>4. SpecSeen' = SpecSeen
  BY <1>1, <1>2, <1>3, SeenSame
<1> QED
  BY <1>1, <1>4 DEF Nothing

LEMMA ReceiveStep ==
  ASSUME Inv, NEW s \in Slot, NEW r, Receive(s, r)
  PROVE  Nothing
<1>1. UNCHANGED <<spec, latest, accepted, boot, newSpec>>
  BY DEF Receive, serverVars
<1>2. pc[s] # "replace" /\ pc'[s] # "replace" /\ \A t \in Slot \ {s} : pc'[t] = pc[t]
  BY DEF Inv, Shapes, Receive, Goto
<1>3. SpecSeen' = SpecSeen
  BY <1>1, <1>2, SeenSame
<1> QED
  BY <1>1, <1>3 DEF Nothing

\* The last line of updateSpecNoLock: what was seen becomes what is.
LEMMA ReplaceStep ==
  ASSUME Inv, NEW s \in Slot, ReplaceSpec(s)
  PROVE  Nothing
<1>1. pc[s] = "replace" /\ pc'[s] = "reply" /\ \A t \in Slot \ {s} : pc'[t] = pc[t]
  BY DEF Inv, Shapes, ReplaceSpec, AnswerWith, Goto
<1>2. Replacing = {s}
  <2>1. ASSUME NEW t \in Slot, pc[t] = "replace" PROVE t = s
    BY <1>1, <2>1, OneInside DEF Inv, Locks, Covered, Inside, WritesSpec
  <2> QED
    BY <1>1, <2>1 DEF Replacing
<1>3. Replacing' = {}
  BY <1>1, <1>2 DEF Replacing
<1>4. SpecSeen = newSpec[s]
  BY <1>2 DEF SpecSeen
<1>5. SpecSeen' = newSpec[s]
  BY <1>3 DEF SpecSeen, ReplaceSpec
<1> QED
  BY <1>4, <1>5 DEF ReplaceSpec, Nothing

\* Accepting a report is PostReifyStatus.
LEMMA AppendStep ==
  ASSUME Inv, NEW s \in Slot, AppendLatest(s)
  PROVE  Effect(s)
<1> DEFINE n == req[s].net  d == req[s].dev  t == req[s].tok
<1>1. pc[s] = "write" /\ req[s].kind = "post" /\ pc'[s] = "reply"
  BY DEF Inv, Shapes, AppendLatest, AnswerWith, Goto
<1>2. SpecSeen = spec
  BY <1>1, NobodyReplaces DEF SpecSeen, Covered, Inside, WritesSpec
<1>3. SpecSeen' = SpecSeen
  <2>1. \A u \in Slot \ {s} : pc'[u] = pc[u]
    BY DEF Inv, Shapes, AppendLatest, AnswerWith, Goto
  <2> QED
    BY <1>1, <2>1, SeenSame DEF AppendLatest
<1>4. Seen!Admitted(t, n, d)
  BY <1>1, <1>2 DEF Inv, Knows, Verifies, Finds, Inside, Known,
     Seen!Admitted, Seen!VerifyIdentity, Seen!Known, Server!VerifyIdentity
<1>5. Seen!ReportIsCurrent(n, d, body[s])
  <2>1. Server!ReportIsCurrent(n, d, body[s])
    BY <1>1 DEF Inv, Knows, HasCompared, HasConfig
  <2> QED
    BY <1>2, <2>1, SameComparison, SameView DEF Seen!ReportIsCurrent, Server!ReportIsCurrent
<1>6. /\ latest' = [latest EXCEPT ![n][d] = IF @ < MaxMarks THEN @ + 1 ELSE @]
      /\ accepted' = [accepted EXCEPT ![<<n, d>>] = body[s]]
      /\ boot' = boot
  BY DEF AppendLatest
<1>7. Seen!PostReifyStatus(t, n, d, body[s])
  BY <1>3, <1>4, <1>5, <1>6 DEF Seen!PostReifyStatus
<1> QED
  BY <1>1, <1>7 DEF Effect

\* The change of latest is PatchReifySpec, or UpdateSpec.
LEMMA UpdateStep ==
  ASSUME Inv, NEW s \in Slot, UpdateLatest(s)
  PROVE  Effect(s)
<1> DEFINE n == req[s].net  d == req[s].dev  t == req[s].tok
<1>1. /\ pc[s] = "write" /\ req[s].kind \in {"patch", "update"}
      /\ pc'[s] = "replace" /\ \A u \in Slot \ {s} : pc'[u] = pc[u]
      /\ newSpec' = newSpec
  BY DEF Inv, Shapes, UpdateLatest, Goto
<1>2. Replacing = {}
  BY <1>1, NobodyReplaces DEF Covered, Inside, WritesSpec
<1>3. SpecSeen = spec
  BY <1>2 DEF SpecSeen
<1>4. SpecSeen' = newSpec[s]
  <2>1. Replacing' = {s}
    BY <1>1, <1>2 DEF Replacing
  <2> QED
    BY <1>1, <2>1 DEF SpecSeen
<1>5. Seen!UpdateSpecNoLock(newSpec[s])
  <2>1. latest' = Seen!Kept(newSpec[s])
    BY <1>3, SameKept DEF UpdateLatest
  <2>2. accepted' = Seen!StillAccepted
    BY DEF UpdateLatest, Seen!StillAccepted, Server!StillAccepted,
           Seen!Identity, Server!Identity
  <2> QED
    BY <1>4, <2>1, <2>2 DEF UpdateLatest, Seen!UpdateSpecNoLock
<1>6. CASE req[s].kind = "update"
  BY <1>1, <1>5, <1>6 DEF Effect, Seen!UpdateSpec
<1>7. CASE req[s].kind = "patch"
  <2>1. Seen!Admitted(t, n, d)
    BY <1>1, <1>3, <1>7 DEF Inv, Knows, Verifies, Finds, Inside, Known,
       Seen!Admitted, Seen!VerifyIdentity, Seen!Known, Server!VerifyIdentity
  <2>2. Seen!PatchValid(n, body[s]) /\ newSpec[s] = Seen!Patched(n, d, body[s])
    <3>1. Server!PatchValid(n, body[s]) /\ newSpec[s] = Server!Patched(n, d, body[s])
      BY <1>1, <1>7 DEF Inv, Knows, HasPatched
    <3> QED
      BY <1>3, <3>1, SamePatched DEF Seen!PatchValid, Server!PatchValid
  <2>3. Seen!PatchReifySpec(t, n, d, body[s])
    BY <1>5, <2>1, <2>2 DEF Seen!PatchReifySpec
  <2> QED
    BY <1>1, <1>7, <2>3 DEF Effect
<1> QED
  BY <1>1, <1>6, <1>7

LEMMA RestartStep ==
  ASSUME Inv, NEW config, Restart(config)
  PROVE  Seen!Restart(config)
<1>1. SpecSeen' = config
  BY DEF Restart, Replacing, SpecSeen, Server!Restart
<1> QED
  BY <1>1 DEF Restart, Server!Restart, Seen!Restart, Seen!NoMarks, Server!NoMarks,
         Seen!Identity, Server!Identity

\* However many requests are in progress at once, and however they interleave,
\* the server changes as if each were handled in one step: specLock, taken
\* before the first look at the spec and held until the end, makes it so.
THEOREM HandlersLinearize == Spec => Linearizes
<1> DEFINE Step == \/ Nothing
                   \/ \E s \in Slot : Effect(s)
                   \/ \E config \in Configs : Seen!Restart(config)
<1>1. Inv /\ [Next]_vars => [Step]_vars
  <2> SUFFICES ASSUME Inv, Next PROVE Step
    OBVIOUS
  <2>1. ASSUME NEW s \in Slot, Handle(s) PROVE Step
    BY <2>1, OtherSteps, AppendStep, UpdateStep, ReplaceStep
  <2>2. ASSUME NEW s \in Slot, NEW r \in Requests[s], Receive(s, r) PROVE Step
    BY <2>2, ReceiveStep
  <2>3. ASSUME NEW config \in Configs, Restart(config) PROVE Step
    BY <2>3, RestartStep
  <2> QED
    BY <2>1, <2>2, <2>3 DEF Next
<1> QED
  BY <1>1, InitInv, NextInv, PTL DEF Spec, Linearizes, Nothing
-----------------------------------------------------------------------------
(* Types *)

\* What the slots hold, beyond what TypeOK says of them: there is no body before
\* one was read, and a new spec is one before it is stored.
SlotTypes(s) ==
  /\ IF pc[s] = "idle" THEN req[s] = None ELSE req[s] \in Requests[s]
  /\ \/ body[s] = None
     \/ req[s].kind = "patch" /\ body[s] \in PatchBody
     \/ req[s].kind = "post" /\ body[s] \in PostBody
  /\ newSpec[s] = None \/ IsSpec(newSpec[s])
  /\ pc[s] = "reply" => reply[s] # None
  /\ reply[s] # None => pc[s] = "reply" \/ Undecoded(s)
  /\ pc[s] \in {"idle", "ask", "check", "body"} => body[s] = None
  /\ pc[s] \in {"latest", "write", "replace"} /\ req[s].kind \in {"patch", "update"} =>
       IsSpec(newSpec[s])

Labels == {"idle", "ask", "check", "body", "latest", "write", "replace", "reply"}

Types ==
  /\ Server!TypeOK
  /\ specLock \in RWMutex /\ latestLock \in RWMutex
  /\ pc \in [Slot -> Labels]
  /\ \A s \in Slot : SlotTypes(s)

LEMMA TypesAreTypeOK == Types => TypeOK
BY DEF Types, SlotTypes, Labels, TypeOK, Undecoded

\* The theorems of the server, about this one.
Proved == INSTANCE CoordServer_proofs

LEMMA SameData ==
  /\ Server!NetworkCensored = NetworkCensored
  /\ Server!Identity = Identity
  /\ \A s : Server!IsSpec(s) <=> IsSpec(s)
BY DEF Server!NetworkCensored, Server!NetworkDeviceCensored, Server!Identity,
   NetworkCensored, NetworkDeviceCensored, Identity, Server!IsSpec, IsSpec,
   Server!IsNetwork, IsNetwork, Server!NetworkDevice, NetworkDevice

LEMMA ViewType ==
  ASSUME NEW n, NEW d, IsSpec(spec), Known(spec, n, d)
  PROVE  Server!GetReifySpec(n, d) \in NetworkCensored
<1>1. Proved!IsSpec(spec) /\ Proved!Known(spec, n, d)
  BY DEF IsSpec, Proved!IsSpec, IsNetwork, Proved!IsNetwork, NetworkDevice,
         Proved!NetworkDevice, Known, Proved!Known
<1>2. Proved!CensorForDevice(spec, n, d) \in Proved!NetworkCensored
  BY <1>1, Proved!CensorType, ServerAssumption, AttributeAssumption
  DEF Identity, Proved!Identity, NetworkCensored, Proved!NetworkCensored,
      NetworkDeviceCensored, Proved!NetworkDeviceCensored, IsSpec,
      Proved!IsSpec, IsNetwork, Proved!IsNetwork, NetworkDevice,
      Proved!NetworkDevice, PatchableField, Proved!PatchableField,
      FixedField, Proved!FixedField
<1>3. Proved!CensorForDevice(spec, n, d) = Server!CensorForDevice(spec, n, d)
  BY DEF Proved!CensorForDevice, Server!CensorForDevice, Proved!Visible, Server!Visible,
         Proved!Censored, Server!Censored
<1> QED
  BY <1>2, <1>3 DEF Server!GetReifySpec, NetworkCensored, Proved!NetworkCensored,
     NetworkDeviceCensored, Proved!NetworkDeviceCensored

LEMMA PatchedIsSpec ==
  ASSUME NEW n, NEW d, NEW b \in PatchBody, IsSpec(spec), Known(spec, n, d)
  PROVE  IsSpec(Server!Patched(n, d, b))
<1>1. Proved!IsSpec(spec) /\ Proved!Known(spec, n, d)
  BY DEF IsSpec, Proved!IsSpec, IsNetwork, Proved!IsNetwork, NetworkDevice,
         Proved!NetworkDevice, Known, Proved!Known
<1>2. b \in Proved!PatchReifySpecRequest
  BY HandlersAssumption DEF Server!PatchReifySpecRequest, Proved!PatchReifySpecRequest,
     Server!Patchable, Proved!Patchable, Server!PatchableField, Proved!PatchableField
<1>3. Proved!IsSpec(Proved!Patched(n, d, b))
  BY <1>1, <1>2, Proved!PatchedType, ServerAssumption, AttributeAssumption
  DEF Identity, Proved!Identity, NetworkCensored, Proved!NetworkCensored,
      NetworkDeviceCensored, Proved!NetworkDeviceCensored, IsSpec,
      Proved!IsSpec, IsNetwork, Proved!IsNetwork, NetworkDevice,
      Proved!NetworkDevice, PatchableField, Proved!PatchableField,
      FixedField, Proved!FixedField
<1>4. Proved!Patched(n, d, b) = Server!Patched(n, d, b)
  BY DEF Proved!Patched, Server!Patched, Proved!Clone, Server!Clone, Proved!CloneDevice,
         Server!CloneDevice
<1> QED
  BY <1>3, <1>4 DEF IsSpec, Proved!IsSpec, IsNetwork, Proved!IsNetwork, NetworkDevice,
     Proved!NetworkDevice

\* Calls to a lock make a lock of a lock.
LEMMA LockTypes ==
  ASSUME NEW l \in RWMutex, NEW s \in Slot
  PROVE  {Lock(l, s), RLock(l, s), Unlock(l), RUnlock(l, s)} \subseteq RWMutex
BY DEF RWMutex, Lock, RLock, Unlock, RUnlock

LEMMA LocksStayLocks ==
  ASSUME specLock \in RWMutex, latestLock \in RWMutex, NEW s \in Slot,
         Take(specLock, s, req[s].kind \in WritesSpec)
           \/ Release(specLock, s) \/ specLock' = specLock,
         Take(latestLock, s, req[s].kind \in WritesLatest)
           \/ Release(latestLock, s) \/ latestLock' = latestLock
  PROVE  specLock' \in RWMutex /\ latestLock' \in RWMutex
BY LockTypes DEF Take, Release

\* A step of slot s that leaves the server alone.
LEMMA SlotStep ==
  ASSUME Types, NEW s \in Slot, Shapes', NEW l \in Labels, Goto(s, l),
         Server!TypeOK', specLock' \in RWMutex, latestLock' \in RWMutex,
         \A t \in Slot \ {s} : /\ req'[t] = req[t] /\ body'[t] = body[t]
                              /\ newSpec'[t] = newSpec[t] /\ reply'[t] = reply[t],
         SlotTypes(s)'
  PROVE  Types'
<1>1. pc' \in [Slot -> Labels] /\ \A t \in Slot \ {s} : pc'[t] = pc[t]
  BY DEF Types, Goto
<1>2. ASSUME NEW t \in Slot \ {s} PROVE SlotTypes(t)'
  BY <1>1 DEF Types, SlotTypes, Undecoded
<1> QED
  BY <1>1, <1>2 DEF Types

LEMMA ServerTypesFrame ==
  ASSUME Server!TypeOK, UNCHANGED serverVars
  PROVE  Server!TypeOK'
BY DEF serverVars, Server!TypeOK

LEMMA RequestFacts ==
  ASSUME Types, NEW s \in Slot, pc[s] # "idle"
  PROVE  /\ req[s] \in Requests[s]
         /\ req[s].kind \in Kind /\ req[s].tok \in Token
         /\ req[s].net \in NetworkName /\ req[s].dev \in DeviceName
BY HandlersAssumption DEF Types, SlotTypes, Request

\* An answer is not the value that stands for no answer.
LEMMA AnswerExists ==
  ASSUME NEW code \in Nat, NEW says \in BOOLEAN \cup {None} \cup NetworkCensored
  PROVE  Answer(code, says) # None
BY HandlersAssumption DEF Answer

LEMMA ReceiveTypes ==
  ASSUME Types, NEW s \in Slot, Shapes', NEW r \in Requests[s], Receive(s, r)
  PROVE  Types'
<1>1. pc[s] = "idle" /\ pc'[s] = "ask" /\ req'[s] = r /\ Goto(s, "ask")
  BY DEF Types, Shapes, Receive, Goto
<1>2. /\ UNCHANGED <<serverVars, specLock, latestLock, body, newSpec, reply>>
      /\ \A t \in Slot \ {s} : req'[t] = req[t]
  BY DEF Receive, Shapes
<1>3. SlotTypes(s)'
  BY <1>1, <1>2 DEF Types, SlotTypes, Undecoded
<1>4. Server!TypeOK' /\ specLock' \in RWMutex /\ latestLock' \in RWMutex
  BY <1>2, ServerTypesFrame DEF Types
<1> QED
  BY <1>1, <1>2, <1>3, <1>4, SlotStep DEF Labels

\* Handler s writes an answer, of whatever it found out.
LEMMA AnswerTypes ==
  ASSUME Types, Inv, NEW s \in Slot, Shapes', NEW code \in Nat,
         NEW says \in BOOLEAN \cup {None} \cup NetworkCensored,
         AnswerWith(s, Answer(code, says)), pc[s] # "idle", UNCHANGED <<req, newSpec>>,
         \A t \in Slot \ {s} : body'[t] = body[t],
         \/ body'[s] = body[s]
         \/ req[s].kind = "post" /\ body'[s] \in PostBody,
         Server!TypeOK', specLock' = specLock, latestLock' = latestLock
  PROVE  Types'
<1>1. /\ pc'[s] = "reply" /\ reply'[s] = Answer(code, says) /\ Goto(s, "reply")
      /\ \A t \in Slot \ {s} : reply'[t] = reply[t]
  BY DEF Inv, Shapes, AnswerWith, Goto
<1>2. reply'[s] # None
  BY <1>1, AnswerExists
<1>3. SlotTypes(s)'
  BY <1>1, <1>2 DEF Types, SlotTypes, Undecoded
<1> QED
  BY <1>1, <1>3, SlotStep DEF Types, Labels

\* Handler s goes on to l, and writes nothing yet or that it could not decode.
LEMMA GoOnTypes ==
  ASSUME Types, Inv, NEW s \in Slot, Shapes', NEW l \in Labels \ {"idle", "reply"},
         Goto(s, l), pc[s] \notin {"idle", "reply"}, UNCHANGED req,
         \A t \in Slot \ {s} : /\ body'[t] = body[t] /\ newSpec'[t] = newSpec[t]
                              /\ reply'[t] = reply[t],
         \/ reply'[s] = reply[s]
         \/ /\ req[s].kind = "post" /\ l = "latest"
            /\ reply'[s] \in {None, Answer(400, None)},
         req[s].kind = "post" /\ pc[s] \in {"latest", "write"} => l = "write",
         \/ body'[s] = body[s]
         \/ req[s].kind = "patch" /\ body'[s] \in PatchBody
         \/ req[s].kind = "post" /\ body'[s] \in PostBody,
         l \in {"check", "body"} => pc[s] \in {"ask", "check"} /\ body'[s] = body[s],
         l \notin {"ask"},
         newSpec'[s] = newSpec[s] \/ IsSpec(newSpec'[s]),
         l \in {"latest", "write", "replace"} /\ req[s].kind \in {"patch", "update"} =>
           IsSpec(newSpec'[s]),
         Server!TypeOK', specLock' \in RWMutex, latestLock' \in RWMutex
  PROVE  Types'
<1>1. pc'[s] = l
  BY DEF Inv, Shapes, Goto
<1>2. IsSpec(newSpec[s])' <=> IsSpec(newSpec'[s])
  BY DEF IsSpec
<1>3. SlotTypes(s)'
  BY <1>1, <1>2 DEF Types, SlotTypes, Undecoded
<1> QED
  BY <1>3, SlotStep DEF Labels

LEMMA RefuseTypes ==
  ASSUME Types, Inv, NEW s \in Slot, Shapes', Refuse(s)
  PROVE  Types'
<1>1. Server!TypeOK'
  BY ServerTypesFrame DEF Refuse, Types
<1> QED
  BY <1>1, AnswerTypes DEF Refuse

LEMMA AskSpecLockTypes ==
  ASSUME Types, Inv, NEW s \in Slot, Shapes', AskSpecLock(s)
  PROVE  Types'
<1>1. Server!TypeOK'
  BY ServerTypesFrame DEF AskSpecLock, Types
<1>2. specLock' \in RWMutex /\ latestLock' \in RWMutex
  BY LocksStayLocks DEF AskSpecLock, Types
<1> QED
  BY <1>1, <1>2, GoOnTypes DEF AskSpecLock, Labels

LEMMA NotFoundTypes ==
  ASSUME Types, Inv, NEW s \in Slot, Shapes', NotFound(s)
  PROVE  Types'
<1>1. Server!TypeOK'
  BY ServerTypesFrame DEF NotFound, Types
<1> QED
  BY <1>1, AnswerTypes DEF NotFound

LEMMA CheckTypes ==
  ASSUME Types, Inv, NEW s \in Slot, Shapes', Check(s)
  PROVE  Types'
<1>1. Server!TypeOK'
  BY ServerTypesFrame DEF Check, Types
<1>2. CASE req[s].kind = "spec"
  <2>1. Server!GetReifySpec(req[s].net, req[s].dev) \in NetworkCensored
    BY ViewType, SameData DEF Types, Server!TypeOK, Check, Found
  <2> QED
    BY <1>1, <1>2, <2>1, AnswerTypes DEF Check
<1>3. CASE req[s].kind # "spec"
  <2>1. PICK l \in {"latest", "body"} :
          Goto(s, l) /\ (l = "latest" <=> req[s].kind = "latest")
    BY <1>3 DEF Check
  <2>2. UNCHANGED <<req, reply, body, newSpec, specLock, latestLock>>
    BY <1>3 DEF Check
  <2> QED
    BY <1>1, <2>1, <2>2, GoOnTypes DEF Check, Labels, Types
<1> QED
  BY <1>2, <1>3

LEMMA BeginUpdateTypes ==
  ASSUME Types, Inv, NEW s \in Slot, Shapes', BeginUpdate(s)
  PROVE  Types'
<1>1. Server!TypeOK'
  BY ServerTypesFrame DEF BeginUpdate, Types
<1>2. IsSpec(newSpec'[s]) /\ \A t \in Slot \ {s} : newSpec'[t] = newSpec[t]
  BY ServerAssumption DEF BeginUpdate, Inv, Shapes
<1> QED
  BY <1>1, <1>2, GoOnTypes DEF BeginUpdate, Labels, Types

LEMMA BadBodyTypes ==
  ASSUME Types, Inv, NEW s \in Slot, Shapes', BadBody(s)
  PROVE  Types'
<1>1. Server!TypeOK'
  BY ServerTypesFrame DEF BadBody, Types
<1> QED
  BY <1>1, AnswerTypes DEF BadBody

LEMMA ReadPatchTypes ==
  ASSUME Types, Inv, NEW s \in Slot, Shapes', ReadPatch(s)
  PROVE  Types'
<1>1. Server!TypeOK'
  BY ServerTypesFrame DEF ReadPatch, Types
<1>2. PICK b \in PatchBody :
        IF Server!PatchValid(req[s].net, b)
        THEN /\ body' = [body EXCEPT ![s] = b]
             /\ newSpec' = [newSpec EXCEPT ![s] = Server!Patched(req[s].net, req[s].dev, b)]
             /\ Goto(s, "latest")
             /\ UNCHANGED reply
        ELSE AnswerWith(s, Answer(400, None)) /\ UNCHANGED <<body, newSpec>>
  BY DEF ReadPatch
<1>3. CASE ~Server!PatchValid(req[s].net, b)
  BY <1>1, <1>2, <1>3, AnswerTypes DEF ReadPatch
<1>4. CASE Server!PatchValid(req[s].net, b)
  <2>1. Known(spec, req[s].net, req[s].dev) /\ IsSpec(spec)
    BY SameData DEF ReadPatch, Inv, Knows, Finds, Inside, Types, Server!TypeOK
  <2>2. IsSpec(Server!Patched(req[s].net, req[s].dev, b))
    BY <2>1, PatchedIsSpec
  <2>3. /\ body'[s] = b /\ newSpec'[s] = Server!Patched(req[s].net, req[s].dev, b)
        /\ \A t \in Slot \ {s} : body'[t] = body[t] /\ newSpec'[t] = newSpec[t]
    BY <1>2, <1>4 DEF Inv, Shapes
  <2>4. IsSpec(newSpec'[s])
    BY <2>2, <2>3
  <2>5. Goto(s, "latest") /\ reply' = reply
    BY <1>2, <1>4
  <2> QED
    BY <1>1, <2>3, <2>4, <2>5, GoOnTypes DEF ReadPatch, Labels, Types
<1> QED
  BY <1>3, <1>4

LEMMA ReadPostTypes ==
  ASSUME Types, Inv, NEW s \in Slot, Shapes', ReadPost(s)
  PROVE  Types'
<1>1. Server!TypeOK'
  BY ServerTypesFrame DEF ReadPost, Types
<1>2. PICK b \in PostBody, written \in {None, Answer(400, None)} :
        /\ body' = [body EXCEPT ![s] = b]
        /\ IF Server!ReportIsCurrent(req[s].net, req[s].dev, b)
           THEN reply' = [reply EXCEPT ![s] = written] /\ Goto(s, "latest")
           ELSE AnswerWith(s, Sent(written, Answer(200, FALSE)))
  BY ReadPostStep
<1>3. body'[s] = b /\ \A t \in Slot \ {s} : body'[t] = body[t]
  BY <1>2 DEF Inv, Shapes
<1>4. CASE ~Server!ReportIsCurrent(req[s].net, req[s].dev, b)
  <2>1. AnswerWith(s, Answer(200, FALSE)) \/ AnswerWith(s, Answer(400, None))
    BY <1>2, <1>4 DEF Sent
  <2>2. CASE AnswerWith(s, Answer(200, FALSE))
    BY <1>1, <1>3, <2>2, AnswerTypes DEF ReadPost
  <2>3. CASE AnswerWith(s, Answer(400, None))
    BY <1>1, <1>3, <2>3, AnswerTypes DEF ReadPost
  <2> QED
    BY <2>1, <2>2, <2>3
<1>5. CASE Server!ReportIsCurrent(req[s].net, req[s].dev, b)
  <2>1. /\ Goto(s, "latest") /\ reply'[s] = written
        /\ \A t \in Slot \ {s} : reply'[t] = reply[t]
    BY <1>2, <1>5 DEF Inv, Shapes
  <2> QED
    BY <1>1, <1>3, <2>1, GoOnTypes DEF ReadPost, Labels, Types
<1> QED
  BY <1>4, <1>5

\* What has been written before a report is noted.
LEMMA WrittenBefore ==
  ASSUME Types, NEW s \in Slot, pc[s] = "write"
  PROVE  reply[s] \in {None, Answer(400, None)}
BY DEF Types, SlotTypes, Undecoded

LEMMA AskLatestLockTypes ==
  ASSUME Types, Inv, NEW s \in Slot, Shapes', AskLatestLock(s)
  PROVE  Types'
<1>1. Server!TypeOK'
  BY ServerTypesFrame DEF AskLatestLock, Types
<1>2. specLock' \in RWMutex /\ latestLock' \in RWMutex
  BY LocksStayLocks DEF AskLatestLock, Types
<1>3. req[s].kind \in {"patch", "update"} => IsSpec(newSpec[s])
  BY DEF AskLatestLock, Types, SlotTypes
<1> QED
  BY <1>1, <1>2, <1>3, GoOnTypes DEF AskLatestLock, Labels

LEMMA ReadLatestTypes ==
  ASSUME Types, Inv, NEW s \in Slot, Shapes', ReadLatest(s)
  PROVE  Types'
<1>1. Server!TypeOK'
  BY ServerTypesFrame DEF ReadLatest, Types
<1>2. Server!GetReifyLatest(req[s].net, req[s].dev) \in BOOLEAN
  BY DEF Server!GetReifyLatest
<1> QED
  BY <1>1, <1>2, AnswerTypes DEF ReadLatest

LEMMA AppendLatestTypes ==
  ASSUME Types, Inv, NEW s \in Slot, Shapes', AppendLatest(s)
  PROVE  Types'
<1> DEFINE n == req[s].net  d == req[s].dev
<1>1. n \in NetworkName /\ d \in DeviceName /\ <<n, d>> \in Identity
  BY RequestFacts DEF AppendLatest, Identity
<1>2. body[s] \in NetworkCensored
  BY HandlersAssumption DEF AppendLatest, Inv, Knows, HasCompared
<1>3. latest' \in [NetworkName -> [DeviceName -> 0 .. MaxMarks]]
  <2>1. /\ latest[n] \in [DeviceName -> 0 .. MaxMarks]
        /\ latest[n][d] \in 0 .. MaxMarks /\ MaxMarks \in Nat
        /\ latest \in [NetworkName -> [DeviceName -> 0 .. MaxMarks]]
    BY <1>1, ServerAssumption DEF Types, Server!TypeOK
  <2>2. PICK v : latest' = [latest EXCEPT ![n][d] = v]
                  /\ v = IF latest[n][d] < MaxMarks THEN latest[n][d] + 1 ELSE latest[n][d]
    BY DEF AppendLatest
  <2>3. v \in 0 .. MaxMarks
    BY <2>1, <2>2
  <2>4. [latest[n] EXCEPT ![d] = v] \in [DeviceName -> 0 .. MaxMarks]
    BY <2>1, <2>3
  <2> QED
    BY <1>1, <2>1, <2>2, <2>4
<1>4. accepted' \in [Identity -> NetworkCensored \cup {NoReport}]
  BY <1>1, <1>2, SameData DEF AppendLatest, Types, Server!TypeOK
<1>5. Server!TypeOK'
  <2>1. spec' = spec /\ boot' = boot
    BY DEF AppendLatest
  <2> QED
    BY <1>3, <1>4, <2>1, SameData DEF Types, Server!TypeOK
<1>6. AnswerWith(s, Answer(200, TRUE)) \/ AnswerWith(s, Answer(400, None))
  BY WrittenBefore DEF AppendLatest, Sent
<1>7. /\ pc[s] # "idle" /\ UNCHANGED <<req, newSpec, body>>
      /\ specLock' = specLock /\ latestLock' = latestLock
  BY DEF AppendLatest
<1>8. CASE AnswerWith(s, Answer(200, TRUE))
  BY <1>5, <1>7, <1>8, AnswerTypes
<1>9. CASE AnswerWith(s, Answer(400, None))
  BY <1>5, <1>7, <1>9, AnswerTypes
<1> QED
  BY <1>6, <1>8, <1>9

LEMMA UpdateLatestTypes ==
  ASSUME Types, Inv, NEW s \in Slot, Shapes', UpdateLatest(s)
  PROVE  Types'
<1>1. MaxMarks \in Nat \ {0} /\ latest \in [NetworkName -> [DeviceName -> 0 .. MaxMarks]]
  BY ServerAssumption DEF Types, Server!TypeOK
<1>2. latest' \in [NetworkName -> [DeviceName -> 0 .. MaxMarks]]
  <2>1. ASSUME NEW keep, NEW marks
        PROVE  Server!SliceUnion(keep, marks) \in [DeviceName -> 0 .. MaxMarks]
    BY <1>1 DEF Server!SliceUnion
  <2>2. Server!NoMarks \in [DeviceName -> 0 .. MaxMarks]
    BY <1>1 DEF Server!NoMarks
  <2>3. ASSUME NEW n \in NetworkName
        PROVE  Server!Kept(newSpec[s])[n] \in [DeviceName -> 0 .. MaxMarks]
    BY <1>1, <2>1, <2>2 DEF Server!Kept
  <2> QED
    BY <2>3 DEF UpdateLatest, Server!Kept
<1>3. accepted' \in [Identity -> NetworkCensored \cup {NoReport}]
  BY SameData DEF UpdateLatest, Server!StillAccepted, Types, Server!TypeOK
<1>4. Server!TypeOK'
  <2>1. spec' = spec /\ boot' = boot
    BY DEF UpdateLatest
  <2> QED
    BY <1>2, <1>3, <2>1, SameData DEF Types, Server!TypeOK
<1>5. IsSpec(newSpec[s])
  BY DEF UpdateLatest, Types, SlotTypes
<1> QED
  BY <1>4, <1>5, GoOnTypes DEF UpdateLatest, Labels, Types

LEMMA ReplaceSpecTypes ==
  ASSUME Types, Inv, NEW s \in Slot, Shapes', ReplaceSpec(s)
  PROVE  Types'
<1>1. req[s].kind \in {"patch", "update"}
  BY DEF ReplaceSpec, Inv, Locks
<1>2. Server!TypeOK'
  <2>1. spec' = newSpec[s] /\ UNCHANGED <<latest, accepted, boot>>
    BY DEF ReplaceSpec
  <2>2. IsSpec(spec')
    BY <1>1, <2>1 DEF ReplaceSpec, Types, SlotTypes
  <2> QED
    BY <2>1, <2>2, SameData DEF Types, Server!TypeOK
<1> QED
  BY <1>2, AnswerTypes DEF ReplaceSpec

LEMMA ReturnTypes ==
  ASSUME Types, Inv, NEW s \in Slot, Shapes', Return(s)
  PROVE  Types'
<1>1. Server!TypeOK'
  BY ServerTypesFrame DEF Return, Types
<1>2. specLock' \in RWMutex /\ latestLock' \in RWMutex
  BY LocksStayLocks DEF Return, Types
<1>3. /\ pc'[s] = "idle" /\ Goto(s, "idle") /\ req'[s] = None /\ body'[s] = None
      /\ newSpec'[s] = None /\ reply'[s] = None
      /\ \A t \in Slot \ {s} : /\ req'[t] = req[t] /\ body'[t] = body[t]
                              /\ newSpec'[t] = newSpec[t] /\ reply'[t] = reply[t]
  BY DEF Return, Forget, Goto, Inv, Shapes
<1>4. SlotTypes(s)'
  BY <1>3 DEF SlotTypes
<1> QED
  BY <1>1, <1>2, <1>3, <1>4, SlotStep DEF Labels

LEMMA InitTypes == Init => Types
<1> SUFFICES ASSUME Init PROVE Types
  OBVIOUS
<1>1. IsSpec(spec) /\ latest \in [NetworkName -> [DeviceName -> 0 .. MaxMarks]]
  BY ServerAssumption DEF Init, Server!Init, Server!NoMarks
<1>2. accepted \in [Identity -> NetworkCensored \cup {NoReport}] /\ boot = 0
  BY SameData DEF Init, Server!Init
<1>3. Server!TypeOK
  BY <1>1, <1>2, SameData DEF Server!TypeOK
<1>4. specLock \in RWMutex /\ latestLock \in RWMutex
  BY DEF Init, Unlocked, RWMutex
<1>5. pc \in [Slot -> Labels] /\ \A s \in Slot : SlotTypes(s)
  BY DEF Init, Labels, SlotTypes
<1> QED
  BY <1>3, <1>4, <1>5 DEF Types

LEMMA RestartTypes ==
  ASSUME Types, NEW config \in Configs, Restart(config)
  PROVE  Types'
<1>1. IsSpec(spec') /\ latest' \in [NetworkName -> [DeviceName -> 0 .. MaxMarks]]
  BY ServerAssumption DEF Restart, Server!Restart, Server!NoMarks
<1>2. accepted' \in [Identity -> NetworkCensored \cup {NoReport}] /\ boot' \in {0, 1}
  BY SameData DEF Restart, Server!Restart, Types, Server!TypeOK
<1>3. specLock' \in RWMutex /\ latestLock' \in RWMutex
  BY DEF Restart, Unlocked, RWMutex
<1>4. pc' \in [Slot -> Labels] /\ \A s \in Slot : SlotTypes(s)'
  BY DEF Restart, Labels, SlotTypes
<1> QED
  BY <1>1, <1>2, <1>3, <1>4, SameData DEF Types, Server!TypeOK

LEMMA NextTypes == Types /\ Inv /\ Inv' /\ [Next]_vars => Types'
<1> SUFFICES ASSUME Types, Inv, Shapes', [Next]_vars PROVE Types'
  BY DEF Inv
<1>1. ASSUME NEW s \in Slot, Handle(s) PROVE Types'
  BY <1>1, RefuseTypes, AskSpecLockTypes, NotFoundTypes, CheckTypes, BeginUpdateTypes,
     BadBodyTypes, ReadPatchTypes, ReadPostTypes, AskLatestLockTypes, ReadLatestTypes,
     AppendLatestTypes, UpdateLatestTypes, ReplaceSpecTypes, ReturnTypes DEF Handle
<1>2. ASSUME NEW s \in Slot, NEW r \in Requests[s], Receive(s, r) PROVE Types'
  BY <1>2, ReceiveTypes
<1>3. ASSUME NEW config \in Configs, Restart(config) PROVE Types'
  BY <1>3, RestartTypes
<1>4. CASE UNCHANGED vars
  <2>1. ASSUME NEW s \in Slot PROVE SlotTypes(s)'
    BY <1>4 DEF Types, SlotTypes, Undecoded, vars
  <2> QED
    BY <1>4, <2>1, ServerTypesFrame DEF Types, vars, serverVars
<1> QED
  BY <1>1, <1>2, <1>3, <1>4 DEF Next

LEMMA Invariance == Spec => [](Inv /\ Types)
BY InitInv, InitTypes, NextInv, NextTypes, PTL DEF Spec

\* No course of the handlers leaves the server, the locks or a handler in a state
\* that is none: a handler has an answer when it comes to reply and before that only
\* the 400 after which POST goes on, a body only of its own request, and never stores
\* as spec what is no spec.
THEOREM TypeCorrect == Spec => []TypeOK
BY Invariance, TypesAreTypeOK, PTL

-----------------------------------------------------------------------------
(* Answers *)

\* What a handler answers stays so while it holds specLock: whoever could change
\* the spec or latest would have to hold it for writing.
LEMMA AnswerStays ==
  ASSUME NEW s \in Slot, IsRight(s), UNCHANGED <<spec, latest>>,
         req'[s] = req[s], body'[s] = body[s], reply'[s] = reply[s]
  PROVE  IsRight(s)'
BY DEF IsRight, Server!GetReifyLatest, Server!GetReifySpec, Server!ReportIsCurrent

\* A 401 says nothing.
LEMMA RefusalIsRight ==
  ASSUME NEW s \in Slot, reply[s].code = 401
  PROVE  IsRight(s)
BY DEF IsRight

LEMMA WriterIsAlone ==
  ASSUME Inv, NEW s \in Slot, NEW t \in Slot \ {s},
         pc[s] \in Inside, req[s].kind \in WritesSpec, pc[t] = "reply"
  PROVE  reply[t].code = 401
BY OneInside DEF Inv, Locks, Covered

\* So a step of one handler leaves the answers of the others right.
LEMMA OthersStayRight ==
  ASSUME Inv, AnswerIsRight, NEW s \in Slot, Handle(s), NEW t \in Slot \ {s},
         pc'[t] = "reply"
  PROVE  IsRight(t)'
<1>1. /\ pc'[t] = pc[t] /\ req'[t] = req[t] /\ body'[t] = body[t]
      /\ reply'[t] = reply[t]
  <2>1. pc'[t] = pc[t]
    BY DEF Inv, Shapes, Handle, Refuse, AskSpecLock, NotFound, Check, BeginUpdate, BadBody,
           ReadPatch, ReadPost, AskLatestLock, ReadLatest, AppendLatest, UpdateLatest,
           ReplaceSpec, Return, AnswerWith, Goto
  <2>2. req'[t] = req[t]
    BY DEF Inv, Shapes, Handle, Refuse, AskSpecLock, NotFound, Check, BeginUpdate, BadBody,
           ReadPatch, ReadPost, AskLatestLock, ReadLatest, AppendLatest, UpdateLatest,
           ReplaceSpec, Return, Forget
  <2>3. body'[t] = body[t]
    BY DEF Inv, Shapes, Handle, Refuse, AskSpecLock, NotFound, Check, BeginUpdate, BadBody,
           ReadPatch, ReadPost, AskLatestLock, ReadLatest, AppendLatest, UpdateLatest,
           ReplaceSpec, Return, Forget
  <2>4. reply'[t] = reply[t]
    BY DEF Inv, Shapes, Handle, Refuse, AskSpecLock, NotFound, Check, BeginUpdate, BadBody,
           ReadPatch, ReadPost, AskLatestLock, ReadLatest, AppendLatest, UpdateLatest,
           ReplaceSpec, Return, AnswerWith, Forget
  <2> QED
    BY <2>1, <2>2, <2>3, <2>4
<1>2. CASE UNCHANGED <<spec, latest>>
  BY <1>1, <1>2, AnswerStays DEF AnswerIsRight
<1>3. CASE ~UNCHANGED <<spec, latest>>
  <2>1. AppendLatest(s) \/ UpdateLatest(s) \/ ReplaceSpec(s)
    BY <1>3 DEF Handle, Refuse, AskSpecLock, NotFound, Check, BeginUpdate, BadBody,
       ReadPatch, ReadPost, AskLatestLock, ReadLatest, Return, serverVars
  <2>2. pc[s] \in Inside /\ req[s].kind \in WritesSpec
    BY <2>1 DEF AppendLatest, UpdateLatest, ReplaceSpec, Inside, WritesSpec, Inv, Locks
  <2>3. reply[t].code = 401
    BY <1>1, <2>2, WriterIsAlone
  <2>4. reply'[t].code = 401
    BY <1>1, <2>3
  <2> QED
    BY <2>4, RefusalIsRight DEF IsRight
<1> QED
  BY <1>2, <1>3

\* After a patch, the device has what the patch sets.
LEMMA PatchedHolds ==
  ASSUME IsSpec(spec), NEW n, NEW d, Known(spec, n, d), NEW b \in Server!PatchReifySpecRequest
  PROVE  LET dev == Server!Patched(n, d, b)[n][d]
         IN /\ \A f \in DOMAIN b.attrs : dev.attrs[f] = b.attrs[f]
            /\ b.AccessibleSet => dev.Accessible = b.Accessible
<1> DEFINE old == Server!CloneDevice(spec[n][d])
           net == [e \in DOMAIN spec[n] |-> Server!CloneDevice(spec[n][e])]
           att == [f \in Attribute |->
                     IF f \in DOMAIN b.attrs THEN b.attrs[f] ELSE old.attrs[f]]
           acc == IF b.AccessibleSet THEN b.Accessible ELSE old.Accessible
           dev == [[old EXCEPT !.attrs = att] EXCEPT !.Accessible = acc]
<1>1. n \in DOMAIN spec /\ d \in DOMAIN spec[n]
  BY DEF Known
<1>2. Server!Clone(spec)[n] = net /\ n \in DOMAIN Server!Clone(spec) /\ d \in DOMAIN net
  BY <1>1 DEF Server!Clone
<1>3. net[d] = old /\ Server!Clone(spec)[n][d] = old
  BY <1>1, <1>2
<1>4. Server!Patched(n, d, b)[n][d] = dev
  BY <1>2, <1>3 DEF Server!Patched
<1>5. {"attrs", "Accessible"} \subseteq DOMAIN old
  <2>1. spec[n][d] \in NetworkDevice
    BY <1>1 DEF IsSpec, IsNetwork
  <2> QED
    BY <2>1 DEF Server!CloneDevice, NetworkDevice
<1>6. dev.attrs = att /\ dev.Accessible = acc
  BY <1>5
<1>7. DOMAIN b.attrs \subseteq Attribute
  BY DEF Server!PatchReifySpecRequest, Server!Patchable
<1> QED
  BY <1>4, <1>6, <1>7

\* Each handler answers what is so.
LEMMA OwnAnswerIsRight ==
  ASSUME Types, Inv, AnswerIsRight, NEW s \in Slot, Handle(s), pc'[s] = "reply"
  PROVE  IsRight(s)'
<1> DEFINE n == req[s].net  d == req[s].dev
<1>1. pc[s] # "reply" /\ req' = req
  BY DEF Inv, Shapes, Handle, Refuse, AskSpecLock, NotFound, Check, BeginUpdate, BadBody,
         ReadPatch, ReadPost, AskLatestLock, ReadLatest, AppendLatest, UpdateLatest,
         ReplaceSpec, Return, AnswerWith, Goto, Forget
<1>2. ASSUME NEW code, NEW says, AnswerWith(s, Answer(code, says))
      PROVE  reply'[s].code = code /\ reply'[s].says = says
  BY <1>2 DEF AnswerWith, Answer, Inv, Shapes
<1>3. CASE Refuse(s) \/ BadBody(s)
  <2>1. reply'[s].code \in {400, 401, 500}
    BY <1>2, <1>3 DEF Refuse, BadBody
  <2> QED
    BY <2>1 DEF IsRight
<1>4. CASE NotFound(s)
  <2>1. reply'[s].code = 404 /\ ~Known(spec, n, d)
    BY <1>2, <1>4 DEF NotFound, Found
  <2>2. spec' = spec
    BY <1>4 DEF NotFound, serverVars
  <2> QED
    BY <1>1, <2>1, <2>2 DEF IsRight
<1>5. CASE Check(s)
  <2>1. req[s].kind = "spec" /\ AnswerWith(s, Answer(200, Server!GetReifySpec(n, d)))
    BY <1>1, <1>5 DEF Check, Goto, Inv, Shapes
  <2>2. Known(spec, n, d) /\ spec' = spec
    BY <1>5 DEF Check, Found, serverVars
  <2>3. reply'[s].code = 200 /\ reply'[s].says = Server!GetReifySpec(n, d)
    BY <1>2, <2>1
  <2>4. Server!GetReifySpec(n, d)' = Server!GetReifySpec(n, d)
    BY <1>1, <2>2 DEF Server!GetReifySpec
  <2> QED
    BY <1>1, <2>1, <2>2, <2>3, <2>4 DEF IsRight
<1>6. CASE ReadPatch(s)
  <2>1. reply'[s].code = 400
    BY <1>1, <1>2, <1>6 DEF ReadPatch, Goto, Inv, Shapes
  <2> QED
    BY <2>1 DEF IsRight
<1>7. CASE ReadPost(s)
  <2>1. PICK b \in PostBody, written \in {None, Answer(400, None)} :
          /\ body' = [body EXCEPT ![s] = b]
          /\ IF Server!ReportIsCurrent(req[s].net, req[s].dev, b)
             THEN reply' = [reply EXCEPT ![s] = written] /\ Goto(s, "latest")
             ELSE AnswerWith(s, Sent(written, Answer(200, FALSE)))
    BY <1>7, ReadPostStep
  <2>2. /\ ~Server!ReportIsCurrent(n, d, b)
        /\ AnswerWith(s, Sent(written, Answer(200, FALSE)))
    BY <1>1, <2>1 DEF Goto, Inv, Shapes
  <2>3. \/ reply'[s].code = 400
        \/ reply'[s].code = 200 /\ reply'[s].says = FALSE
    <3>1. AnswerWith(s, Answer(200, FALSE)) \/ AnswerWith(s, Answer(400, None))
      BY <2>2 DEF Sent
    <3>2. CASE AnswerWith(s, Answer(200, FALSE))
      BY <1>2, <3>2
    <3>3. CASE AnswerWith(s, Answer(400, None))
      BY <1>2, <3>3
    <3> QED
      BY <3>1, <3>2, <3>3
  <2>4. Known(spec, n, d) /\ spec' = spec /\ req[s].kind = "post" /\ body'[s] = b
    BY <1>7, <2>1 DEF ReadPost, Inv, Shapes, Knows, Finds, Inside, serverVars
  <2>5. Server!ReportIsCurrent(n, d, body[s])' = FALSE
    BY <1>1, <2>2, <2>4 DEF Server!ReportIsCurrent
  <2>6. \/ /\ Known(spec, req[s].net, req[s].dev)'
           /\ (reply[s].says = Server!ReportIsCurrent(req[s].net, req[s].dev, body[s]))'
           /\ reply'[s].says = FALSE
        \/ reply'[s].code = 400
    BY <1>1, <2>3, <2>4, <2>5
  <2> QED
    BY <1>1, <2>3, <2>4, <2>6 DEF IsRight
<1>8. CASE ReadLatest(s)
  <2>1. reply'[s].code = 200 /\ reply'[s].says = Server!GetReifyLatest(n, d)
    BY <1>2, <1>8 DEF ReadLatest
  <2>2. /\ Known(spec, n, d) /\ req[s].kind = "latest" /\ UNCHANGED <<spec, latest>>
    BY <1>8 DEF ReadLatest, Inv, Knows, Finds, Inside, serverVars
  <2>3. Server!GetReifyLatest(n, d)' = Server!GetReifyLatest(n, d)
    BY <1>1, <2>2 DEF Server!GetReifyLatest
  <2> QED
    BY <1>1, <2>1, <2>2, <2>3 DEF IsRight
<1>9. CASE AppendLatest(s)
  <2>1. \/ reply'[s].code = 400
        \/ reply'[s].code = 200 /\ reply'[s].says = TRUE
    <3>1. AnswerWith(s, Answer(200, TRUE)) \/ AnswerWith(s, Answer(400, None))
      BY <1>9, WrittenBefore DEF AppendLatest, Sent
    <3>2. CASE AnswerWith(s, Answer(200, TRUE))
      BY <1>2, <3>2
    <3>3. CASE AnswerWith(s, Answer(400, None))
      BY <1>2, <3>3
    <3> QED
      BY <3>1, <3>2, <3>3
  <2>2. /\ Known(spec, n, d) /\ req[s].kind = "post" /\ spec' = spec /\ body' = body
        /\ Server!ReportIsCurrent(n, d, body[s])
    BY <1>9 DEF AppendLatest, Inv, Knows, Finds, HasCompared, Inside
  <2>3. Server!ReportIsCurrent(n, d, body[s])' = TRUE
    BY <1>1, <2>2 DEF Server!ReportIsCurrent
  <2>4. latest'[n][d] > 0
    <3>1. n \in NetworkName /\ d \in DeviceName
      BY <1>9, RequestFacts DEF AppendLatest
    <3>2. latest[n][d] \in 0 .. MaxMarks /\ MaxMarks \in Nat \ {0}
      BY <3>1, ServerAssumption DEF Types, Server!TypeOK
    <3>3. latest'[n][d] = IF latest[n][d] < MaxMarks THEN latest[n][d] + 1 ELSE latest[n][d]
      BY <1>9, <3>1 DEF AppendLatest, Types, Server!TypeOK
    <3> QED
      BY <3>2, <3>3
  <2>5. \/ reply'[s].code = 400
        \/ /\ Known(spec, req[s].net, req[s].dev)'
           /\ (reply[s].says = Server!ReportIsCurrent(req[s].net, req[s].dev, body[s]))'
           /\ Server!GetReifyLatest(req[s].net, req[s].dev)'
    BY <1>1, <2>1, <2>2, <2>3, <2>4 DEF Server!GetReifyLatest
  <2> QED
    BY <1>1, <2>1, <2>2, <2>5 DEF IsRight
<1>10. CASE ReplaceSpec(s)
  <2>1. reply'[s].code = 204 /\ spec' = newSpec[s] /\ body' = body
    BY <1>2, <1>10 DEF ReplaceSpec
  <2>2. CASE req[s].kind = "update"
    BY <1>1, <2>1, <2>2 DEF IsRight
  <2>3. CASE req[s].kind = "patch"
    <3>1. /\ Known(spec, n, d) /\ body[s] \in PatchBody
          /\ spec' = Server!Patched(n, d, body[s])
      BY <1>10, <2>1, <2>3 DEF ReplaceSpec, Inv, Knows, Finds, HasPatched, Inside
    <3>2. body[s] \in Server!PatchReifySpecRequest
      BY <3>1, HandlersAssumption
    <3>3. /\ \A f \in DOMAIN body[s].attrs : spec'[n][d].attrs[f] = body[s].attrs[f]
          /\ body[s].AccessibleSet => spec'[n][d].Accessible = body[s].Accessible
      BY <3>1, <3>2, PatchedHolds, SameData DEF Types, Server!TypeOK
    <3> QED
      BY <1>1, <2>1, <2>3, <3>3 DEF IsRight
  <2> QED
    BY <1>10, <2>2, <2>3 DEF ReplaceSpec, Inv, Locks
<1> QED
  BY <1>3, <1>4, <1>5, <1>6, <1>7, <1>8, <1>9, <1>10 DEF Inv, Shapes, Handle,
     AskSpecLock, BeginUpdate, AskLatestLock, UpdateLatest, Return, Goto

LEMMA NextRight == Types /\ Inv /\ AnswerIsRight /\ [Next]_vars => AnswerIsRight'
<1> SUFFICES ASSUME Types, Inv, AnswerIsRight, [Next]_vars, NEW t \in Slot, pc'[t] = "reply"
             PROVE  IsRight(t)'
  BY DEF AnswerIsRight
<1>1. ASSUME NEW s \in Slot, Handle(s) PROVE IsRight(t)'
  BY <1>1, OwnAnswerIsRight, OthersStayRight
<1>2. ASSUME NEW s \in Slot, NEW r \in Requests[s], Receive(s, r) PROVE IsRight(t)'
  <2>1. /\ pc'[s] = "ask" /\ \A u \in Slot \ {s} : pc'[u] = pc[u] /\ req'[u] = req[u]
        /\ UNCHANGED <<spec, latest, body, reply>>
    BY <1>2 DEF Receive, Inv, Shapes, Goto, serverVars
  <2> QED
    BY <2>1, AnswerStays DEF AnswerIsRight
<1>3. ASSUME NEW config \in Configs, Restart(config) PROVE IsRight(t)'
  BY <1>3 DEF Restart
<1>4. CASE UNCHANGED vars
  BY <1>4, AnswerStays DEF vars, AnswerIsRight
<1> QED
  BY <1>1, <1>2, <1>3, <1>4 DEF Next

\* An answer that is not an error is right not only when it is made out but until
\* it is written: to be told "latest", or that a patch was taken, is to be told the
\* truth, however many other requests are in progress.  Of an error it says only
\* that a device that was not found is not there: a 400 to a report that was cut
\* short promises nothing, since the handler goes on and may count what it got.
THEOREM AnswersAreRight == Spec => []AnswerIsRight
<1>1. Init => AnswerIsRight
  BY DEF Init, AnswerIsRight
<1> QED
  BY <1>1, Invariance, NextRight, PTL DEF Spec

-----------------------------------------------------------------------------
(* The handlers implement CoordServer *)

\* A step of the server as those see it that respect the locks.
LEMMA SeenStep ==
  ASSUME Types, Inv, [Next]_vars
  PROVE  [Seen!Next]_Seen!vars
<1>1. ASSUME Nothing PROVE UNCHANGED Seen!vars
  BY <1>1 DEF Nothing, Seen!vars
<1>2. ASSUME NEW s \in Slot, Handle(s) PROVE Nothing \/ Effect(s)
  BY <1>2, OtherSteps, AppendStep, UpdateStep, ReplaceStep
<1>3. ASSUME NEW s \in Slot, Handle(s), Effect(s) PROVE Seen!Next
  <2> DEFINE n == req[s].net  d == req[s].dev  tok == req[s].tok
  <2>1. tok \in Token /\ n \in NetworkName /\ d \in DeviceName
    BY <1>3, RequestFacts DEF Effect
  <2>2. CASE req[s].kind = "patch"
    <3>1. body[s] \in PatchBody
      BY <1>3, <2>2 DEF Effect, Inv, Knows, HasPatched
    <3>2. body[s] \in Seen!PatchReifySpecRequest
      BY <3>1, HandlersAssumption DEF Seen!PatchReifySpecRequest, Server!PatchReifySpecRequest,
         Seen!Patchable, Server!Patchable, Seen!PatchableField, Server!PatchableField
    <3>3. Seen!PatchReifySpec(tok, n, d, body[s])
      BY <1>3, <2>2 DEF Effect
    <3> QED
      BY <2>1, <3>2, <3>3 DEF Seen!Next
  <2>3. CASE req[s].kind = "post"
    <3>1. body[s] \in NetworkCensored
      BY <1>3, <2>3, HandlersAssumption DEF Effect, Inv, Knows, HasCompared
    <3>2. body[s] \in Seen!NetworkCensored
      BY <3>1 DEF Seen!NetworkCensored, NetworkCensored, Seen!NetworkDeviceCensored,
         NetworkDeviceCensored
    <3>3. Seen!PostReifyStatus(tok, n, d, body[s])
      BY <1>3, <2>3 DEF Effect
    <3> QED
      BY <2>1, <3>2, <3>3 DEF Seen!Next
  <2>4. CASE req[s].kind = "update"
    <3>1. newSpec[s] \in Configs
      BY <1>3, <2>4 DEF Effect, Inv, Knows, HasConfig
    <3>2. Seen!UpdateSpec(newSpec[s])
      BY <1>3, <2>4 DEF Effect
    <3> QED
      BY <3>1, <3>2 DEF Seen!Next
  <2> QED
    BY <1>3, <2>2, <2>3, <2>4 DEF Effect
<1>4. ASSUME NEW config \in Configs, Restart(config) PROVE Seen!Next
  BY <1>4, RestartStep DEF Seen!Next
<1>5. ASSUME NEW s \in Slot, NEW r \in Requests[s], Receive(s, r) PROVE Nothing
  BY <1>5, ReceiveStep
<1>6. CASE UNCHANGED vars
  <2>1. SpecSeen' = SpecSeen
    BY <1>6, SeenSame DEF vars
  <2> QED
    BY <1>6, <2>1 DEF vars, Seen!vars
<1> QED
  BY <1>1, <1>2, <1>3, <1>4, <1>5, <1>6 DEF Next

LEMMA SeenInitially == Init => Seen!Init
<1> SUFFICES ASSUME Init PROVE Seen!Init
  OBVIOUS
<1>1. SpecSeen = spec
  BY DEF Init, Replacing, SpecSeen
<1> QED
  BY <1>1 DEF Init, Server!Init, Seen!Init, Server!NoMarks, Seen!NoMarks, Server!Identity,
         Seen!Identity

\* The server that several goroutines make, with its locks, is the one of
\* CoordServer, where a request is one step.
THEOREM HandlersImplementServer == Spec => Seen!Spec
BY SeenInitially, SeenStep, Invariance, PTL DEF Spec, Seen!Spec

\* So the theorems of CoordServer hold of it.
ProvedSeen == INSTANCE CoordServer_proofs WITH spec <- SpecSeen

LEMMA SeenData ==
  /\ Seen!PatchReifySpecRequest = ProvedSeen!PatchReifySpecRequest
  /\ Seen!NetworkCensored = ProvedSeen!NetworkCensored
BY DEF Seen!PatchReifySpecRequest, ProvedSeen!PatchReifySpecRequest,
   Seen!Patchable, ProvedSeen!Patchable, Seen!PatchableField,
   ProvedSeen!PatchableField, Seen!NetworkCensored, ProvedSeen!NetworkCensored,
   Seen!NetworkDeviceCensored, ProvedSeen!NetworkDeviceCensored

LEMMA SeenPatch ==
  ASSUME NEW tok, NEW n, NEW d, NEW b
  PROVE  Seen!PatchReifySpec(tok, n, d, b) <=> ProvedSeen!PatchReifySpec(tok, n, d, b)
BY ZenonT(30) DEF
   Seen!PatchReifySpec, ProvedSeen!PatchReifySpec, Seen!Admitted,
   ProvedSeen!Admitted, Seen!VerifyIdentity, ProvedSeen!VerifyIdentity,
   Seen!PatchValid, ProvedSeen!PatchValid, Seen!Patched, ProvedSeen!Patched,
   Seen!Clone, ProvedSeen!Clone, Seen!CloneDevice, ProvedSeen!CloneDevice,
   Seen!UpdateSpecNoLock, ProvedSeen!UpdateSpecNoLock, Seen!Kept, ProvedSeen!Kept,
   Seen!Keep, ProvedSeen!Keep, Seen!SliceUnion, ProvedSeen!SliceUnion,
   Seen!NoMarks, ProvedSeen!NoMarks, Seen!StillAccepted, ProvedSeen!StillAccepted,
   Seen!IsSpec, ProvedSeen!IsSpec, Seen!IsNetwork, ProvedSeen!IsNetwork,
   Seen!NetworkDevice, ProvedSeen!NetworkDevice, Seen!Identity,
   ProvedSeen!Identity, Seen!NetworkCensored, ProvedSeen!NetworkCensored,
   Seen!NetworkDeviceCensored, ProvedSeen!NetworkDeviceCensored, Seen!Known,
   ProvedSeen!Known, Seen!NetworkCensoredEqual, ProvedSeen!NetworkCensoredEqual,
   Seen!DeviceEqual, ProvedSeen!DeviceEqual, Seen!CensorForDevice,
   ProvedSeen!CensorForDevice, Seen!Visible, ProvedSeen!Visible, Seen!Censored,
   ProvedSeen!Censored

LEMMA SeenPost ==
  ASSUME NEW tok, NEW n, NEW d, NEW rep
  PROVE  Seen!PostReifyStatus(tok, n, d, rep) <=> ProvedSeen!PostReifyStatus(tok, n, d, rep)
BY DEF
   Seen!PostReifyStatus, ProvedSeen!PostReifyStatus, Seen!Admitted,
   ProvedSeen!Admitted, Seen!VerifyIdentity, ProvedSeen!VerifyIdentity,
   Seen!ReportIsCurrent, ProvedSeen!ReportIsCurrent, Seen!IsSpec,
   ProvedSeen!IsSpec, Seen!IsNetwork, ProvedSeen!IsNetwork, Seen!NetworkDevice,
   ProvedSeen!NetworkDevice, Seen!Identity, ProvedSeen!Identity,
   Seen!NetworkCensored, ProvedSeen!NetworkCensored,
   Seen!NetworkDeviceCensored, ProvedSeen!NetworkDeviceCensored, Seen!Known,
   ProvedSeen!Known, Seen!NetworkCensoredEqual, ProvedSeen!NetworkCensoredEqual,
   Seen!DeviceEqual, ProvedSeen!DeviceEqual, Seen!CensorForDevice,
   ProvedSeen!CensorForDevice, Seen!Visible, ProvedSeen!Visible, Seen!Censored,
   ProvedSeen!Censored

LEMMA SeenUpdate ==
  ASSUME NEW new
  PROVE  Seen!UpdateSpec(new) <=> ProvedSeen!UpdateSpec(new)
BY ZenonT(30) DEF
   Seen!UpdateSpec, ProvedSeen!UpdateSpec, Seen!UpdateSpecNoLock,
   ProvedSeen!UpdateSpecNoLock, Seen!Kept, ProvedSeen!Kept, Seen!Keep,
   ProvedSeen!Keep, Seen!SliceUnion, ProvedSeen!SliceUnion, Seen!NoMarks,
   ProvedSeen!NoMarks, Seen!StillAccepted, ProvedSeen!StillAccepted, Seen!IsSpec,
   ProvedSeen!IsSpec, Seen!IsNetwork, ProvedSeen!IsNetwork, Seen!NetworkDevice,
   ProvedSeen!NetworkDevice, Seen!Identity, ProvedSeen!Identity,
   Seen!NetworkCensored, ProvedSeen!NetworkCensored,
   Seen!NetworkDeviceCensored, ProvedSeen!NetworkDeviceCensored, Seen!Known,
   ProvedSeen!Known, Seen!NetworkCensoredEqual, ProvedSeen!NetworkCensoredEqual,
   Seen!DeviceEqual, ProvedSeen!DeviceEqual, Seen!CensorForDevice,
   ProvedSeen!CensorForDevice, Seen!Visible, ProvedSeen!Visible, Seen!Censored,
   ProvedSeen!Censored

LEMMA SeenRestart ==
  ASSUME NEW config
  PROVE  Seen!Restart(config) <=> ProvedSeen!Restart(config)
BY DEF Seen!Restart, ProvedSeen!Restart, Seen!Identity, ProvedSeen!Identity,
   Seen!NoMarks, ProvedSeen!NoMarks

LEMMA SeenInit == Seen!Init <=> ProvedSeen!Init
BY DEF Seen!Init, ProvedSeen!Init, Seen!Identity, ProvedSeen!Identity, Seen!NoMarks,
   ProvedSeen!NoMarks

LEMMA SeenNext == Seen!Next <=> ProvedSeen!Next
BY SeenData, SeenPatch, SeenPost, SeenUpdate, SeenRestart DEF Seen!Next, ProvedSeen!Next

SeenInv == Seen!TypeOK /\ Seen!LatestIsCurrent

LEMMA SeenInvSame == SeenInv <=> ProvedSeen!Inv
BY DEF SeenInv,
   Seen!TypeOK, ProvedSeen!TypeOK, Seen!LatestIsCurrent,
   ProvedSeen!LatestIsCurrent, Seen!IsSpec, ProvedSeen!IsSpec, Seen!IsNetwork,
   ProvedSeen!IsNetwork, Seen!NetworkDevice, ProvedSeen!NetworkDevice,
   Seen!Identity, ProvedSeen!Identity, Seen!NetworkCensored,
   ProvedSeen!NetworkCensored, Seen!NetworkDeviceCensored,
   ProvedSeen!NetworkDeviceCensored, Seen!Known, ProvedSeen!Known,
   Seen!NetworkCensoredEqual, ProvedSeen!NetworkCensoredEqual,
   Seen!DeviceEqual, ProvedSeen!DeviceEqual, Seen!CensorForDevice,
   ProvedSeen!CensorForDevice, Seen!Visible, ProvedSeen!Visible, Seen!Censored,
   ProvedSeen!Censored, ProvedSeen!Inv

LEMMA SeenInitInv ==
  ASSUME Seen!Init PROVE SeenInv
<1>1. ProvedSeen!Init
  BY SeenInit
<1>2. ProvedSeen!Inv
  BY <1>1, ProvedSeen!InitInv, ServerAssumption, AttributeAssumption
  DEF Identity, ProvedSeen!Identity, NetworkCensored, ProvedSeen!NetworkCensored,
      NetworkDeviceCensored, ProvedSeen!NetworkDeviceCensored, IsSpec,
      ProvedSeen!IsSpec, IsNetwork, ProvedSeen!IsNetwork, NetworkDevice,
      ProvedSeen!NetworkDevice, PatchableField, ProvedSeen!PatchableField,
      FixedField, ProvedSeen!FixedField
<1> QED
  BY <1>2, SeenInvSame

LEMMA SeenStepInv ==
  ASSUME SeenInv, [Seen!Next]_Seen!vars PROVE SeenInv'
<1>1. ProvedSeen!Inv
  BY SeenInvSame
<1>2. [ProvedSeen!Next]_ProvedSeen!vars
  BY SeenNext DEF Seen!vars, ProvedSeen!vars
<1>3. ProvedSeen!Inv'
  BY <1>1, <1>2, ProvedSeen!StepInv, ServerAssumption, AttributeAssumption
  DEF Identity, ProvedSeen!Identity, NetworkCensored, ProvedSeen!NetworkCensored,
      NetworkDeviceCensored, ProvedSeen!NetworkDeviceCensored, IsSpec,
      ProvedSeen!IsSpec, IsNetwork, ProvedSeen!IsNetwork, NetworkDevice,
      ProvedSeen!NetworkDevice, PatchableField, ProvedSeen!PatchableField,
      FixedField, ProvedSeen!FixedField
<1> QED
  BY <1>3, SeenInvSame, PTL

\* Unless somebody is between the change of latest and that of the spec, whoever
\* is listed as latest has applied the present spec.
THEOREM ListsAreCurrent == Spec => []ListedIsCurrent
<1>1. Spec => []SeenInv
  BY HandlersImplementServer, SeenInitInv, SeenStepInv, PTL DEF Seen!Spec
<1>2. SeenInv => ListedIsCurrent
  <2> SUFFICES ASSUME SeenInv, Replacing = {} PROVE Server!LatestIsCurrent
    BY DEF ListedIsCurrent
  <2>1. SpecSeen = spec
    BY DEF SpecSeen
  <2> QED
    BY <2>1, SameComparison, SameView DEF SeenInv, Seen!LatestIsCurrent, Server!LatestIsCurrent,
       Seen!Known, Server!Known, Seen!NetworkCensored, Server!NetworkCensored,
       Seen!NetworkDeviceCensored, Server!NetworkDeviceCensored
<1> QED
  BY <1>1, <1>2, PTL
=============================================================================
