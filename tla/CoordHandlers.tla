---------------------------- MODULE CoordHandlers ----------------------------
(***************************************************************************)
(* The handlers of the coordination server step by step: several requests  *)
(* are in progress at once, each in its goroutine, and what one step does  *)
(* to spec or latest is seen by the next step of another unless the locks  *)
(* keep it out.  Every handler has the same course, of which it leaves     *)
(* steps out:                                                              *)
(*                                                                         *)
(*   ask      verifyIdentity; call Lock or RLock of specLock               *)
(*   check    once specLock is held: do network and device exist?          *)
(*   body     read and decode the body (PATCH and POST)                    *)
(*   latest   call Lock or RLock of latestLock                             *)
(*   write    once latestLock is held: read or change latest               *)
(*   replace  updateSpecNoLock comes to its last line, s.spec = newSpec    *)
(*   reply    the answer is written; the deferred unlocks run              *)
(*                                                                         *)
(* That these steps amount to the single actions of CoordServer is what    *)
(* Linearizes says.                                                        *)
(***************************************************************************)
EXTENDS NetworkSpec

CONSTANTS
  Token, Identities, Configs, NoReport, MaxMarks,  \* see CoordServer
  Slot,         \* bound: connections; the requests on one come one by one
  Nobody,       \* no goroutine
  Requests,     \* the requests that arrive over each
  PatchBody,    \* bodies of PATCH requests
  PostBody,     \* bodies of POST requests
  None          \* no request, no body, no answer

VARIABLES
  spec, latest, accepted, boot,   \* the server, see CoordServer
  specLock, latestLock,
  pc,        \* where the handler of each slot is
  req,       \* its request line and credentials
  body,      \* its decoded body
  newSpec,   \* its newSpec, cloned from spec and changed, before it is stored
  reply      \* its answer, or what it has written of it

serverVars == <<spec, latest, accepted, boot>>
handlerVars == <<pc, req, body, newSpec, reply>>
vars == <<spec, latest, accepted, boot, specLock, latestLock, pc, req, body, newSpec, reply>>

Server == INSTANCE CoordServer

INSTANCE RWMutex WITH Goroutine <- Slot

\* updateSpec takes a request to be called too: its body is the new spec.
Kind == {"latest", "spec", "patch", "post", "update"}

Request == [kind : Kind, tok : Token, net : NetworkName, dev : DeviceName]

\* As in CoordServer.
ASSUME ServerAssumption ==
  /\ Identities \in [Token -> SUBSET Identity]
  /\ \A config \in Configs : IsSpec(config)
  /\ NoReport \notin NetworkCensored
  /\ MaxMarks \in Nat \ {0}

ASSUME HandlersAssumption ==
  /\ Nobody \notin Slot
  /\ Requests \in [Slot -> SUBSET Request]
  /\ PatchBody \subseteq Server!PatchReifySpecRequest
  /\ PostBody \subseteq NetworkCensored
  /\ None \notin [code : Nat, says : BOOLEAN \cup {None}]
  /\ None \notin [code : Nat, says : NetworkCensored]

\* Status code, and what the body of the answer says (for POST and GET).
Answer(code, says) == [code |-> code, says |-> says]

\* The handler of a POST has written that it could not decode the body, and gone on.
Undecoded(s) ==
  /\ req[s].kind = "post" /\ pc[s] \in {"latest", "write"}
  /\ reply[s] = Answer(400, None)

TypeOK ==
  /\ Server!TypeOK
  /\ specLock \in RWMutex /\ latestLock \in RWMutex
  /\ pc \in [Slot -> {"idle", "ask", "check", "body", "latest", "write", "replace", "reply"}]
  /\ \A s \in Slot : IF pc[s] = "idle" THEN req[s] = None ELSE req[s] \in Requests[s]
  /\ \A s \in Slot : \/ body[s] = None
                     \/ req[s].kind = "patch" /\ body[s] \in PatchBody
                     \/ req[s].kind = "post" /\ body[s] \in PostBody
  /\ \A s \in Slot : newSpec[s] = None \/ IsSpec(newSpec[s])
  /\ \A s \in Slot : /\ pc[s] = "reply" => reply[s] # None
                     /\ reply[s] # None => pc[s] = "reply" \/ Undecoded(s)

-----------------------------------------------------------------------------
(* Locks *)

Goto(s, l) == pc' = [pc EXCEPT ![s] = l]

\* Mutation of WritesSpec: PATCH, which does not touch s.spec before it has
\* latestLock too, takes specLock for reading.
WritesSpecLate == {"post", "update"}

\* The handlers that take specLock, and latestLock, for writing.
WritesSpec == {"patch", "post", "update"}

WritesLatest == {"patch", "post", "update"}

\* The handler calls Lock (if it writes) or RLock of a lock.
Take(lock, s, writes) ==
  IF writes THEN CanLock(lock) /\ lock' = Lock(lock, s) ELSE lock' = RLock(lock, s)

Holds(lock, s, writes) == IF writes THEN Locked(lock, s) ELSE RLocked(lock, s)

Release(lock, s) ==
  lock' = CASE lock.writer = s -> Unlock(lock)
            [] s \in lock.readers -> RUnlock(lock, s)
            [] OTHER -> lock

HasSpecLock(s) == Holds(specLock, s, req[s].kind \in WritesSpec)

HasLatestLock(s) == Holds(latestLock, s, req[s].kind \in WritesLatest)

-----------------------------------------------------------------------------
(* The course of a handler *)

\* What arrives of an answer after an earlier one: net/http keeps the status that
\* was written first.
Sent(first, answer) == IF first = None THEN answer ELSE first

\* A request arrives, or updateSpec is called.
Receive(s, r) ==
  /\ pc[s] = "idle"
  /\ req' = [req EXCEPT ![s] = r]
  /\ Goto(s, "ask")
  /\ UNCHANGED <<serverVars, specLock, latestLock, body, newSpec, reply>>

AnswerWith(s, answer) ==
  /\ reply' = [reply EXCEPT ![s] = answer]
  /\ Goto(s, "reply")

Verified(s) ==
  req[s].kind = "update" \/ Server!VerifyIdentity(req[s].tok, req[s].net, req[s].dev)

Refuse(s) ==
  /\ pc[s] = "ask" /\ ~Verified(s)
  /\ AnswerWith(s, Answer(401, None))
  /\ UNCHANGED <<serverVars, specLock, latestLock, req, body, newSpec>>

AskSpecLock(s) ==
  /\ pc[s] = "ask" /\ Verified(s)
  /\ Take(specLock, s, req[s].kind \in WritesSpec)
  /\ Goto(s, "check")
  /\ UNCHANGED <<serverVars, latestLock, req, body, newSpec, reply>>

Found(s) == Known(spec, req[s].net, req[s].dev)

NotFound(s) ==
  /\ pc[s] = "check" /\ HasSpecLock(s)
  /\ req[s].kind # "update" /\ ~Found(s)
  /\ AnswerWith(s, Answer(404, None))
  /\ UNCHANGED <<serverVars, specLock, latestLock, req, body, newSpec>>

\* GET spec has all it needs; GET latest needs latestLock; the others their body.
Check(s) ==
  /\ pc[s] = "check" /\ HasSpecLock(s)
  /\ req[s].kind # "update" /\ Found(s)
  /\ CASE req[s].kind = "spec" ->
            AnswerWith(s, Answer(200, Server!GetReifySpec(req[s].net, req[s].dev)))
       [] req[s].kind = "latest" -> Goto(s, "latest") /\ UNCHANGED reply
       [] OTHER -> Goto(s, "body") /\ UNCHANGED reply
  /\ UNCHANGED <<serverVars, specLock, latestLock, req, body, newSpec>>

\* updateSpec is given the new spec by its caller.
BeginUpdate(s) ==
  /\ pc[s] = "check" /\ HasSpecLock(s)
  /\ req[s].kind = "update"
  /\ \E config \in Configs :
       newSpec' = [newSpec EXCEPT ![s] = config]
  /\ Goto(s, "latest")
  /\ UNCHANGED <<serverVars, specLock, latestLock, req, body, reply>>

\* Mutation of BadBody: the handler goes on after its answer, as that of POST.
BadBodyGoesOn(s) ==
  /\ pc[s] = "body" /\ req[s].kind = "patch"
  /\ reply' = [reply EXCEPT ![s] = Answer(400, None)]
  /\ Goto(s, "latest")
  /\ UNCHANGED <<serverVars, specLock, latestLock, req, body, newSpec>>

\* The body of a PATCH cannot be read (500) or decoded (400).
BadBody(s) ==
  /\ pc[s] = "body" /\ req[s].kind = "patch"
  /\ \E code \in {400, 500} : AnswerWith(s, Answer(code, None))
  /\ UNCHANGED <<serverVars, specLock, latestLock, req, body, newSpec>>

\* The body of a PATCH is there: the spec is cloned and the clone changed.
ReadPatch(s) ==
  /\ pc[s] = "body" /\ req[s].kind = "patch"
  /\ \E b \in PatchBody :
       IF Server!PatchValid(req[s].net, b)
       THEN /\ body' = [body EXCEPT ![s] = b]
            /\ newSpec' = [newSpec EXCEPT ![s] =
                             Server!Patched(req[s].net, req[s].dev, b)]
            /\ Goto(s, "latest")
            /\ UNCHANGED reply
       ELSE AnswerWith(s, Answer(400, None)) /\ UNCHANGED <<body, newSpec>>
  /\ UNCHANGED <<serverVars, specLock, latestLock, req>>

\* Mutation of ReadPost: specLock is given back once the report is compared.
ReadPostUnlocks(s) ==
  /\ pc[s] = "body" /\ req[s].kind = "post"
  /\ \E b \in PostBody, written \in {None, Answer(400, None)} :
       /\ body' = [body EXCEPT ![s] = b]
       /\ IF Server!ReportIsCurrent(req[s].net, req[s].dev, b)
          THEN /\ reply' = [reply EXCEPT ![s] = written]
               /\ Goto(s, "latest")
               /\ Release(specLock, s)
          ELSE AnswerWith(s, Sent(written, Answer(200, FALSE))) /\ UNCHANGED specLock
  /\ UNCHANGED <<serverVars, latestLock, req, newSpec>>

\* The body of a POST is there; or it cannot be decoded, which is answered with
\* 400, and the handler goes on all the same with what was decoded of it.
ReadPost(s) ==
  /\ pc[s] = "body" /\ req[s].kind = "post"
  /\ \E b \in PostBody, written \in {None, Answer(400, None)} :
       /\ body' = [body EXCEPT ![s] = b]
       /\ IF Server!ReportIsCurrent(req[s].net, req[s].dev, b)
          THEN reply' = [reply EXCEPT ![s] = written] /\ Goto(s, "latest")
          ELSE AnswerWith(s, Sent(written, Answer(200, FALSE)))
  /\ UNCHANGED <<serverVars, specLock, latestLock, req, newSpec>>

AskLatestLock(s) ==
  /\ pc[s] = "latest"
  /\ Take(latestLock, s, req[s].kind \in WritesLatest)
  /\ Goto(s, "write")
  /\ UNCHANGED <<serverVars, specLock, req, body, newSpec, reply>>

ReadLatest(s) ==
  /\ pc[s] = "write" /\ HasLatestLock(s) /\ req[s].kind = "latest"
  /\ AnswerWith(s, Answer(200, Server!GetReifyLatest(req[s].net, req[s].dev)))
  /\ UNCHANGED <<serverVars, specLock, latestLock, req, body, newSpec>>

AppendLatest(s) ==
  /\ pc[s] = "write" /\ HasLatestLock(s) /\ req[s].kind = "post"
  /\ latest' = [latest EXCEPT ![req[s].net][req[s].dev] = IF @ < MaxMarks THEN @ + 1 ELSE @]
  /\ accepted' = [accepted EXCEPT ![<<req[s].net, req[s].dev>>] = body[s]]
  /\ AnswerWith(s, Sent(reply[s], Answer(200, TRUE)))
  /\ UNCHANGED <<spec, boot, specLock, latestLock, req, body, newSpec>>

\* updateSpecNoLock, up to its last line.
UpdateLatest(s) ==
  /\ pc[s] = "write" /\ HasLatestLock(s) /\ req[s].kind \in {"patch", "update"}
  /\ latest' = Server!Kept(newSpec[s])
  /\ accepted' = Server!StillAccepted
  /\ Goto(s, "replace")
  /\ UNCHANGED <<spec, boot, specLock, latestLock, req, body, newSpec, reply>>

\* Its last line.
ReplaceSpec(s) ==
  /\ pc[s] = "replace"
  /\ spec' = newSpec[s]
  /\ AnswerWith(s, Answer(204, None))
  /\ UNCHANGED <<latest, accepted, boot, specLock, latestLock, req, body, newSpec>>

Forget(s) ==
  /\ req' = [req EXCEPT ![s] = None]
  /\ body' = [body EXCEPT ![s] = None]
  /\ newSpec' = [newSpec EXCEPT ![s] = None]
  /\ reply' = [reply EXCEPT ![s] = None]

\* Mutation of Return: an early return after specLock forgets to unlock it.
ReturnKeepsLock(s) ==
  /\ pc[s] = "reply"
  /\ Release(latestLock, s)
  /\ IF reply[s].code = 400 THEN UNCHANGED specLock ELSE Release(specLock, s)
  /\ Forget(s)
  /\ Goto(s, "idle")
  /\ UNCHANGED serverVars

\* The deferred unlocks.  Between the two of them nothing can happen to
\* latestLock: whoever asks for it holds specLock.
Return(s) ==
  /\ pc[s] = "reply"
  /\ Release(latestLock, s)
  /\ Release(specLock, s)
  /\ Forget(s)
  /\ Goto(s, "idle")
  /\ UNCHANGED serverVars

Handle(s) ==
  \/ Refuse(s) \/ AskSpecLock(s)
  \/ NotFound(s) \/ Check(s) \/ BeginUpdate(s)
  \/ BadBody(s) \/ ReadPatch(s) \/ ReadPost(s)
  \/ AskLatestLock(s) \/ ReadLatest(s) \/ AppendLatest(s)
  \/ UpdateLatest(s) \/ ReplaceSpec(s)
  \/ Return(s)

\* The process ends, with every request in progress, and is started again.
Restart(config) ==
  /\ Server!Restart(config)
  /\ specLock' = Unlocked /\ latestLock' = Unlocked
  /\ pc' = [s \in Slot |-> "idle"]
  /\ req' = [s \in Slot |-> None]
  /\ body' = [s \in Slot |-> None]
  /\ newSpec' = [s \in Slot |-> None]
  /\ reply' = [s \in Slot |-> None]

-----------------------------------------------------------------------------

Init ==
  /\ Server!Init
  /\ specLock = Unlocked /\ latestLock = Unlocked
  /\ pc = [s \in Slot |-> "idle"]
  /\ req = [s \in Slot |-> None]
  /\ body = [s \in Slot |-> None]
  /\ newSpec = [s \in Slot |-> None]
  /\ reply = [s \in Slot |-> None]

Next ==
  \/ \E s \in Slot : \E r \in Requests[s] : Receive(s, r)
  \/ \E s \in Slot : Handle(s)
  \/ \E config \in Configs : Restart(config)

Spec == Init /\ [][Next]_vars

\* Goroutines are scheduled, and every body arrives or its connection breaks
\* (the server itself sets no deadline).  Fairness is strong for those who wait
\* to become the writer while others come and go: sync.Mutex, on which RWMutex
\* queues its writers, hands itself to whoever waited for a millisecond.  All
\* other steps, once possible, stay possible.
Fairness == \A s \in Slot : SF_vars(Handle(s))

FairSpec == Spec /\ Fairness

-----------------------------------------------------------------------------
(* Properties *)

\* The server as those see it that respect the locks: from the moment that
\* updateSpecNoLock has changed latest, the new spec counts.
Replacing == {s \in Slot : pc[s] = "replace"}

SpecSeen == IF Replacing = {} THEN spec ELSE newSpec[CHOOSE s \in Replacing : TRUE]

Seen == INSTANCE CoordServer WITH spec <- SpecSeen

\* What request s does in one step of CoordServer.
Effect(s) ==
  /\ pc[s] = "write"
  /\ LET n == req[s].net  d == req[s].dev  t == req[s].tok
     IN \/ req[s].kind = "patch" /\ Seen!PatchReifySpec(t, n, d, body[s])
        \/ req[s].kind = "post" /\ Seen!PostReifyStatus(t, n, d, body[s])
        \/ req[s].kind = "update" /\ Seen!UpdateSpec(newSpec[s])

\* However the handlers interleave, the server changes as if each request that
\* changes it were handled in one step ("Server.specLock and Server.latestLock
\* is taken by this function", update.go): no patch is lost under another, no
\* report is accepted against a spec that has gone.
Linearizes ==
  [][\/ UNCHANGED <<SpecSeen, latest, accepted, boot>>
     \/ \E s \in Slot : Effect(s)
     \/ \E config \in Configs : Seen!Restart(config)]_vars

\* "latest lists which devices have applied the latest spec" (server.go), with
\* any number of handlers at work: unless one of them is between the change of
\* latest and that of the spec, which both locks hide, the lists name nobody
\* who was not told, and nobody for another spec than the present one.
ListedIsCurrent == Replacing = {} => Server!LatestIsCurrent

\* What the answer to a request means: 404 that there is no such device, a 200 to
\* GET or POST what it says, and a 204 that what the patch sets is set.  A 400 to a
\* PATCH means that it was not taken, which Linearizes includes.  A 400 to a POST
\* means nothing: the handler goes on after it, and may enter the device in latest.
IsRight(s) ==
  LET n == req[s].net  d == req[s].dev  says == reply[s].says
      Answers(kind, code) == req[s].kind = kind /\ reply[s].code = code
  IN /\ reply[s].code = 404 => ~Known(spec, n, d)
     /\ Answers("latest", 200) =>
          Known(spec, n, d) /\ says = Server!GetReifyLatest(n, d)
     /\ Answers("spec", 200) =>
          Known(spec, n, d) /\ says = Server!GetReifySpec(n, d)
     /\ Answers("post", 200) =>
          /\ Known(spec, n, d)
          /\ says = Server!ReportIsCurrent(n, d, body[s])
          /\ says => Server!GetReifyLatest(n, d)
     /\ Answers("patch", 204) =>
          /\ \A f \in DOMAIN body[s].attrs : spec[n][d].attrs[f] = body[s].attrs[f]
          /\ body[s].AccessibleSet => spec[n][d].Accessible = body[s].Accessible

\* An answer that is not an error says what is so while it is written: latest and
\* the view of the GET handlers are those of one moment, a report that was answered
\* Latest = TRUE is that of the present spec, a 204 means that the patch is in it.
AnswerIsRight == \A s \in Slot : pc[s] = "reply" => IsRight(s)

\* Nobody waits for ever: not for a lock that was not given back, and not in a
\* circle of handlers that took specLock and latestLock in different orders.
EveryRequestAnswered == \A s \in Slot : pc[s] # "idle" ~> pc[s] = "idle"
=============================================================================
