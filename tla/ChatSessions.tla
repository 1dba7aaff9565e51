---------------------------- MODULE ChatSessions ----------------------------
(***************************************************************************)
(* The chat of a Trae worker with the automation gateway: the session      *)
(* store (automation-gateway-core/src/session-store.ts), the handlers of   *)
(* the gateway (gateway-handler.ts) and the execution of a task by the     *)
(* worker (trae-beta-runtime/src/runtime/worker.ts).  Several gateway      *)
(* processes share one state directory; what they do under the lock of the *)
(* session file is one step.  The driver of the Trae window is external.   *)
(***************************************************************************)
EXTENDS Naturals

CONSTANTS
    Gateways,   \* gateway processes with one state directory
    Workers,
    MaxRuns,    \* bound: the executions of a worker
    GatewayOf,  \* [SessionIds -> Gateways]: the one each run of a worker talks to
    None

(* A worker prepares one session in each of its runs. *)
SessionIds == Workers \X (1..MaxRuns)

ASSUME ChatAssumption == MaxRuns \in Nat \ {0} /\ GatewayOf \in [SessionIds -> Gateways]

VARIABLES
    disk,   \* sessions.json: the record of each session, or None
    cache,  \* what a gateway process last read or wrote, None if it is down
    calls,  \* the handlers that await the driver
    quiet,  \* the sessions without activity for longer than the threshold
    exec    \* the execution of each worker

vars == <<disk, cache, calls, quiet, exec>>

-----------------------------------------------------------------------------
(* Sessions *)

(* What an answer names: the task of the prompt, the template, another one. *)
Answers == {"own", "echo", "foreign"}

Terminal == {"completed", "failed", "interrupted"}

Sessions == [status : {"prepared", "running"} \cup Terminal, text : Answers \cup {None}]

Prepared == [status |-> "prepared", text |-> None]

Has(s, T) == disk[s] # None /\ disk[s].status \in T

Up(g) == cache[g] # None

(* Defect: the process goes by what it read or wrote before. *)
LatestKnown(g) == cache[g]

(* applyLocalChanges: the cache has no changes of its own, the file counts. *)
Latest(g) == disk

Save(g, sessions) == disk' = sessions /\ cache' = [cache EXCEPT ![g] = sessions]

(* update: of a session that is gone nothing is recorded. *)
Update(g, s, status, text) ==
    Save(g, [Latest(g) EXCEPT ![s] =
                IF @ = None THEN None ELSE [status |-> status, text |-> text]])

TextOf(g, s) == IF Latest(g)[s] = None THEN None ELSE Latest(g)[s].text

MarkRunning(g, s) == Update(g, s, "running", TextOf(g, s)) /\ quiet' = quiet \ {s}

Interrupted(r) ==
    IF r = None \/ r.status \in Terminal THEN r ELSE [r EXCEPT !.status = "interrupted"]

-----------------------------------------------------------------------------
(* Executions *)

FreshRun(n) == [run |-> n, pc |-> "ready", session |-> None, answer |-> None]

At(w, pc) == exec[w].pc = pc

OwnId(w) == <<w, exec[w].run>>

Become(w, e) == exec' = [exec EXCEPT ![w] = e]

Goto(w, pc) == Become(w, [exec[w] EXCEPT !.pc = pc])

NextRun(w) ==
    IF exec[w].run < MaxRuns THEN FreshRun(exec[w].run + 1)
    ELSE [exec[w] EXCEPT !.pc = "done", !.session = None, !.answer = None]

(* The worker that waits, in this state, for an answer about session s.     *)
Waits(s, pc) == exec[s[1]].pc = pc /\ exec[s[1]].run = s[2]

InUse(s) == exec[s[1]].run = s[2] /\ ~At(s[1], "done")

Reply(s, pc, e) == exec' = IF Waits(s, pc) THEN [exec EXCEPT ![s[1]] = e] ELSE exec

Told(s, pc) == [exec[s[1]] EXCEPT !.pc = pc]

Awaits(g, kind, s) == [gateway |-> g, kind |-> kind, session |-> s]

-----------------------------------------------------------------------------
(* Gateway processes *)

(* startTraeAutomationGateway: the sessions are loaded, those at work are   *)
(* interrupted and those that ended long ago are pruned, before the process *)
(* listens.  What was interrupted just now is not old.                      *)
GatewayStarts(g) ==
    /\ ~Up(g)
    /\ \E expired \in SUBSET {s \in SessionIds : Has(s, Terminal) /\ ~InUse(s)} :
         Save(g, [s \in SessionIds |-> IF s \in expired THEN None ELSE Interrupted(disk[s])])
    /\ UNCHANGED <<calls, quiet, exec>>

GatewayStops(g) ==
    /\ Up(g)
    /\ cache' = [cache EXCEPT ![g] = None]
    /\ calls' = {c \in calls : c.gateway # g}
    /\ UNCHANGED <<disk, quiet, exec>>

(* The answer of the driver to prepareSession.  When it fails the session   *)
(* stays prepared.                                                          *)
PrepareReturns(c) ==
    /\ c.kind = "prepare" /\ calls' = calls \ {c}
    /\ \/ /\ MarkRunning(c.gateway, c.session)
          /\ \/ Reply(c.session, "preparing",
                      [Told(c.session, "send") EXCEPT !.session = c.session])
             \/ Reply(c.session, "preparing", Told(c.session, "failed"))
       \/ /\ Reply(c.session, "preparing", Told(c.session, "failed"))
          /\ UNCHANGED <<disk, cache, quiet>>

(* The driver has an answer.  The worker may miss it, with an error that    *)
(* reads as a timeout or with another one.                                  *)
ChatAnswers(c) ==
    \E a \in Answers :
        /\ Update(c.gateway, c.session, "completed", a)
        /\ \/ Reply(c.session, "waiting", [Told(c.session, "answered") EXCEPT !.answer = a])
           \/ \E pc \in {"poll", "failed"} : Reply(c.session, "waiting", Told(c.session, pc))
        /\ UNCHANGED quiet

ChatFails(c) ==
    /\ Update(c.gateway, c.session, "failed", TextOf(c.gateway, c.session))
    /\ \E pc \in {"poll", "failed"} : Reply(c.session, "waiting", Told(c.session, pc))
    /\ UNCHANGED quiet

(* A timeout leaves the session running.  The driver reports no progress    *)
(* meanwhile, and waits longer than the threshold of inactivity.            *)
ChatTimesOut(c) ==
    /\ c.session \in quiet
    /\ Reply(c.session, "waiting", Told(c.session, "poll"))
    /\ UNCHANGED <<disk, cache, quiet>>

ChatReturns(c) ==
    /\ c.kind = "chat" /\ calls' = calls \ {c}
    /\ ChatAnswers(c) \/ ChatFails(c) \/ ChatTimesOut(c)

-----------------------------------------------------------------------------
(* The worker *)

PrepareSession(w) ==
    LET g == GatewayOf[OwnId(w)] s == OwnId(w)
    IN /\ At(w, "ready") /\ Up(g)
       /\ Save(g, [Latest(g) EXCEPT ![s] = Prepared])
       /\ calls' = calls \cup {Awaits(g, "prepare", s)}
       /\ quiet' = quiet \ {s}
       /\ Goto(w, "preparing")

(* validateChatSession: the record is looked up in the cache.               *)
Chat(w) ==
    LET g == GatewayOf[OwnId(w)] s == exec[w].session seen == cache[g][s]
    IN /\ At(w, "send") /\ Up(g)
       /\ IF seen # None /\ seen.status = "running"
          THEN Goto(w, "failed") /\ UNCHANGED <<disk, cache, calls, quiet>>
          ELSE IF seen # None /\ seen.status = "completed"
          THEN /\ Become(w, [exec[w] EXCEPT !.pc = "answered", !.answer = seen.text])
               /\ UNCHANGED <<disk, cache, calls, quiet>>
          ELSE /\ IF seen = None THEN UNCHANGED <<disk, cache, quiet>> ELSE MarkRunning(g, s)
               /\ calls' = calls \cup {Awaits(g, "chat", s)}
               /\ Goto(w, "waiting")

(* A request of the worker is refused, or its connection is cut.            *)
Unreachable(w) ==
    /\ \/ At(w, "ready") /\ ~Up(GatewayOf[OwnId(w)])
       \/ At(w, "send") /\ ~Up(GatewayOf[OwnId(w)])
       \/ At(w, "preparing") /\ Awaits(GatewayOf[OwnId(w)], "prepare", OwnId(w)) \notin calls
       \/ At(w, "waiting") /\ Awaits(GatewayOf[OwnId(w)], "chat", OwnId(w)) \notin calls
    /\ Goto(w, "failed")
    /\ UNCHANGED <<disk, cache, calls, quiet>>

(* The request for the chat times out, the handler goes on.                 *)
RequestTimesOut(w) ==
    /\ At(w, "waiting") /\ exec[w].session \in quiet
    /\ Goto(w, "poll")
    /\ UNCHANGED <<disk, cache, calls, quiet>>

(* The progress reported to the dispatcher is not heard: for the worker a   *)
(* failure like any other, and after the prompt perhaps a timeout.          *)
ProgressUnheard(w) ==
    /\ \/ exec[w].pc \in {"ready", "send", "answered", "poll"} /\ Goto(w, "failed")
       \/ At(w, "answered") /\ Goto(w, "poll")
    /\ UNCHANGED <<disk, cache, calls, quiet>>

(* A report of another task is looked for in the session once more.         *)
ReadAnswer(w) ==
    /\ At(w, "answered")
    /\ \/ exec[w].answer = "own" /\ Goto(w, "submit")
       \/ exec[w].answer = "echo" /\ Goto(w, "poll")
       \/ exec[w].answer = "foreign" /\ Goto(w, "failed")
    /\ UNCHANGED <<disk, cache, calls, quiet>>

(* pollSessionStatus, and what the worker makes of it.  A session that the  *)
(* gateway does not find is asked for again.                                *)
Poll(w) ==
    LET g == GatewayOf[OwnId(w)] s == exec[w].session
    IN /\ At(w, "poll") /\ Up(g)
       /\ cache' = [cache EXCEPT ![g] = disk]
       /\ \/ Has(s, {"completed"}) /\ disk[s].text = "own" /\ Goto(w, "submit")
          \/ Has(s, {"completed"}) /\ disk[s].text # "own" /\ Goto(w, "failed")
          \/ Has(s, {"failed", "interrupted"}) /\ Goto(w, "failed")
          \/ ~Has(s, Terminal) /\ IF disk[s] # None /\ s \in quiet
                                  THEN Goto(w, "artifacts") ELSE UNCHANGED exec
       /\ UNCHANGED <<disk, calls, quiet>>

(* Defect: the time is only looked at when the gateway has answered.        *)
DeadlineIfAnswered(w) ==
    /\ At(w, "poll") /\ exec[w].session \in quiet /\ Up(GatewayOf[OwnId(w)])
    /\ \E pc \in {"artifacts", "failed"} : Goto(w, pc)
    /\ UNCHANGED <<disk, cache, calls, quiet>>

(* The hard timeout, before the first poll or in the course of polling.     *)
Deadline(w) ==
    /\ At(w, "poll") /\ exec[w].session \in quiet
    /\ \E pc \in {"artifacts", "failed"} : Goto(w, pc)
    /\ UNCHANGED <<disk, cache, calls, quiet>>

(* Commits on the remote branch stand for a report, else it is a failure.   *)
(* They are looked for once more when the failure is to be submitted.  What *)
(* the result says is left out.                                             *)
CheckArtifacts(w) ==
    /\ \/ exec[w].pc \in {"artifacts", "failed"} /\ Goto(w, "submit")
       \/ At(w, "artifacts") /\ Goto(w, "failed")
    /\ UNCHANGED <<disk, cache, calls, quiet>>

(* The session is released when the result is acknowledged, if the gateway  *)
(* can be reached.                                                          *)
Submit(w) ==
    LET g == GatewayOf[OwnId(w)] s == exec[w].session
    IN /\ At(w, "submit") /\ Become(w, NextRun(w))
       /\ \/ s # None /\ Up(g) /\ Save(g, [Latest(g) EXCEPT ![s] = None])
          \/ UNCHANGED <<disk, cache>>
       /\ UNCHANGED <<calls, quiet>>

Crash(w) ==
    /\ ~At(w, "done") /\ Become(w, NextRun(w))
    /\ UNCHANGED <<disk, cache, calls, quiet>>

Quieten(s) ==
    /\ disk[s] # None /\ s \notin quiet
    /\ quiet' = quiet \cup {s}
    /\ UNCHANGED <<disk, cache, calls, exec>>

-----------------------------------------------------------------------------
Init ==
    /\ disk = [s \in SessionIds |-> None]
    /\ cache = [g \in Gateways |-> None]
    /\ calls = {} /\ quiet = {}
    /\ exec = [w \in Workers |-> FreshRun(1)]

WorkerStep(w) ==
    \/ PrepareSession(w) \/ Chat(w) \/ Unreachable(w) \/ RequestTimesOut(w)
    \/ ProgressUnheard(w) \/ ReadAnswer(w) \/ Poll(w) \/ Deadline(w)
    \/ CheckArtifacts(w) \/ Submit(w) \/ Crash(w)

Next ==
    \/ \E w \in Workers : WorkerStep(w)
    \/ \E c \in calls : PrepareReturns(c) \/ ChatReturns(c)
    \/ \E g \in Gateways : GatewayStarts(g) \/ GatewayStops(g)
    \/ \E s \in SessionIds : Quieten(s)

Spec == Init /\ [][Next]_vars

(* The worker takes its steps and its clock runs; the driver returns, with  *)
(* an error when its own time is over.  Gateways need never be restarted.   *)
FairSpec ==
    /\ Spec
    /\ \A w \in Workers :
        /\ WF_vars(PrepareSession(w) \/ Chat(w) \/ Unreachable(w)
                   \/ ReadAnswer(w) \/ CheckArtifacts(w) \/ Submit(w))
        /\ WF_vars(Deadline(w))
    /\ WF_vars(\E c \in calls : PrepareReturns(c) \/ ChatReturns(c))
    /\ \A s \in SessionIds : WF_vars(Quieten(s))

-----------------------------------------------------------------------------
(* Properties *)

TypeOK ==
    /\ disk \in [SessionIds -> Sessions \cup {None}]
    /\ cache \in [Gateways -> [SessionIds -> Sessions \cup {None}] \cup {None}]
    /\ calls \subseteq [gateway : Gateways, kind : {"prepare", "chat"}, session : SessionIds]
    /\ quiet \subseteq SessionIds
    /\ exec \in [Workers -> [run : 1..MaxRuns,
                             pc : {"ready", "preparing", "send", "waiting", "answered", "poll",
                                   "artifacts", "failed", "submit", "done"},
                             session : SessionIds \cup {None}, answer : Answers \cup {None}]]

(* "overlapping processes of one machine no longer overwrite other sessions *)
(* because each holds an old map" (docs/TECH_DEBT.md, item 4): the answer   *)
(* of a session stays until it is released or has expired, whichever        *)
(* process writes, restarts or fails meanwhile.                             *)
AnswerStays ==
    [][\A s \in SessionIds : Has(s, {"completed"}) => disk'[s] \in {None, disk[s]}]_vars

(* A run of the worker ends, whatever becomes of the gateway, of the prompt *)
(* and of the answer: it waits, polls and checks for a bounded time.        *)
EveryRunEnds ==
    \A w \in Workers : \A n \in 1..MaxRuns :
        (exec[w].run = n /\ ~At(w, "done")) ~> (exec[w].run > n \/ At(w, "done"))

(* "Prepare a reusable session" (docs/API_ENDPOINTS.md): the gateway takes  *)
(* the prompt of the worker in the session it has prepared for it.          *)
PreparedSessionTakesPrompt ==
    \A w \in Workers :
        LET g == GatewayOf[OwnId(w)]
        IN At(w, "send") /\ Up(g) => cache[g][exec[w].session].status # "running"

(* "running: keep polling until the hard timeout" (contract of the gateway, *)
(* soft timeout): the worker does not turn to the artifacts before.         *)
PollsWhileRunning ==
    [][\A w \in Workers : Poll(w) => exec'[w].pc # "artifacts"]_vars

(* "interrupted: by a restart of the gateway" (contract of the gateway): as *)
(* long as the gateway of a prompt is at work its session is running.       *)
LiveChatIsRunning ==
    \A c \in calls : c.kind = "chat" => disk[c.session] = None \/ Has(c.session, {"running"})
=============================================================================
