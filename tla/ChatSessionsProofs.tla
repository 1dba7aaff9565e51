------------------------- MODULE ChatSessionsProofs -------------------------
(***************************************************************************)
(* For any workers, gateway processes and numbers of runs: the answer of a *)
(* session stays until the session is released or has expired.             *)
(*                                                                         *)
(* A gateway writes to a session when a call of the driver about it        *)
(* returns, long after the handler read the session.  That it overwrites   *)
(* no answer rests on the worker: it asks once per session, and only when  *)
(* the call that prepared the session is over.                             *)
(***************************************************************************)
EXTENDS ChatSessions, TLAPS

CallsOn(s) == {c \in calls : c.session = s}

Completed(s) == Has(s, {"completed"})

(* The worker has yet to send the prompt of the session: it may do so now,  *)
(* or in a run to come.                                                     *)
Before(s) ==
    \/ exec[s[1]].run < s[2]
    \/ exec[s[1]].run = s[2] /\ exec[s[1]].pc \in {"ready", "send"}

(* One call at a time is about a session, none once it has an answer, and   *)
(* both only after the worker asked.                                        *)
OneCallPerSession ==
    \A s \in SessionIds :
        /\ \A c, d \in CallsOn(s) : c = d
        /\ Completed(s) \/ Before(s) => CallsOn(s) = {}
        /\ Before(s) => ~Completed(s)

SendsInItsSession ==
    \A w \in Workers : At(w, "send") => exec[w].session = OwnId(w)

Asked == TypeOK /\ OneCallPerSession /\ SendsInItsSession

(* What a step does to the answers that are there.                          *)
AnswersKept ==
    \A s \in SessionIds : Completed(s) => disk'[s] \in {None, disk[s]}

Pcs == {"ready", "preparing", "send", "waiting", "answered", "poll",
        "artifacts", "failed", "submit", "done"}

Execs == [run : 1..MaxRuns, pc : Pcs, session : SessionIds \cup {None},
          answer : Answers \cup {None}]

Disks == [SessionIds -> Sessions \cup {None}]

Caches == [Gateways -> Disks \cup {None}]

CallsType == [gateway : Gateways, kind : {"prepare", "chat"}, session : SessionIds]

LEMMA TypeOKParts ==
    TypeOK <=> /\ disk \in Disks /\ cache \in Caches /\ calls \subseteq CallsType
               /\ quiet \subseteq SessionIds /\ exec \in [Workers -> Execs]
  BY DEF TypeOK, Disks, Caches, CallsType, Execs, Pcs

-----------------------------------------------------------------------------
(* The executions.                                                          *)

(* No session comes to be ahead of its worker again.                        *)
MovesOn ==
    /\ exec' \in [Workers -> Execs]
    /\ \A s \in SessionIds : Before(s)' => Before(s)
    /\ SendsInItsSession'

LEMMA SessionParts ==
    ASSUME NEW s \in SessionIds
    PROVE  s[1] \in Workers /\ s[2] \in 1..MaxRuns /\ s[2] \in Nat /\ s = <<s[1], s[2]>>
  BY ChatAssumption DEF SessionIds

LEMMA BecomeShape ==
    ASSUME NEW w \in Workers, NEW e \in Execs, exec \in [Workers -> Execs], Become(w, e)
    PROVE  /\ exec' \in [Workers -> Execs]
           /\ exec'[w] = e
           /\ \A v \in Workers : v # w => exec'[v] = exec[v]
  BY DEF Become

LEMMA ToldShape ==
    ASSUME NEW e \in Execs, NEW pc \in Pcs
    PROVE  /\ [e EXCEPT !.pc = pc] \in Execs
           /\ [e EXCEPT !.pc = pc].pc = pc
           /\ [e EXCEPT !.pc = pc].run = e.run
           /\ [e EXCEPT !.pc = pc].session = e.session
  BY DEF Execs

LEMMA BecomeMovesOn ==
    ASSUME NEW w \in Workers, NEW e \in Execs, Asked, Become(w, e),
           \/ e.run = exec[w].run /\ e.pc \notin {"ready", "send"}
           \/ e.run = exec[w].run + 1 /\ e.pc # "send"
    PROVE  MovesOn
  <1>1. exec \in [Workers -> Execs]
    BY TypeOKParts DEF Asked
  <1>2. /\ exec' \in [Workers -> Execs]
        /\ exec'[w] = e
        /\ \A v \in Workers : v # w => exec'[v] = exec[v]
    BY <1>1, BecomeShape
  <1>3. exec[w].run \in Nat
    BY <1>1, ChatAssumption DEF Execs
  <1>4. ASSUME NEW s \in SessionIds, Before(s)' PROVE Before(s)
    <2>1. s[1] \in Workers /\ s[2] \in Nat
      BY SessionParts
    <2>2. CASE s[1] = w
      <3>1. \/ e.run < s[2]
            \/ e.run = s[2] /\ e.pc \in {"ready", "send"}
        BY <1>2, <1>4, <2>2 DEF Before
      <3>2. CASE e.run = exec[w].run /\ e.pc \notin {"ready", "send"}
        BY <2>1, <2>2, <3>1, <3>2 DEF Before
      <3>3. CASE e.run = exec[w].run + 1
        BY <1>3, <2>1, <2>2, <3>1, <3>3 DEF Before
      <3> QED BY <3>2, <3>3
    <2>3. CASE s[1] # w
      BY <1>2, <1>4, <2>1, <2>3 DEF Before
    <2> QED BY <2>2, <2>3
  <1>5. SendsInItsSession'
    BY <1>2 DEF Asked, SendsInItsSession, At, OwnId
  <1> QED BY <1>2, <1>4, <1>5 DEF MovesOn

LEMMA GotoMovesOn ==
    ASSUME NEW w \in Workers, NEW pc \in Pcs \ {"ready", "send"}, Asked, Goto(w, pc)
    PROVE  MovesOn
  <1>1. exec[w] \in Execs
    BY TypeOKParts DEF Asked
  <1> DEFINE e == [exec[w] EXCEPT !.pc = pc]
  <1>2. e \in Execs /\ e.run = exec[w].run /\ e.pc = pc
    BY <1>1, ToldShape
  <1>3. Become(w, e)
    BY DEF Goto
  <1> HIDE DEF e
  <1> QED BY <1>2, <1>3, BecomeMovesOn

LEMMA NextRunMovesOn ==
    ASSUME NEW w \in Workers, Asked, Become(w, NextRun(w))
    PROVE  MovesOn
  <1>1. exec[w] \in Execs
    BY TypeOKParts DEF Asked
  <1>2. CASE exec[w].run < MaxRuns
    <2>1. NextRun(w) = FreshRun(exec[w].run + 1)
      BY <1>2 DEF NextRun
    <2>2. exec[w].run + 1 \in 1..MaxRuns
      BY <1>1, <1>2, ChatAssumption DEF Execs
    <2>3. FreshRun(exec[w].run + 1) \in Execs
      BY <2>2 DEF FreshRun, Execs, Pcs
    <2>4. FreshRun(exec[w].run + 1).run = exec[w].run + 1
          /\ FreshRun(exec[w].run + 1).pc # "send"
      BY DEF FreshRun
    <2> QED BY <2>1, <2>3, <2>4, BecomeMovesOn
  <1>3. CASE ~(exec[w].run < MaxRuns)
    <2> DEFINE e == [run |-> exec[w].run, pc |-> "done", session |-> None, answer |-> None]
    <2>1. NextRun(w) = e
      BY <1>1, <1>3 DEF NextRun, Execs
    <2>2. e \in Execs
      BY <1>1 DEF Execs, Pcs
    <2>3. e.run = exec[w].run /\ e.pc \notin {"ready", "send"}
      OBVIOUS
    <2> HIDE DEF e
    <2> QED BY <2>1, <2>2, <2>3, BecomeMovesOn
  <1> QED BY <1>2, <1>3

LEMMA StaysMovesOn == Asked /\ UNCHANGED exec => MovesOn
  BY TypeOKParts DEF Asked, MovesOn, Before, SendsInItsSession, At, OwnId

LEMMA ReplyMovesOn ==
    ASSUME NEW s \in SessionIds, NEW pc, NEW e \in Execs, Asked, Reply(s, pc, e),
           e.run = exec[s[1]].run, e.pc \notin {"ready", "send"}
    PROVE  MovesOn
  <1>1. CASE Waits(s, pc)
    <2>1. Become(s[1], e) /\ s[1] \in Workers
      BY <1>1, SessionParts DEF Reply, Become
    <2> QED BY <2>1, BecomeMovesOn
  <1>2. CASE ~Waits(s, pc)
    BY <1>2, StaysMovesOn DEF Reply
  <1> QED BY <1>1, <1>2

LEMMA TellMovesOn ==
    ASSUME NEW s \in SessionIds, NEW from, NEW pc \in Pcs \ {"ready", "send"}, Asked,
           Reply(s, from, Told(s, pc))
    PROVE  MovesOn
  <1>1. exec[s[1]] \in Execs
    BY SessionParts, TypeOKParts DEF Asked
  <1>2. /\ Told(s, pc) \in Execs
        /\ Told(s, pc).run = exec[s[1]].run
        /\ Told(s, pc).pc = pc
    BY <1>1, ToldShape DEF Told
  <1> QED BY <1>2, ReplyMovesOn

-----------------------------------------------------------------------------
(* The sessions.                                                            *)

LEMMA SaveShape ==
    ASSUME NEW g, NEW d \in Disks, cache \in Caches, Save(g, d)
    PROVE  disk' = d /\ disk' \in Disks /\ cache' \in Caches
  BY DEF Save, Caches

LEMMA UpdateShape ==
    ASSUME NEW g, NEW s \in SessionIds, NEW status \in {"prepared", "running"} \cup Terminal,
           NEW text \in Answers \cup {None}, TypeOK, Update(g, s, status, text)
    PROVE  /\ disk' \in Disks /\ cache' \in Caches
           /\ disk'[s] # None => disk'[s].status = status
           /\ \A t \in SessionIds : t # s => disk'[t] = disk[t]
  <1> DEFINE d == [disk EXCEPT ![s] =
                      IF @ = None THEN None ELSE [status |-> status, text |-> text]]
  <1>1. disk \in Disks /\ cache \in Caches
    BY TypeOKParts
  <1>2. [status |-> status, text |-> text] \in Sessions
    BY DEF Sessions
  <1>3. d \in Disks
    BY <1>1, <1>2 DEF Disks
  <1>4. d[s] # None => d[s].status = status
    BY <1>1 DEF Disks
  <1>5. \A t \in SessionIds : t # s => d[t] = disk[t]
    BY <1>1 DEF Disks
  <1>6. Save(g, d)
    BY DEF Update, Latest
  <1> HIDE DEF d
  <1> QED BY <1>1, <1>3, <1>4, <1>5, <1>6, SaveShape

LEMMA TextOfType ==
    ASSUME NEW g, NEW s \in SessionIds, TypeOK
    PROVE  TextOf(g, s) \in Answers \cup {None}
  <1>1. disk[s] \in Sessions \cup {None}
    BY TypeOKParts DEF Disks
  <1> QED BY <1>1 DEF TextOf, Latest, Sessions

LEMMA MarkRunningShape ==
    ASSUME NEW g, NEW s \in SessionIds, TypeOK, MarkRunning(g, s)
    PROVE  /\ disk' \in Disks /\ cache' \in Caches /\ quiet' \subseteq SessionIds
           /\ ~Completed(s)'
           /\ \A t \in SessionIds : t # s => disk'[t] = disk[t]
  <1>1. TextOf(g, s) \in Answers \cup {None}
    BY TextOfType
  <1>2. Update(g, s, "running", TextOf(g, s)) /\ quiet' = quiet \ {s}
    BY DEF MarkRunning
  <1>3. /\ disk' \in Disks /\ cache' \in Caches
        /\ disk'[s] # None => disk'[s].status = "running"
        /\ \A t \in SessionIds : t # s => disk'[t] = disk[t]
    BY <1>1, <1>2, UpdateShape
  <1>4. quiet' \subseteq SessionIds
    BY <1>2, TypeOKParts
  <1> QED BY <1>3, <1>4 DEF Completed, Has

(* What a step needs to do that begins no call and gives no answer.         *)
LEMMA Passes ==
    ASSUME Asked, MovesOn, calls' \subseteq calls,
           disk' \in Disks, cache' \in Caches, quiet' \subseteq SessionIds,
           \A s \in SessionIds : Completed(s)' => Completed(s)
    PROVE  Asked'
  <1>1. TypeOK'
    BY TypeOKParts DEF Asked, MovesOn, TypeOK, Disks, Caches, CallsType, Execs, Pcs
  <1>2. \A s \in SessionIds : CallsOn(s)' \subseteq CallsOn(s)
    BY DEF CallsOn
  <1>3. OneCallPerSession'
    BY <1>2 DEF Asked, MovesOn, OneCallPerSession
  <1> QED BY <1>1, <1>3 DEF Asked, MovesOn

LEMMA StandsKept ==
    ASSUME Asked, MovesOn, calls' \subseteq calls, UNCHANGED disk,
           cache' \in Caches, quiet' \subseteq SessionIds
    PROVE  Asked' /\ AnswersKept
  <1>1. disk' \in Disks
    BY TypeOKParts DEF Asked
  <1>2. \A s \in SessionIds : Completed(s)' => Completed(s)
    BY DEF Completed, Has
  <1> QED BY <1>1, <1>2, Passes DEF AnswersKept

-----------------------------------------------------------------------------
(* The steps of the worker.                                                 *)

LEMMA PrepareSessionKept ==
    ASSUME NEW w \in Workers, Asked, PrepareSession(w)
    PROVE  Asked' /\ AnswersKept
  <1>1. exec[w] \in Execs /\ disk \in Disks /\ cache \in Caches /\ calls \subseteq CallsType
    BY TypeOKParts DEF Asked
  <1>s. PICK s \in SessionIds : s = OwnId(w)
    BY <1>1 DEF OwnId, SessionIds, Execs
  <1>2. s[1] = w /\ s[2] = exec[w].run
    BY <1>s DEF OwnId
  <1>3. PICK g \in Gateways : g = GatewayOf[s]
    BY ChatAssumption
  <1>c. PICK c : c = Awaits(g, "prepare", s)
    OBVIOUS
  <1>4. At(w, "ready") /\ Save(g, [disk EXCEPT ![s] = Prepared]) /\ Goto(w, "preparing")
        /\ calls' = calls \cup {c} /\ quiet' = quiet \ {s}
    BY <1>s, <1>3, <1>c DEF PrepareSession, Latest
  <1>5. c \in CallsType /\ c.session = s
    BY <1>c DEF Awaits, CallsType
  <1>6. Before(s)
    BY <1>2, <1>4 DEF Before, At
  <1>7. CallsOn(s) = {} /\ ~Completed(s)
    BY <1>2, <1>6 DEF Asked, OneCallPerSession
  <1>8. MovesOn
    BY <1>4, GotoMovesOn DEF Pcs
  <1>9. ~Before(s)'
    <2>1. exec' = [exec EXCEPT ![w] = [exec[w] EXCEPT !.pc = "preparing"]]
      BY <1>4 DEF Goto, Become
    <2>2. exec'[w].pc = "preparing" /\ exec'[w].run = exec[w].run
      BY <1>1, <2>1, TypeOKParts DEF Asked, Execs
    <2> QED BY <1>1, <1>2, <2>2, ChatAssumption DEF Before, Execs
  <1>10. Prepared \in Sessions /\ Prepared.status = "prepared"
    BY DEF Prepared, Sessions
  <1>11. /\ disk' \in Disks /\ cache' \in Caches
         /\ disk' = [disk EXCEPT ![s] = Prepared]
    <2>1. [disk EXCEPT ![s] = Prepared] \in Disks
      BY <1>1, <1>10 DEF Disks
    <2> QED BY <1>1, <1>4, <2>1, SaveShape
  <1>12. ~Completed(s)' /\ \A t \in SessionIds : t # s => disk'[t] = disk[t]
    BY <1>1, <1>2, <1>10, <1>11 DEF Completed, Has, Disks
  <1>13. \A t \in SessionIds : t # s => CallsOn(t)' = CallsOn(t)
    BY <1>4, <1>5 DEF CallsOn
  <1>14. CallsOn(s)' = {c}
    BY <1>4, <1>5, <1>7 DEF CallsOn
  <1>15. OneCallPerSession'
    <2> SUFFICES ASSUME NEW t \in SessionIds
                 PROVE  /\ \A a, b \in CallsOn(t)' : a = b
                        /\ (Completed(t) \/ Before(t))' => CallsOn(t)' = {}
                        /\ Before(t)' => ~Completed(t)'
      BY DEF OneCallPerSession
    <2>1. CASE t = s
      BY <1>9, <1>12, <1>14, <2>1
    <2>2. CASE t # s
      <3>1. (Before(t)' => Before(t)) /\ (Completed(t)' <=> Completed(t))
        BY <1>8, <1>12, <2>2 DEF MovesOn, Completed, Has
      <3> QED BY <1>13, <2>2, <3>1 DEF Asked, OneCallPerSession
    <2> QED BY <2>1, <2>2
  <1>16. TypeOK'
    <2>1. calls' \subseteq CallsType /\ quiet' \subseteq SessionIds
      BY <1>1, <1>4, <1>5, TypeOKParts DEF Asked
    <2> QED BY <1>8, <1>11, <2>1, TypeOKParts
            DEF MovesOn, TypeOK, Disks, Caches, CallsType, Execs, Pcs
  <1>17. AnswersKept
    BY <1>7, <1>12 DEF AnswersKept
  <1> QED BY <1>8, <1>15, <1>16, <1>17 DEF Asked, MovesOn

(* The worker sends the prompt of its session; nothing is about it yet.     *)
LEMMA SendKept ==
    ASSUME NEW w \in Workers, Asked, At(w, "send"), Goto(w, "waiting"),
           NEW s, s = OwnId(w),
           NEW c \in CallsType, c.session = s,
           calls' = calls \cup {c},
           disk' \in Disks, cache' \in Caches, quiet' \subseteq SessionIds,
           Completed(s)' => Completed(s),
           \A t \in SessionIds : t # s => disk'[t] = disk[t]
    PROVE  Asked' /\ AnswersKept
  <1>1. exec[w] \in Execs /\ calls \subseteq CallsType
    BY TypeOKParts DEF Asked
  <1>2. s \in SessionIds /\ s[1] = w /\ s[2] = exec[w].run
    BY <1>1 DEF OwnId, SessionIds, Execs
  <1>3. Before(s)
    BY <1>2 DEF Before, At
  <1>4. CallsOn(s) = {} /\ ~Completed(s)
    BY <1>2, <1>3 DEF Asked, OneCallPerSession
  <1>5. MovesOn
    BY GotoMovesOn DEF Pcs
  <1>6. ~Before(s)'
    <2>1. exec' = [exec EXCEPT ![w] = [exec[w] EXCEPT !.pc = "waiting"]]
      BY DEF Goto, Become
    <2>2. exec'[w].pc = "waiting" /\ exec'[w].run = exec[w].run
      BY <1>1, <2>1, TypeOKParts DEF Asked, Execs
    <2> QED BY <1>1, <1>2, <2>2, ChatAssumption DEF Before, Execs
  <1>7. \A t \in SessionIds : t # s => CallsOn(t)' = CallsOn(t)
    BY DEF CallsOn
  <1>8. CallsOn(s)' = {c}
    BY <1>4 DEF CallsOn
  <1>9. OneCallPerSession'
    <2> SUFFICES ASSUME NEW t \in SessionIds
                 PROVE  /\ \A a, b \in CallsOn(t)' : a = b
                        /\ (Completed(t) \/ Before(t))' => CallsOn(t)' = {}
                        /\ Before(t)' => ~Completed(t)'
      BY DEF OneCallPerSession
    <2>1. CASE t = s
      BY <1>4, <1>6, <1>8, <2>1
    <2>2. CASE t # s
      <3>1. (Before(t)' => Before(t)) /\ (Completed(t)' <=> Completed(t))
        BY <1>5, <2>2 DEF MovesOn, Completed, Has
      <3> QED BY <1>7, <2>2, <3>1 DEF Asked, OneCallPerSession
    <2> QED BY <2>1, <2>2
  <1>10. TypeOK'
    BY <1>1, <1>5, TypeOKParts DEF MovesOn, TypeOK, Disks, Caches, CallsType, Execs, Pcs
  <1>11. AnswersKept
    BY <1>4 DEF AnswersKept
  <1> QED BY <1>5, <1>9, <1>10, <1>11 DEF Asked, MovesOn

LEMMA ChatKept ==
    ASSUME NEW w \in Workers, Asked, Chat(w)
    PROVE  Asked' /\ AnswersKept
  <1>1. /\ exec[w] \in Execs /\ disk \in Disks /\ cache \in Caches
        /\ calls \subseteq CallsType /\ quiet \subseteq SessionIds
    BY TypeOKParts DEF Asked
  <1>2. PICK s \in SessionIds : s = OwnId(w)
    BY <1>1 DEF OwnId, SessionIds, Execs
  <1>3. PICK g \in Gateways : g = GatewayOf[s]
    BY ChatAssumption
  <1>c. PICK c : c = Awaits(g, "chat", s)
    OBVIOUS
  <1>d. PICK seen : seen = cache[g][s]
    OBVIOUS
  <1>4. At(w, "send") /\ Up(g) /\ exec[w].session = s
    BY <1>2, <1>3 DEF Chat, Asked, SendsInItsSession
  <1>5. seen \in Sessions \cup {None}
    BY <1>1, <1>4, <1>d DEF Up, Caches, Disks
  <1>6. c \in CallsType /\ c.session = s
    BY <1>c DEF Awaits, CallsType
  <1>7. \/ Goto(w, "failed") /\ UNCHANGED <<disk, cache, calls, quiet>>
        \/ /\ seen # None
           /\ Become(w, [exec[w] EXCEPT !.pc = "answered", !.answer = seen.text])
           /\ UNCHANGED <<disk, cache, calls, quiet>>
        \/ /\ UNCHANGED <<disk, cache, quiet>> \/ MarkRunning(g, s)
           /\ calls' = calls \cup {c}
           /\ Goto(w, "waiting")
    BY <1>2, <1>3, <1>4, <1>c, <1>d DEF Chat
  <1>8. CASE Goto(w, "failed") /\ UNCHANGED <<disk, cache, calls, quiet>>
    <2>1. MovesOn
      BY <1>8, GotoMovesOn DEF Pcs
    <2> QED BY <1>1, <1>8, <2>1, StandsKept
  <1>9. CASE /\ seen # None
             /\ Become(w, [exec[w] EXCEPT !.pc = "answered", !.answer = seen.text])
             /\ UNCHANGED <<disk, cache, calls, quiet>>
    <2> DEFINE told == [exec[w] EXCEPT !.pc = "answered"]
               e == [told EXCEPT !.answer = seen.text]
    <2>1. told \in Execs /\ told.run = exec[w].run /\ told.pc = "answered"
      BY <1>1, ToldShape DEF Pcs
    <2>2. seen.text \in Answers \cup {None}
      BY <1>5, <1>9 DEF Sessions
    <2>3. Become(w, e)
      BY <1>9
    <2> HIDE DEF told
    <2>4. e \in Execs /\ e.run = exec[w].run /\ e.pc = "answered"
      BY <2>1, <2>2 DEF Execs
    <2> HIDE DEF e
    <2>5. MovesOn
      BY <2>3, <2>4, BecomeMovesOn
    <2> QED BY <1>1, <1>9, <2>5, StandsKept
  <1>10. CASE /\ UNCHANGED <<disk, cache, quiet>> \/ MarkRunning(g, s)
              /\ calls' = calls \cup {c}
              /\ Goto(w, "waiting")
    <2>2. /\ disk' \in Disks /\ cache' \in Caches /\ quiet' \subseteq SessionIds
          /\ Completed(s)' => Completed(s)
          /\ \A t \in SessionIds : t # s => disk'[t] = disk[t]
      <3>1. CASE UNCHANGED <<disk, cache, quiet>>
        BY <1>1, <3>1 DEF Completed, Has
      <3>2. CASE MarkRunning(g, s)
        BY <1>2, <3>2, MarkRunningShape DEF Asked
      <3> QED BY <1>10, <3>1, <3>2
    <2> QED BY <1>2, <1>4, <1>6, <1>10, <2>2, SendKept
  <1> QED BY <1>7, <1>8, <1>9, <1>10

LEMMA SubmitKept ==
    ASSUME NEW w \in Workers, Asked, Submit(w)
    PROVE  Asked' /\ AnswersKept
  <1> PICK s, g, d : /\ s = exec[w].session
                     /\ g = GatewayOf[OwnId(w)]
                     /\ d = [disk EXCEPT ![s] = None]
    OBVIOUS
  <1>1. /\ exec[w] \in Execs /\ disk \in Disks /\ cache \in Caches
        /\ quiet \subseteq SessionIds
    BY TypeOKParts DEF Asked
  <1>2. MovesOn /\ UNCHANGED <<calls, quiet>>
    BY NextRunMovesOn DEF Submit
  <1>3. CASE UNCHANGED <<disk, cache>>
    BY <1>1, <1>2, <1>3, StandsKept
  <1>4. CASE s # None /\ Save(g, d)
    <2>1. s \in SessionIds
      BY <1>1, <1>4 DEF Execs
    <2>2. d \in Disks
      BY <1>1 DEF Disks
    <2>3. disk' = d /\ disk' \in Disks /\ cache' \in Caches
      BY <1>1, <1>4, <2>2, SaveShape
    <2>4. disk'[s] = None /\ \A t \in SessionIds : t # s => disk'[t] = disk[t]
      BY <1>1, <2>1, <2>3 DEF Disks
    <2>5. \A t \in SessionIds : Completed(t)' => Completed(t)
      BY <2>4 DEF Completed, Has
    <2>6. AnswersKept
      BY <2>4 DEF AnswersKept
    <2> QED BY <1>1, <1>2, <2>3, <2>5, <2>6, Passes
  <1> QED BY <1>3, <1>4 DEF Submit, Latest

(* The worker's other steps leave the sessions alone and do not go back.    *)
LEMMA WorkerStepKept ==
    ASSUME NEW w \in Workers, Asked, WorkerStep(w)
    PROVE  Asked' /\ AnswersKept
  <1>1. /\ exec[w] \in Execs /\ disk \in Disks /\ cache \in Caches
        /\ quiet \subseteq SessionIds
    BY TypeOKParts DEF Asked
  <1>2. ASSUME UNCHANGED <<disk, calls, quiet>>, cache' \in Caches,
               UNCHANGED exec \/ Become(w, NextRun(w))
                   \/ \E pc \in Pcs \ {"ready", "send"} : Goto(w, pc)
        PROVE  Asked' /\ AnswersKept
    <2>1. MovesOn
      BY <1>2, StaysMovesOn, NextRunMovesOn, GotoMovesOn
    <2> QED BY <1>1, <1>2, <2>1, StandsKept
  <1>3. CASE Unreachable(w)
    BY <1>1, <1>2, <1>3 DEF Unreachable, Pcs
  <1>4. CASE RequestTimesOut(w)
    BY <1>1, <1>2, <1>4 DEF RequestTimesOut, Pcs
  <1>5. CASE ProgressUnheard(w)
    BY <1>1, <1>2, <1>5 DEF ProgressUnheard, Pcs
  <1>6. CASE ReadAnswer(w)
    BY <1>1, <1>2, <1>6 DEF ReadAnswer, Pcs
  <1>7. CASE Poll(w)
    <2>1. cache' \in Caches
      BY <1>1, <1>7 DEF Poll, Caches
    <2>2. UNCHANGED exec \/ \E pc \in {"submit", "failed", "artifacts"} : Goto(w, pc)
      BY <1>7 DEF Poll
    <2> QED BY <1>2, <1>7, <2>1, <2>2 DEF Poll, Pcs
  <1>8. CASE Deadline(w)
    BY <1>1, <1>2, <1>8 DEF Deadline, Pcs
  <1>9. CASE CheckArtifacts(w)
    BY <1>1, <1>2, <1>9 DEF CheckArtifacts, Pcs
  <1>10. CASE Crash(w)
    BY <1>1, <1>2, <1>10 DEF Crash
  <1> QED BY <1>3, <1>4, <1>5, <1>6, <1>7, <1>8, <1>9, <1>10,
             PrepareSessionKept, ChatKept, SubmitKept DEF WorkerStep

-----------------------------------------------------------------------------
(* The steps of the gateways and of the driver.                             *)

LEMMA InterruptedShape ==
    ASSUME NEW r \in Sessions \cup {None}
    PROVE  /\ Interrupted(r) \in Sessions \cup {None}
           /\ Interrupted(r).status = "completed" => Interrupted(r) = r
           /\ r # None /\ r.status = "completed" => Interrupted(r) = r
  BY DEF Interrupted, Sessions, Terminal

LEMMA GatewayStartsKept ==
    ASSUME NEW g \in Gateways, Asked, GatewayStarts(g)
    PROVE  Asked' /\ AnswersKept
  <1>1. disk \in Disks /\ cache \in Caches /\ quiet \subseteq SessionIds
    BY TypeOKParts DEF Asked
  <1>2. PICK expired \in SUBSET SessionIds :
            Save(g, [s \in SessionIds |-> IF s \in expired THEN None ELSE Interrupted(disk[s])])
    BY DEF GatewayStarts
  <1>3. \A s \in SessionIds : disk[s] \in Sessions \cup {None}
    BY <1>1 DEF Disks
  <1>4. [s \in SessionIds |-> IF s \in expired THEN None ELSE Interrupted(disk[s])] \in Disks
    BY <1>3, InterruptedShape DEF Disks
  <1>5. /\ disk' \in Disks /\ cache' \in Caches
        /\ \A s \in SessionIds :
               disk'[s] = IF s \in expired THEN None ELSE Interrupted(disk[s])
    BY <1>1, <1>2, <1>4, SaveShape
  <1>6. MovesOn /\ UNCHANGED <<calls, quiet>>
    BY StaysMovesOn DEF GatewayStarts
  <1>7. ASSUME NEW s \in SessionIds, Completed(s)' PROVE Completed(s)
    <2>1. disk'[s] # None /\ disk'[s].status = "completed"
      BY <1>7 DEF Completed, Has
    <2>2. disk'[s] = Interrupted(disk[s])
      BY <1>5, <2>1
    <2>3. disk'[s] = disk[s]
      BY <1>3, <2>1, <2>2, InterruptedShape
    <2> QED BY <2>1, <2>3 DEF Completed, Has
  <1>8. AnswersKept
    <2> SUFFICES ASSUME NEW s \in SessionIds, Completed(s) PROVE disk'[s] \in {None, disk[s]}
      BY DEF AnswersKept
    <2>1. Interrupted(disk[s]) = disk[s]
      BY <1>3, InterruptedShape DEF Completed, Has
    <2> QED BY <1>5, <2>1
  <1> QED BY <1>1, <1>5, <1>6, <1>7, <1>8, Passes

LEMMA GatewayStopsKept ==
    ASSUME NEW g \in Gateways, Asked, GatewayStops(g)
    PROVE  Asked' /\ AnswersKept
  <1>1. disk \in Disks /\ cache \in Caches /\ quiet \subseteq SessionIds
    BY TypeOKParts DEF Asked
  <1>2. cache' \in Caches
    BY <1>1 DEF GatewayStops, Caches
  <1>3. MovesOn /\ UNCHANGED <<disk, quiet>> /\ calls' \subseteq calls
    BY StaysMovesOn DEF GatewayStops
  <1> QED BY <1>1, <1>2, <1>3, StandsKept

(* Only the call that prepared a session lets the worker send its prompt.   *)
LEMMA PreparedKept ==
    ASSUME NEW c \in calls, Asked, calls' = calls \ {c}, MarkRunning(c.gateway, c.session),
           Reply(c.session, "preparing", [Told(c.session, "send") EXCEPT !.session = c.session])
    PROVE  Asked' /\ AnswersKept
  <1>1. /\ exec \in [Workers -> Execs] /\ calls \subseteq CallsType
    BY TypeOKParts DEF Asked
  <1>2. PICK s \in SessionIds, g \in Gateways : s = c.session /\ g = c.gateway
    BY <1>1 DEF CallsType
  <1>3. c \in CallsOn(s) /\ ~Completed(s) /\ ~Before(s)
    BY <1>2 DEF CallsOn, Asked, OneCallPerSession
  <1>4. /\ disk' \in Disks /\ cache' \in Caches /\ quiet' \subseteq SessionIds
        /\ ~Completed(s)'
        /\ \A t \in SessionIds : t # s => disk'[t] = disk[t]
    BY <1>2, MarkRunningShape DEF Asked
  <1>5. AnswersKept
    BY <1>3, <1>4 DEF AnswersKept
  <1>6. \A t \in SessionIds : Completed(t)' => Completed(t)
    BY <1>4 DEF Completed, Has
  <1>7. s[1] \in Workers /\ s[2] \in Nat /\ s = <<s[1], s[2]>>
    BY SessionParts
  <1>8. CASE ~Waits(s, "preparing")
    <2>1. UNCHANGED exec
      BY <1>2, <1>8 DEF Reply
    <2> QED BY <1>4, <1>5, <1>6, <2>1, StaysMovesOn, Passes
  <1>9. CASE Waits(s, "preparing")
    <2> DEFINE w == s[1]
               told == [exec[w] EXCEPT !.pc = "send"]
               e == [told EXCEPT !.session = s]
    <2>1. told \in Execs /\ told.pc = "send" /\ told.run = exec[w].run
      BY <1>1, <1>7, ToldShape DEF Pcs
    <2>2. exec' = [exec EXCEPT ![w] = e] /\ exec[w].run = s[2]
      BY <1>2, <1>9 DEF Reply, Told, Waits
    <2> HIDE DEF told
    <2>3. e \in Execs /\ e.pc = "send" /\ e.run = exec[w].run /\ e.session = s
      BY <2>1 DEF Execs
    <2> HIDE DEF e
    <2>4. Become(w, e)
      BY <2>2 DEF Become
    <2>5. /\ exec' \in [Workers -> Execs]
          /\ exec'[w] = e
          /\ \A v \in Workers : v # w => exec'[v] = exec[v]
      BY <1>1, <1>7, <2>3, <2>4, BecomeShape
    <2> HIDE DEF w
    <2>6. w = s[1]
      BY DEF w
    <2>7. SendsInItsSession'
      <3>1. w \in Workers /\ exec'[w].session = <<w, exec'[w].run>>
        BY <1>7, <2>2, <2>3, <2>5, <2>6
      <3> QED BY <2>5, <3>1 DEF Asked, SendsInItsSession, At, OwnId
    <2>8. ASSUME NEW t \in SessionIds, t # s, Before(t)' PROVE Before(t)
      <3>1. t[1] \in Workers /\ t[2] \in Nat /\ t = <<t[1], t[2]>>
        BY SessionParts
      <3>2. CASE t[1] = w
        <4>1. t[2] # s[2]
          BY <1>7, <2>6, <2>8, <3>1, <3>2
        <4>2. exec'[t[1]].run = s[2] /\ exec[t[1]].run = s[2]
          BY <2>2, <2>3, <2>5, <3>2
        <4> QED BY <2>8, <4>1, <4>2 DEF Before
      <3>3. CASE t[1] # w
        BY <2>5, <2>8, <3>1, <3>3 DEF Before
      <3> QED BY <3>2, <3>3
    <2>9. CallsOn(s)' = {}
      <3>1. \A d \in CallsOn(s) : d = c
        BY <1>3 DEF Asked, OneCallPerSession
      <3> QED BY <3>1 DEF CallsOn
    <2>10. \A t \in SessionIds : CallsOn(t)' \subseteq CallsOn(t)
      BY DEF CallsOn
    <2>11. OneCallPerSession'
      <3> SUFFICES ASSUME NEW t \in SessionIds
                   PROVE  /\ \A a, b \in CallsOn(t)' : a = b
                          /\ (Completed(t) \/ Before(t))' => CallsOn(t)' = {}
                          /\ Before(t)' => ~Completed(t)'
        BY DEF OneCallPerSession
      <3>1. CASE t = s
        BY <1>4, <2>9, <3>1
      <3>2. CASE t # s
        <4>1. (Before(t)' => Before(t)) /\ (Completed(t)' => Completed(t))
          BY <1>6, <2>8, <3>2
        <4> QED BY <2>10, <4>1 DEF Asked, OneCallPerSession
      <3> QED BY <3>1, <3>2
    <2>12. TypeOK'
      BY <1>1, <1>4, <2>5 DEF TypeOK, Disks, Caches, CallsType, Execs, Pcs
    <2> QED BY <1>5, <2>7, <2>11, <2>12 DEF Asked
  <1> QED BY <1>8, <1>9

LEMMA PrepareReturnsKept ==
    ASSUME NEW c \in calls, Asked, PrepareReturns(c)
    PROVE  Asked' /\ AnswersKept
  <1>1. /\ disk \in Disks /\ cache \in Caches /\ quiet \subseteq SessionIds
        /\ calls \subseteq CallsType
    BY TypeOKParts DEF Asked
  <1>2. PICK s \in SessionIds, g \in Gateways : s = c.session /\ g = c.gateway
    BY <1>1 DEF CallsType
  <1>3. calls' = calls \ {c}
    BY DEF PrepareReturns
  <1>4. CASE Reply(s, "preparing", Told(s, "failed"))
    <2>1. MovesOn
      BY <1>4, TellMovesOn DEF Pcs
    <2>2. CASE UNCHANGED <<disk, cache, quiet>>
      BY <1>1, <1>3, <2>1, <2>2, StandsKept
    <2>3. CASE MarkRunning(g, s)
      <3>1. /\ disk' \in Disks /\ cache' \in Caches /\ quiet' \subseteq SessionIds
            /\ ~Completed(s)'
            /\ \A t \in SessionIds : t # s => disk'[t] = disk[t]
        BY <2>3, MarkRunningShape DEF Asked
      <3>2. \A t \in SessionIds : Completed(t)' => Completed(t)
        BY <3>1 DEF Completed, Has
      <3>3. ~Completed(s)
        BY <1>2 DEF CallsOn, Asked, OneCallPerSession
      <3>4. AnswersKept
        BY <3>1, <3>3 DEF AnswersKept
      <3> QED BY <1>3, <2>1, <3>1, <3>2, <3>4, Passes
    <2> QED BY <1>2, <1>4, <2>2, <2>3 DEF PrepareReturns
  <1> QED BY <1>2, <1>3, <1>4, PreparedKept DEF PrepareReturns

(* The driver answers or fails, and the worker goes on from its prompt.     *)
LEMMA ChatEndsKept ==
    ASSUME NEW c \in calls, Asked, calls' = calls \ {c}, MovesOn, UNCHANGED quiet,
           NEW status \in {"completed", "failed"}, NEW text \in Answers \cup {None},
           Update(c.gateway, c.session, status, text)
    PROVE  Asked' /\ AnswersKept
  <1>1. quiet \subseteq SessionIds /\ calls \subseteq CallsType
    BY TypeOKParts DEF Asked
  <1>2. PICK s \in SessionIds, g \in Gateways : s = c.session /\ g = c.gateway
    BY <1>1 DEF CallsType
  <1>3. c \in CallsOn(s) /\ ~Completed(s) /\ ~Before(s)
    BY <1>2 DEF CallsOn, Asked, OneCallPerSession
  <1>4. /\ disk' \in Disks /\ cache' \in Caches
        /\ \A t \in SessionIds : t # s => disk'[t] = disk[t]
    BY <1>2, UpdateShape DEF Asked, Terminal
  <1>5. CallsOn(s)' = {}
    <2>1. \A d \in CallsOn(s) : d = c
      BY <1>3 DEF Asked, OneCallPerSession
    <2> QED BY <2>1 DEF CallsOn
  <1>6. \A t \in SessionIds : CallsOn(t)' \subseteq CallsOn(t)
    BY DEF CallsOn
  <1>7. OneCallPerSession'
    <2> SUFFICES ASSUME NEW t \in SessionIds
                 PROVE  /\ \A a, b \in CallsOn(t)' : a = b
                        /\ (Completed(t) \/ Before(t))' => CallsOn(t)' = {}
                        /\ Before(t)' => ~Completed(t)'
      BY DEF OneCallPerSession
    <2>1. Before(t)' => Before(t)
      BY DEF MovesOn
    <2>2. CASE t = s
      BY <1>3, <1>5, <2>1, <2>2
    <2>3. CASE t # s
      <3>1. Completed(t)' <=> Completed(t)
        BY <1>4, <2>3 DEF Completed, Has
      <3> QED BY <1>6, <2>1, <3>1 DEF Asked, OneCallPerSession
    <2> QED BY <2>2, <2>3
  <1>8. TypeOK'
    BY <1>1, <1>4 DEF MovesOn, TypeOK, Disks, Caches, CallsType, Execs, Pcs
  <1>9. AnswersKept
    BY <1>3, <1>4 DEF AnswersKept
  <1> QED BY <1>7, <1>8, <1>9 DEF Asked, MovesOn

LEMMA ChatReturnsKept ==
    ASSUME NEW c \in calls, Asked, ChatReturns(c)
    PROVE  Asked' /\ AnswersKept
  <1>1. /\ disk \in Disks /\ cache \in Caches /\ quiet \subseteq SessionIds
        /\ calls \subseteq CallsType
    BY TypeOKParts DEF Asked
  <1>2. PICK s \in SessionIds, g \in Gateways : s = c.session /\ g = c.gateway
    BY <1>1 DEF CallsType
  <1>3. calls' = calls \ {c}
    BY DEF ChatReturns
  <1>4. ASSUME NEW pc \in {"poll", "failed"}, Reply(s, "waiting", Told(s, pc)) PROVE MovesOn
    BY <1>4, TellMovesOn DEF Pcs
  <1>5. ASSUME NEW a \in Answers,
               Reply(s, "waiting", [Told(s, "answered") EXCEPT !.answer = a])
        PROVE  MovesOn
    <2> PICK told : told = [exec[s[1]] EXCEPT !.pc = "answered"]
      OBVIOUS
    <2> PICK e : e = [told EXCEPT !.answer = a]
      OBVIOUS
    <2>1. told \in Execs /\ told.run = exec[s[1]].run /\ told.pc = "answered"
      BY SessionParts, ToldShape, TypeOKParts DEF Pcs, Asked
    <2>2. e \in Execs /\ e.run = exec[s[1]].run /\ e.pc = "answered"
      BY <2>1 DEF Execs
    <2>3. Reply(s, "waiting", e)
      BY <1>5 DEF Told
    <2> QED BY <2>2, <2>3, ReplyMovesOn
  <1>6. CASE ChatAnswers(c)
    <2>1. PICK a \in Answers :
              /\ Update(g, s, "completed", a)
              /\ \/ Reply(s, "waiting", [Told(s, "answered") EXCEPT !.answer = a])
                 \/ \E pc \in {"poll", "failed"} : Reply(s, "waiting", Told(s, pc))
              /\ UNCHANGED quiet
      BY <1>2, <1>6 DEF ChatAnswers
    <2>2. MovesOn
      BY <1>4, <1>5, <2>1
    <2> QED BY <1>2, <1>3, <2>1, <2>2, ChatEndsKept
  <1>7. CASE ChatFails(c)
    <2>1. PICK text : text = TextOf(g, s)
      OBVIOUS
    <2>2. text \in Answers \cup {None}
      BY <2>1, TextOfType DEF Asked
    <2>3. Update(c.gateway, c.session, "failed", text) /\ UNCHANGED quiet /\ MovesOn
      BY <1>2, <1>4, <1>7, <2>1 DEF ChatFails
    <2> QED BY <1>3, <2>2, <2>3, ChatEndsKept
  <1>8. CASE ChatTimesOut(c)
    <2>1. UNCHANGED <<disk, cache, quiet>> /\ MovesOn
      BY <1>2, <1>4, <1>8 DEF ChatTimesOut
    <2> QED BY <1>1, <1>3, <2>1, StandsKept
  <1> QED BY <1>6, <1>7, <1>8 DEF ChatReturns

LEMMA NextKept ==
    ASSUME Asked, [Next]_vars
    PROVE  Asked' /\ AnswersKept
  <1>1. /\ disk \in Disks /\ cache \in Caches /\ quiet \subseteq SessionIds
    BY TypeOKParts DEF Asked
  <1>2. ASSUME NEW s \in SessionIds, Quieten(s) PROVE Asked' /\ AnswersKept
    <2>1. MovesOn /\ UNCHANGED <<disk, cache, calls>> /\ quiet' \subseteq SessionIds
      BY <1>1, <1>2, StaysMovesOn DEF Quieten
    <2> QED BY <1>1, <2>1, StandsKept
  <1>3. CASE UNCHANGED vars
    <2>1. MovesOn /\ UNCHANGED <<disk, cache, calls, quiet>>
      BY <1>3, StaysMovesOn DEF vars
    <2> QED BY <1>1, <2>1, StandsKept
  <1> QED BY <1>2, <1>3, WorkerStepKept, PrepareReturnsKept, ChatReturnsKept,
             GatewayStartsKept, GatewayStopsKept DEF Next

LEMMA InitAsked == Init => Asked
  <1> SUFFICES ASSUME Init PROVE Asked
    OBVIOUS
  <1>1. FreshRun(1) \in Execs
    BY ChatAssumption DEF FreshRun, Execs, Pcs
  <1>2. TypeOK
    BY <1>1, TypeOKParts DEF Init, Disks, Caches
  <1>3. OneCallPerSession
    BY DEF Init, OneCallPerSession, CallsOn, Completed, Has
  <1>4. SendsInItsSession
    BY DEF Init, SendsInItsSession, At, FreshRun
  <1> QED BY <1>2, <1>3, <1>4 DEF Asked

(* The session file, what each process knows of it, the calls under way and *)
(* the executions of the workers are what they are meant to be.             *)
THEOREM TypeOKAlways == Spec => []TypeOK
  <1>1. Asked => TypeOK
    BY DEF Asked
  <1> QED BY <1>1, InitAsked, NextKept, PTL DEF Spec

(* Whatever gateway processes are started, stopped and written to by others *)
(* between what they read and what they write, however late the driver      *)
(* returns and however often workers crash and run again: the answer of a   *)
(* session is never overwritten, it is only ever removed with its session.  *)
THEOREM AnswerStaysAlways == Spec => AnswerStays
  <1>1. Asked /\ [Next]_vars =>
            [\A s \in SessionIds : Has(s, {"completed"}) => disk'[s] \in {None, disk[s]}]_vars
    BY NextKept DEF AnswersKept, Completed
  <1> QED BY <1>1, InitAsked, NextKept, PTL DEF Spec, AnswerStays
=============================================================================
