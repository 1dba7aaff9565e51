------------------------- MODULE RuntimeStoreProofs -------------------------
(***************************************************************************)
(* For any processes, updates and bounds: no update whose caller was       *)
(* answered is ever lost, the shadow keeps up with the store, and it is an *)
(* image of one snapshot.                                                  *)
(***************************************************************************)
EXTENDS RuntimeStore, TLAPS

IsState(s) == s = [done |-> s.done, events |-> s.events, eventSequence |-> s.eventSequence]

Loaded(p) == handler[p] # NoHandler

(* What a process loaded is what it would be if loaded now, as far as it    *)
(* may still be saved: the state lock sees to that on one host, the         *)
(* revision between hosts.                                                  *)
LoadedIsCurrent ==
    \A p \in Processes :
        /\ Loaded(p) => IsState(handler[p].state)
        /\ Loaded(p) /\ (backend = "sqlite" \/ IsExpected(p)) =>
               acknowledged \subseteq handler[p].state.done

OneHandlerPerHost ==
    backend = "sqlite" => \A p, q \in Processes : Loaded(p) /\ Loaded(q) => p = q

RevisionsGrow ==
    backend = "postgres" =>
        /\ store.revision \in Nat
        /\ \A p \in Processes : handler[p].revision \in Nat /\ handler[p].revision <= store.revision

BackupIsState ==
    backup.taken =>
        /\ backup = [taken |-> TRUE, used |-> backup.used, store |-> backup.store,
                     durable |-> backup.durable]
        /\ IsState(backup.store.state)

Sound ==
    /\ backend \in {"sqlite", "postgres"}
    /\ handler = [p \in Processes |-> handler[p]]
    /\ IsState(store.state)
    /\ CommittedStays
    /\ LoadedIsCurrent
    /\ OneHandlerPerHost
    /\ RevisionsGrow
    /\ BackupIsState

(* An appended event changes nothing else of a state.                       *)
LEMMA AppendEventKeeps ==
    ASSUME NEW s, NEW what, IsState(s)
    PROVE  /\ IsState(AppendEvent(s, what))
           /\ AppendEvent(s, what).done = s.done
  <1> DEFINE n == s.eventSequence + 1
             counted == [s EXCEPT !.eventSequence = n]
             all == s.events \cup {[id |-> n, what |-> what]}
  <1>1. counted = [done |-> s.done, events |-> s.events, eventSequence |-> n]
    BY DEF IsState
  <1>2. AppendEvent(s, what) = [counted EXCEPT !.events = all]
    BY DEF AppendEvent
  <1> HIDE DEF counted, all, n
  <1>3. AppendEvent(s, what) = [done |-> s.done, events |-> all, eventSequence |-> n]
    BY <1>1, <1>2
  <1> QED BY <1>3 DEF IsState

(* The state a handler saves has all that it loaded, and its own update.    *)
LEMMA NextStateKeeps ==
    ASSUME NEW p \in Processes, IsState(handler[p].state)
    PROVE  /\ IsState(NextState(p))
           /\ NextState(p).done = handler[p].state.done \cup {handler[p].update}
  <1> DEFINE h == handler[p]
             s == AppendEvent(h.state, h.update)
  <1>1. IsState(s) /\ s.done = h.state.done
    BY AppendEventKeeps
  <1>2. NextState(p) = [s EXCEPT !.done = @ \cup {h.update}]
    BY DEF NextState
  <1> HIDE DEF s
  <1>3. NextState(p) = [done |-> s.done \cup {h.update}, events |-> s.events,
                        eventSequence |-> s.eventSequence]
    BY <1>1, <1>2 DEF IsState
  <1> QED BY <1>1, <1>3 DEF IsState

(* The recorder of failures leaves the updates of the store alone.          *)
LEMMA RecordedKeeps ==
    ASSUME NEW c, NEW status, IsState(store.state)
    PROVE  LET r == Recorded(c, status)
           IN /\ IsState(r.state)
              /\ r.state.done = store.state.done
              /\ r = store \/ r.revision = store.revision + 1
  <1> DEFINE what == <<"shadow_write_failed", status.attempt>>
  <1>1. IsState(AppendEvent(store.state, what))
        /\ AppendEvent(store.state, what).done = store.state.done
    BY AppendEventKeeps
  <1> QED BY <1>1 DEF Recorded, Persisted

LEMMA LoadKeeps ==
    ASSUME NEW p \in Processes, NEW u \in Updates, Sound, Load(p, u)
    PROVE  Sound'
  <1>1. handler' = [handler EXCEPT ![p] =
            [update |-> u, revision |-> store.revision, state |-> store.state]]
    BY DEF Load
  <1>2. UNCHANGED <<store, acknowledged, backend, backup>>
    BY DEF Load
  <1>3. handler' = [q \in Processes |-> handler'[q]]
    BY <1>1 DEF Sound
  <1>4. handler'[p] = [update |-> u, revision |-> store.revision, state |-> store.state]
    BY <1>1 DEF Sound
  <1>5. \A q \in Processes : q # p => handler'[q] = handler[q]
    BY <1>1 DEF Sound
  <1>6. LoadedIsCurrent'
    BY <1>2, <1>4, <1>5 DEF Sound, LoadedIsCurrent, CommittedStays, Loaded, IsExpected
  <1>7. OneHandlerPerHost'
    BY <1>2, <1>4, <1>5 DEF Load, Unlocked, Sound, OneHandlerPerHost, Loaded
  <1>8. RevisionsGrow'
    BY <1>2, <1>4, <1>5 DEF Sound, RevisionsGrow
  <1> QED BY <1>2, <1>3, <1>6, <1>7, <1>8 DEF Sound, CommittedStays, BackupIsState

(* A handler that leaves takes nothing with it.                             *)
LEMMA LeaveForgets ==
    ASSUME NEW p \in Processes, handler = [q \in Processes |-> handler[q]], Leave(p)
    PROVE  /\ handler' = [q \in Processes |-> handler'[q]]
           /\ handler'[p] = NoHandler
           /\ \A q \in Processes : q # p => handler'[q] = handler[q]
  BY DEF Leave

LEMMA SaveSqliteKeeps ==
    ASSUME NEW p \in Processes, Sound, SaveSqlite(p)
    PROVE  Sound'
  <1>1. /\ handler' = [q \in Processes |-> handler'[q]]
        /\ handler'[p] = NoHandler
        /\ \A q \in Processes : q # p => handler'[q] = handler[q]
    BY LeaveForgets DEF Sound, SaveSqlite
  <1>2. backend = "sqlite" /\ Loaded(p) /\ UNCHANGED <<backend, backup>>
    BY DEF SaveSqlite, Loaded
  <1>3. \A q \in Processes : ~Loaded(q)'
    BY <1>1, <1>2 DEF Sound, OneHandlerPerHost, Loaded
  <1>4. IsState(handler[p].state) /\ acknowledged \subseteq handler[p].state.done
    BY <1>2 DEF Sound, LoadedIsCurrent
  <1>5. IsState(NextState(p))
        /\ NextState(p).done = handler[p].state.done \cup {handler[p].update}
    BY <1>4, NextStateKeeps
  <1>6. store'.state = NextState(p) /\ acknowledged' = acknowledged \cup {handler[p].update}
    BY DEF SaveSqlite, Persisted
  <1>7. IsState(store.state)' /\ CommittedStays'
    BY <1>4, <1>5, <1>6 DEF CommittedStays, IsState
  <1> QED BY <1>1, <1>2, <1>3, <1>7
          DEF Sound, LoadedIsCurrent, OneHandlerPerHost, RevisionsGrow, BackupIsState

LEMMA SavePrimaryKeeps ==
    ASSUME NEW p \in Processes, Sound, SavePrimary(p)
    PROVE  Sound'
  <1>1. /\ handler' = [q \in Processes |-> handler'[q]]
        /\ handler'[p] = NoHandler
        /\ \A q \in Processes : q # p => handler'[q] = handler[q]
    BY LeaveForgets DEF Sound, SavePrimary
  <1>2. backend = "postgres" /\ Loaded(p) /\ UNCHANGED <<backend, backup>>
    BY DEF SavePrimary, Loaded
  <1>3. ~Loaded(p)' /\ handler'[p].revision = 0
    BY <1>1 DEF Loaded, NoHandler
  <1>4. CASE ~IsExpected(p)
    <2>1. UNCHANGED <<store, acknowledged>>
      BY <1>4 DEF SavePrimary
    <2>2. LoadedIsCurrent'
      BY <1>1, <1>2, <1>3, <2>1 DEF Sound, LoadedIsCurrent, Loaded, IsExpected
    <2>3. RevisionsGrow'
      BY <1>1, <1>2, <1>3, <2>1 DEF Sound, RevisionsGrow
    <2> QED BY <1>1, <1>2, <2>1, <2>2, <2>3
            DEF Sound, CommittedStays, OneHandlerPerHost, BackupIsState
  <1>5. CASE IsExpected(p)
    <2>1. IsState(handler[p].state) /\ acknowledged \subseteq handler[p].state.done
      BY <1>2, <1>5 DEF Sound, LoadedIsCurrent
    <2>2. IsState(NextState(p))
          /\ NextState(p).done = handler[p].state.done \cup {handler[p].update}
      BY <2>1, NextStateKeeps
    <2>3. store'.state = NextState(p) /\ store'.revision = store.revision + 1
      BY <1>5 DEF SavePrimary, Persisted
    <2>4. acknowledged' \subseteq acknowledged \cup {handler[p].update}
      BY <1>5 DEF SavePrimary
    <2>5. IsState(store.state)' /\ CommittedStays'
      BY <2>1, <2>2, <2>3, <2>4 DEF CommittedStays, IsState
    <2>6. \A q \in Processes : Loaded(q)' => ~IsExpected(q)'
      BY <1>1, <1>2, <1>3, <2>3 DEF Sound, RevisionsGrow, Loaded, IsExpected
    <2>7. LoadedIsCurrent'
      BY <1>1, <1>2, <1>3, <2>6 DEF Sound, LoadedIsCurrent, Loaded
    <2>8. RevisionsGrow'
      BY <1>1, <1>2, <1>3, <2>3 DEF Sound, RevisionsGrow
    <2> QED BY <1>1, <1>2, <2>5, <2>7, <2>8 DEF Sound, OneHandlerPerHost, BackupIsState
  <1> QED BY <1>4, <1>5

LEMMA EndCopyKeeps ==
    ASSUME NEW c, Sound, EndCopy(c)
    PROVE  Sound'
  <1>1. UNCHANGED <<backend, handler, backup, acknowledged>>
    BY DEF EndCopy
  <1>2. store' = store \/ store' = Recorded(c, durable')
    BY DEF EndCopy
  <1>3. /\ IsState(store'.state)
        /\ store'.state.done = store.state.done
        /\ store' = store \/ store'.revision = store.revision + 1
    BY <1>2, RecordedKeeps DEF Sound
  <1>4. IsState(store.state)' /\ CommittedStays'
    BY <1>1, <1>3 DEF Sound, CommittedStays, IsState
  <1>5. RevisionsGrow'
    BY <1>1, <1>3 DEF Sound, RevisionsGrow
  <1>6. LoadedIsCurrent'
    <2>1. SUFFICES ASSUME NEW p \in Processes, Loaded(p)
                   PROVE  /\ IsState(handler[p].state)
                          /\ backend = "sqlite" \/ handler[p].revision = store'.revision =>
                                 acknowledged \subseteq handler[p].state.done
      BY <1>1 DEF LoadedIsCurrent, Loaded, IsExpected, IsState
    <2>2. CASE store' = store
      BY <2>1, <2>2 DEF Sound, LoadedIsCurrent, IsExpected
    <2>3. CASE backend = "sqlite"
      BY <2>1, <2>3 DEF Sound, LoadedIsCurrent
    <2>4. CASE backend # "sqlite" /\ store'.revision = store.revision + 1
      BY <2>1, <2>4 DEF Sound, LoadedIsCurrent, RevisionsGrow
    <2> QED BY <1>3, <2>2, <2>3, <2>4
  <1> QED BY <1>1, <1>4, <1>5, <1>6 DEF Sound, OneHandlerPerHost, Loaded, BackupIsState

LEMMA RestartKeeps ==
    ASSUME NEW p \in Processes, NEW m, Sound, Restart(p, m)
    PROVE  Sound'
  <1>1. /\ handler' = [q \in Processes |-> handler'[q]]
        /\ handler'[p] = NoHandler
        /\ \A q \in Processes : q # p => handler'[q] = handler[q]
    BY LeaveForgets DEF Sound, Restart
  <1>2. UNCHANGED <<backend, store, backup, acknowledged>>
    BY DEF Restart
  <1>3. ~Loaded(p)' /\ handler'[p].revision = 0
    BY <1>1 DEF Loaded, NoHandler
  <1>4. LoadedIsCurrent'
    BY <1>1, <1>2, <1>3 DEF Sound, LoadedIsCurrent, Loaded, IsExpected
  <1>5. OneHandlerPerHost'
    BY <1>1, <1>2, <1>3 DEF Sound, OneHandlerPerHost, Loaded
  <1>6. RevisionsGrow'
    BY <1>1, <1>2, <1>3 DEF Sound, RevisionsGrow
  <1> QED BY <1>1, <1>2, <1>4, <1>5, <1>6 DEF Sound, CommittedStays, BackupIsState

LEMMA BackupKeeps ==
    ASSUME Sound, Backup
    PROVE  Sound'
  <1>1. UNCHANGED <<backend, store, handler, acknowledged>>
    BY DEF Backup, processVars
  <1>2. BackupIsState'
    BY <1>1 DEF Sound, Backup, BackupIsState
  <1> QED BY <1>1, <1>2
          DEF Sound, CommittedStays, LoadedIsCurrent, Loaded, IsExpected, OneHandlerPerHost,
              RevisionsGrow

LEMMA RestoreKeeps ==
    ASSUME Sound, Restore
    PROVE  Sound'
  <1>1. UNCHANGED <<backend, handler>> /\ backend = "sqlite"
    BY DEF Restore
  <1>2. \A p \in Processes : ~Loaded(p)'
    BY <1>1 DEF Restore, Unlocked, Loaded
  <1>3. IsState(store.state)' /\ BackupIsState'
    BY DEF Sound, Restore, BackupIsState, IsState
  <1>4. CommittedStays'
    BY DEF Restore, CommittedStays
  <1> QED BY <1>1, <1>2, <1>3, <1>4
          DEF Sound, LoadedIsCurrent, OneHandlerPerHost, RevisionsGrow

(* The other steps touch the shadow and the record of its copies only.      *)
LEMMA CopyKeeps ==
    ASSUME Sound, UNCHANGED <<backend, store, handler, backup, acknowledged>>
    PROVE  Sound'
  BY DEF Sound, CommittedStays, LoadedIsCurrent, Loaded, IsExpected, OneHandlerPerHost,
         RevisionsGrow, BackupIsState

LEMMA InitSound == Init => Sound
  <1> SUFFICES ASSUME Init PROVE Sound
    OBVIOUS
  <1>1. backend \in {"sqlite", "postgres"}
    BY RuntimeStoreAssumption DEF Init
  <1>2. \A p \in Processes : handler[p] = NoHandler
    BY DEF Init
  <1>3. handler = [p \in Processes |-> handler[p]]
    BY DEF Init
  <1>4. LoadedIsCurrent /\ OneHandlerPerHost
    BY <1>2 DEF LoadedIsCurrent, OneHandlerPerHost, Loaded
  <1>5. RevisionsGrow
    BY <1>2 DEF Init, RevisionsGrow, NoHandler
  <1>6. IsState(store.state) /\ CommittedStays
    BY DEF Init, IsState, EmptyState, CommittedStays
  <1>7. BackupIsState
    BY DEF Init, BackupIsState, NoBackup
  <1> QED BY <1>1, <1>3, <1>4, <1>5, <1>6, <1>7 DEF Sound

LEMMA NextSound == Sound /\ [Next]_vars => Sound'
  <1> SUFFICES ASSUME Sound, [Next]_vars PROVE Sound'
    OBVIOUS
  <1>1. CASE \E p \in Processes, u \in Updates : Load(p, u)
    BY <1>1, LoadKeeps
  <1>2. CASE \E p \in Processes : SaveSqlite(p)
    BY <1>2, SaveSqliteKeeps
  <1>3. CASE \E p \in Processes : SavePrimary(p)
    BY <1>3, SavePrimaryKeeps
  <1>4. CASE \E c \in copies : CopySucceeds(c)
    BY <1>4, CopyKeeps DEF CopySucceeds, Ended
  <1>5. CASE \E c \in copies : CopyFails(c)
    BY <1>5, CopyKeeps DEF CopyFails, Ended
  <1>6. CASE \E c \in copies : EndCopy(c)
    BY <1>6, EndCopyKeeps
  <1>7. CASE Reconcile
    BY <1>7, CopyKeeps DEF Reconcile
  <1>8. CASE \E p \in Processes, m \in IF backend = "sqlite" THEN Modes ELSE {"disabled"} :
                 Restart(p, m)
    BY <1>8, RestartKeeps
  <1>9. CASE Backup
    BY <1>9, BackupKeeps
  <1>10. CASE Restore
    BY <1>10, RestoreKeeps
  <1>11. CASE UNCHANGED vars
    BY <1>11, CopyKeeps DEF vars, processVars
  <1> QED BY <1>1, <1>2, <1>3, <1>4, <1>5, <1>6, <1>7, <1>8, <1>9, <1>10, <1>11 DEF Next

(* What a caller was told is saved stays saved: whichever of the two stores *)
(* is in use, however many processes and hosts write to it, and whatever    *)
(* becomes of the copies to the shadow.                                     *)
THEOREM CommittedStaysAlways == Spec => []CommittedStays
  <1>1. Sound => CommittedStays
    BY DEF Sound
  <1> QED BY <1>1, InitSound, NextSound, PTL DEF Spec

-----------------------------------------------------------------------------
(* The shadow keeps up.                                                     *)

(* Revision r has reached the shadow, is about to, or its copy is lost.     *)
Reached(r) ==
    \/ \E c \in copies : c.by # Operator /\ c.revision = r /\ c.phase = "running"
    \/ r \in unsynced
    \/ shadow.revision >= r

Numbered ==
    /\ store.revision \in Nat /\ shadow.revision \in Nat
    /\ \A c \in copies :
          /\ c = [by |-> c.by, revision |-> c.revision, state |-> c.state, phase |-> c.phase]
          /\ c.revision \in Nat

(* A restore goes back to a revision that once was the latest.              *)
BackupReached ==
    backup.taken =>
        /\ backup = [taken |-> TRUE, used |-> backup.used, store |-> backup.store,
                     durable |-> backup.durable]
        /\ backup.store.revision \in Nat /\ backup.store.revision <= store.revision
        /\ Reached(backup.store.revision)

Followed ==
    /\ Numbered
    /\ BackupReached
    /\ backend = "sqlite" => Reached(store.revision)

LEMMA SaveSqliteFollowed ==
    ASSUME NEW p \in Processes, Followed, SaveSqlite(p)
    PROVE  Followed'
  <1> DEFINE r == store.revision + 1
  <1>1. /\ store'.revision = r
        /\ store.revision \in Nat
        /\ UNCHANGED <<backend, shadow, backup>>
    BY DEF SaveSqlite, Persisted, Followed, Numbered
  <1>2. CASE mode[p] = "disabled"
    <2>1. UNCHANGED copies /\ unsynced' = unsynced \cup {r}
      BY <1>1, <1>2 DEF SaveSqlite, StartCopy
    <2> QED BY <1>1, <2>1 DEF Followed, Numbered, BackupReached, Reached
  <1>3. CASE mode[p] # "disabled"
    <2> DEFINE c == [by |-> p, revision |-> r, state |-> store'.state, phase |-> "running"]
    <2>1. copies' = copies \cup {c} /\ unsynced' = unsynced \ {r}
      BY <1>1, <1>3 DEF SaveSqlite, StartCopy
    <2>2. c.by # Operator /\ c.revision = r /\ c.phase = "running"
      BY RuntimeStoreAssumption
    <2>3. Numbered'
      BY <1>1, <2>1 DEF Followed, Numbered
    <2> HIDE DEF c
    <2>4. Reached(store.revision)'
      BY <1>1, <2>1, <2>2 DEF Reached
    <2>5. BackupReached'
      <3> SUFFICES ASSUME backup.taken PROVE BackupReached'
        BY <1>1 DEF BackupReached
      <3>1. backup.store.revision # r
        BY <1>1 DEF Followed, BackupReached
      <3>2. Reached(backup.store.revision)'
        BY <1>1, <2>1, <3>1 DEF Followed, BackupReached, Reached
      <3> QED BY <1>1, <3>2 DEF Followed, BackupReached
    <2> QED BY <2>3, <2>4, <2>5 DEF Followed
  <1> QED BY <1>2, <1>3

LEMMA SavePrimaryFollowed ==
    ASSUME NEW p \in Processes, Followed, SavePrimary(p)
    PROVE  Followed'
  <1>1. /\ backend = "postgres"
        /\ UNCHANGED <<backend, copies, shadow, backup, unsynced>>
        /\ store' = store \/ store'.revision = store.revision + 1
    BY DEF SavePrimary, Persisted
  <1> QED BY <1>1 DEF Followed, Numbered, BackupReached, Reached

(* The end of a transaction: the copy is still there, but not running.      *)
LEMMA EndedFollowed ==
    ASSUME NEW c \in copies, NEW status, Followed, Ended(c, status),
           shadow'.revision \in Nat, shadow'.revision >= shadow.revision,
           c.by = Operator \/ shadow'.revision >= c.revision \/ c.revision \in unsynced',
           unsynced \subseteq unsynced'
    PROVE  Followed'
  <1> DEFINE d == [c EXCEPT !.phase = status]
  <1>1. UNCHANGED <<backend, store, backup>> /\ copies' = (copies \ {c}) \cup {d}
    BY DEF Ended
  <1>2. d = [by |-> c.by, revision |-> c.revision, state |-> c.state, phase |-> status]
    BY DEF Followed, Numbered
  <1>3. c.revision \in Nat
    BY DEF Followed, Numbered
  <1> HIDE DEF d
  <1>4. Numbered'
    BY <1>1, <1>2, <1>3 DEF Followed, Numbered
  <1>5. ASSUME NEW r \in Nat, Reached(r) PROVE Reached(r)'
    BY <1>1, <1>3, <1>5 DEF Reached, Followed, Numbered
  <1>6. BackupReached'
    BY <1>1, <1>5 DEF Followed, BackupReached
  <1>7. backend' = "sqlite" => Reached(store.revision)'
    BY <1>1, <1>5 DEF Followed, Numbered
  <1> QED BY <1>4, <1>6, <1>7 DEF Followed

LEMMA CopiedAdvances ==
    ASSUME NEW c \in copies, Followed
    PROVE  /\ Copied(c).revision \in Nat
           /\ Copied(c).revision >= shadow.revision
           /\ Copied(c).revision >= c.revision
  BY DEF Copied, IsFresh, Followed, Numbered

LEMMA EndCopyFollowed ==
    ASSUME NEW c \in copies, Followed, EndCopy(c)
    PROVE  Followed'
  <1>1. /\ UNCHANGED <<backend, shadow, backup>>
        /\ copies' = copies \ {c} /\ c.phase # "running"
    BY DEF EndCopy
  <1>2. \/ store' = store /\ unsynced' = unsynced
        \/ /\ store'.revision = store.revision + 1
           /\ unsynced' = unsynced \cup {store'.revision}
    BY DEF EndCopy, Recorded, Persisted
  <1>3. Numbered'
    BY <1>1, <1>2 DEF Followed, Numbered
  <1>4. ASSUME NEW r \in Nat, Reached(r) PROVE Reached(r)'
    BY <1>1, <1>2, <1>4 DEF Reached
  <1>5. BackupReached'
    BY <1>1, <1>2, <1>4 DEF Followed, Numbered, BackupReached
  <1>6. backend' = "sqlite" => Reached(store.revision)'
    <2>1. CASE store' = store
      BY <1>1, <1>4, <2>1 DEF Followed, Numbered
    <2>2. CASE store'.revision \in unsynced'
      BY <2>2 DEF Reached
    <2> QED BY <1>2, <2>1, <2>2
  <1> QED BY <1>3, <1>5, <1>6 DEF Followed

LEMMA ReconcileFollowed == Followed /\ Reconcile => Followed'
  <1> SUFFICES ASSUME Followed, Reconcile PROVE Followed'
    OBVIOUS
  <1> DEFINE c == [by |-> Operator, revision |-> store.revision, state |-> store.state,
                   phase |-> "running"]
  <1>1. UNCHANGED <<backend, store, shadow, backup, unsynced>> /\ copies' = copies \cup {c}
    BY DEF Reconcile
  <1>2. Numbered'
    BY <1>1 DEF Followed, Numbered
  <1> HIDE DEF c
  <1> QED BY <1>1, <1>2 DEF Followed, BackupReached, Reached

(* The copies of a process that dies are lost.                              *)
LEMMA LostFollowed ==
    ASSUME NEW lost \in SUBSET copies, Followed,
           UNCHANGED <<backend, store, shadow, backup>>,
           copies' = copies \ lost,
           unsynced' = unsynced \cup {c.revision : c \in lost}
    PROVE  Followed'
  <1>1. Numbered'
    BY DEF Followed, Numbered
  <1>2. ASSUME NEW r, Reached(r) PROVE Reached(r)'
    BY <1>2 DEF Reached
  <1> QED BY <1>1, <1>2 DEF Followed, BackupReached

LEMMA RestoreFollowed == Followed /\ Restore => Followed'
  <1> SUFFICES ASSUME Followed, Restore PROVE Followed'
    OBVIOUS
  <1> DEFINE r == backup.store.revision
  <1>1. /\ backup.taken /\ Reached(r) /\ r \in Nat
        /\ backup = [taken |-> TRUE, used |-> backup.used, store |-> backup.store,
                     durable |-> backup.durable]
    BY DEF Restore, Followed, BackupReached
  <1>2. /\ UNCHANGED <<backend, shadow>>
        /\ store' = backup.store
        /\ copies' = {}
        /\ unsynced' = unsynced \cup {c.revision : c \in copies}
    BY DEF Restore
  <1>3. backup' = [taken |-> TRUE, used |-> TRUE, store |-> backup.store,
                   durable |-> backup.durable]
    BY <1>1 DEF Restore
  <1>4. Reached(store.revision)'
    BY <1>1, <1>2 DEF Reached
  <1>5. BackupReached'
    BY <1>1, <1>2, <1>3, <1>4 DEF BackupReached, Reached
  <1>6. Numbered'
    BY <1>1, <1>2 DEF Followed, Numbered
  <1> QED BY <1>4, <1>5, <1>6 DEF Followed

LEMMA NextFollowed == Followed /\ [Next]_vars => Followed'
  <1> SUFFICES ASSUME Followed, [Next]_vars PROVE Followed'
    OBVIOUS
  <1>1. CASE \E p \in Processes, u \in Updates : Load(p, u)
    BY <1>1 DEF Load, Followed, Numbered, BackupReached, Reached
  <1>2. CASE \E p \in Processes : SaveSqlite(p)
    BY <1>2, SaveSqliteFollowed
  <1>3. CASE \E p \in Processes : SavePrimary(p)
    BY <1>3, SavePrimaryFollowed
  <1>4. ASSUME NEW c \in copies, CopySucceeds(c) PROVE Followed'
    BY <1>4, CopiedAdvances, EndedFollowed DEF CopySucceeds
  <1>5. ASSUME NEW c \in copies, CopyFails(c) PROVE Followed'
    <2>1. shadow'.revision \in Nat /\ shadow'.revision >= shadow.revision
      BY <1>5, CopiedAdvances DEF CopyFails, Followed, Numbered
    <2>2. c.by = Operator \/ c.revision \in unsynced'
      BY <1>5 DEF CopyFails
    <2>3. unsynced \subseteq unsynced' /\ Ended(c, "failed")
      BY <1>5 DEF CopyFails
    <2> QED BY <2>1, <2>2, <2>3, EndedFollowed
  <1>6. CASE \E c \in copies : EndCopy(c)
    BY <1>6, EndCopyFollowed
  <1>7. CASE Reconcile
    BY <1>7, ReconcileFollowed
  <1>8. ASSUME NEW p \in Processes, NEW m, Restart(p, m) PROVE Followed'
    <2> DEFINE lost == {c \in copies : c.by = p}
    <2>1. copies' = copies \ lost
      BY <1>8 DEF Restart
    <2>2. unsynced' = unsynced \cup {c.revision : c \in lost}
      BY <1>8 DEF Restart
    <2>3. UNCHANGED <<backend, store, shadow, backup>>
      BY <1>8 DEF Restart
    <2> HIDE DEF lost
    <2>4. lost \in SUBSET copies
      BY DEF lost
    <2> QED BY <2>1, <2>2, <2>3, <2>4, LostFollowed
  <1>9. CASE Backup
    <2>1. UNCHANGED <<backend, store, copies, shadow, unsynced>> /\ backend = "sqlite"
      BY <1>9 DEF Backup, processVars
    <2> QED BY <1>9, <2>1 DEF Backup, Followed, Numbered, BackupReached, Reached
  <1>10. CASE Restore
    BY <1>10, RestoreFollowed
  <1>11. CASE UNCHANGED vars
    BY <1>11 DEF vars, processVars, Followed, Numbered, BackupReached, Reached
  <1> QED BY <1>1, <1>2, <1>3, <1>4, <1>5, <1>6, <1>7, <1>8, <1>9, <1>10, <1>11 DEF Next

LEMMA InitFollowed == Init => Followed
  BY DEF Init, Followed, Numbered, BackupReached, NoBackup, Reached

(* The shadow reaches the last snapshot however its copies overtake each    *)
(* other, and whatever is backed up and restored in between, unless the     *)
(* copy of that very snapshot failed, died or was never started.            *)
THEOREM ShadowKeepsUpAlways == Spec => []ShadowKeepsUp
  <1>1. Sound /\ Followed => ShadowKeepsUp
    BY DEF Sound, Followed, Reached, ShadowKeepsUp
  <1> QED BY <1>1, InitSound, NextSound, InitFollowed, NextFollowed, PTL DEF Spec

-----------------------------------------------------------------------------
(* The shadow is an image of one snapshot.                                  *)

(* Until a restore takes revisions again, revisions tell snapshots apart:   *)
(* none is ahead of the store, and its own names the state the store has.   *)
OfTheStore ==
    /\ shadow.revision <= store.revision
    /\ shadow.revision = store.revision => shadow.rows = Rows(store.state)
    /\ \A c \in copies :
          /\ c.revision <= store.revision
          /\ c.revision = store.revision => Rows(c.state) = Rows(store.state)

(* The queue of the shadow is never ahead of its rows.                      *)
QueueIsAnImage ==
    /\ shadow.queueRevision \in Nat /\ shadow.queueRevision <= shadow.revision
    /\ shadow.queueRevision = shadow.revision => shadow.queue = QueueRows(shadow.rows)

Imaged ==
    /\ QueueIsAnImage
    /\ backup.used => backup.taken
    /\ backup.used \/ OfTheStore

(* The store moves on: what has its new revision has its new state.         *)
LEMMA MovesOn ==
    ASSUME Numbered, Imaged,
           store'.revision = store.revision + 1,
           UNCHANGED <<shadow, backup>>,
           \A c \in copies' : \/ c \in copies
                              \/ c.revision = store'.revision /\ c.state = store'.state
    PROVE  Imaged'
  <1>1. QueueIsAnImage' /\ (backup'.used => backup'.taken)
    BY DEF Imaged, QueueIsAnImage
  <1>2. CASE OfTheStore
    <2>1. shadow'.revision < store'.revision
      BY <1>2 DEF OfTheStore, Numbered
    <2>2. ASSUME NEW c \in copies'
          PROVE  /\ c.revision <= store'.revision
                 /\ c.revision = store'.revision => Rows(c.state) = Rows(store'.state)
      <3>1. CASE c \in copies
        BY <1>2, <3>1 DEF OfTheStore, Numbered
      <3>2. CASE c.revision = store'.revision /\ c.state = store'.state
        BY <3>2 DEF Numbered
      <3> QED BY <2>2, <3>1, <3>2
    <2>3. OfTheStore'
      BY <2>1, <2>2 DEF OfTheStore, Numbered, Rows
    <2> QED BY <1>1, <2>3 DEF Imaged
  <1>3. CASE backup.used
    BY <1>1, <1>3 DEF Imaged
  <1> QED BY <1>2, <1>3 DEF Imaged

(* The store stands: a copy that joins or goes on is of its snapshot, or of *)
(* one under way already.                                                   *)
LEMMA Stands ==
    ASSUME Numbered, Imaged,
           UNCHANGED <<store, shadow, backup>>,
           \A c \in copies' : \/ \E d \in copies : c.revision = d.revision /\ c.state = d.state
                              \/ c.revision = store.revision /\ c.state = store.state
    PROVE  Imaged'
  <1>1. QueueIsAnImage' /\ (backup'.used => backup'.taken)
    BY DEF Imaged, QueueIsAnImage
  <1>2. OfTheStore => OfTheStore'
    <2> SUFFICES ASSUME OfTheStore, NEW c \in copies'
                 PROVE  /\ c.revision <= store.revision
                        /\ c.revision = store.revision => Rows(c.state) = Rows(store.state)
      BY DEF OfTheStore, Rows
    <2> QED BY DEF OfTheStore, Numbered
  <1> QED BY <1>1, <1>2 DEF Imaged

(* A copy that agrees with the shadow makes it the image of what it copies, *)
(* or leaves it.                                                            *)
LEMMA CopiedIsAnImage ==
    ASSUME NEW c \in copies, Numbered, Imaged, ~Conflicts(c),
           shadow' = Copied(c), UNCHANGED <<store, backup>>,
           \A e \in copies' : \E d \in copies : e.revision = d.revision /\ e.state = d.state
    PROVE  Imaged'
  <1>1. CASE ~IsFresh(c)
    BY <1>1, Stands DEF Copied
  <1>2. CASE IsFresh(c)
    <2>1. /\ shadow'.revision = c.revision
          /\ shadow'.rows = Rows(c.state)
          /\ shadow'.queueRevision = IF TakesQueue(c) THEN c.revision ELSE shadow.queueRevision
          /\ shadow'.queue = IF TakesQueue(c) THEN QueueRows(Rows(c.state)) ELSE shadow.queue
      BY <1>2 DEF Copied
    <2>2. /\ shadow.revision <= c.revision
          /\ shadow.revision = c.revision => shadow.rows = Rows(c.state)
          /\ c.revision \in Nat /\ shadow.revision \in Nat
      BY <1>2 DEF Conflicts, IsFresh, Numbered
    <2>3. QueueIsAnImage'
      <3>1. CASE TakesQueue(c)
        BY <2>1, <2>2, <3>1 DEF QueueIsAnImage
      <3>2. CASE ~TakesQueue(c)
        <4>1. shadow'.queueRevision \in Nat /\ shadow'.queueRevision <= shadow'.revision
          BY <2>1, <2>2, <3>2 DEF Imaged, QueueIsAnImage
        <4>2. shadow'.queueRevision = shadow'.revision =>
                  shadow.queueRevision = shadow.revision /\ shadow.rows = shadow'.rows
          BY <2>1, <2>2, <3>2 DEF Imaged, QueueIsAnImage
        <4>3. shadow'.queue = shadow.queue
          BY <2>1, <3>2
        <4> QED BY <4>1, <4>2, <4>3 DEF Imaged, QueueIsAnImage, QueueRows
      <3> QED BY <3>1, <3>2
    <2>4. OfTheStore => OfTheStore'
      <3> SUFFICES ASSUME OfTheStore PROVE OfTheStore'
        OBVIOUS
      <3>1. /\ shadow'.revision <= store'.revision
            /\ shadow'.revision = store'.revision => shadow'.rows = Rows(store'.state)
        BY <2>1 DEF OfTheStore
      <3>2. ASSUME NEW e \in copies'
            PROVE  /\ e.revision <= store'.revision
                   /\ e.revision = store'.revision => Rows(e.state) = Rows(store'.state)
        BY <3>2 DEF OfTheStore
      <3> QED BY <3>1, <3>2 DEF OfTheStore, Rows
    <2> QED BY <2>3, <2>4 DEF Imaged
  <1> QED BY <1>1, <1>2

(* A transaction that ended leaves the content of its copy.                 *)
LEMMA EndedKeepsContent ==
    ASSUME NEW c \in copies, NEW status, Numbered, Ended(c, status)
    PROVE  \A e \in copies' : \E d \in copies : e.revision = d.revision /\ e.state = d.state
  <1> DEFINE ended == [c EXCEPT !.phase = status]
  <1>1. copies' = (copies \ {c}) \cup {ended}
    BY DEF Ended
  <1>2. ended.revision = c.revision /\ ended.state = c.state
    BY DEF Numbered
  <1> HIDE DEF ended
  <1> QED BY <1>1, <1>2

LEMMA SaveSqliteImaged ==
    ASSUME NEW p \in Processes, Numbered, Imaged, SaveSqlite(p)
    PROVE  Imaged'
  <1>1. store'.revision = store.revision + 1 /\ UNCHANGED <<shadow, backup>>
    BY DEF SaveSqlite, Persisted
  <1>2. \A c \in copies' : \/ c \in copies
                           \/ c.revision = store'.revision /\ c.state = store'.state
    <2> DEFINE new == [by |-> p, revision |-> store'.revision, state |-> store'.state,
                       phase |-> "running"]
    <2>1. copies' = copies \/ copies' = copies \cup {new}
      BY DEF SaveSqlite, StartCopy
    <2>2. new.revision = store'.revision /\ new.state = store'.state
      OBVIOUS
    <2> HIDE DEF new
    <2> QED BY <2>1, <2>2
  <1> QED BY <1>1, <1>2, MovesOn

LEMMA RestoreImaged ==
    ASSUME BackupReached, Imaged, Restore
    PROVE  Imaged'
  <1>1. backup' = [taken |-> TRUE, used |-> TRUE, store |-> backup.store,
                   durable |-> backup.durable]
    <2>1. backup = [taken |-> TRUE, used |-> backup.used, store |-> backup.store,
                    durable |-> backup.durable]
      BY DEF Restore, BackupReached
    <2> QED BY <2>1 DEF Restore
  <1>2. backup'.used /\ backup'.taken
    BY <1>1
  <1>3. QueueIsAnImage'
    BY DEF Restore, Imaged, QueueIsAnImage
  <1> QED BY <1>2, <1>3 DEF Imaged

LEMMA NextImaged == Followed /\ Imaged /\ [Next]_vars => Imaged'
  <1> SUFFICES ASSUME Followed, Imaged, [Next]_vars PROVE Imaged'
    OBVIOUS
  <1>n. Numbered
    BY DEF Followed
  <1>1. CASE \E p \in Processes, u \in Updates : Load(p, u)
    BY <1>1, <1>n, Stands DEF Load
  <1>2. CASE \E p \in Processes : SaveSqlite(p)
    BY <1>2, <1>n, SaveSqliteImaged
  <1>3. ASSUME NEW p \in Processes, SavePrimary(p) PROVE Imaged'
    <2>1. UNCHANGED <<copies, shadow, backup>>
      BY <1>3 DEF SavePrimary
    <2>2. CASE store' = store
      BY <1>n, <2>1, <2>2, Stands
    <2>3. CASE store'.revision = store.revision + 1
      BY <1>n, <2>1, <2>3, MovesOn
    <2> QED BY <1>3, <2>2, <2>3 DEF SavePrimary, Persisted
  <1>4. ASSUME NEW c \in copies, CopySucceeds(c) PROVE Imaged'
    <2>1. \A e \in copies' : \E d \in copies : e.revision = d.revision /\ e.state = d.state
      BY <1>4, <1>n, EndedKeepsContent DEF CopySucceeds
    <2>2. UNCHANGED <<store, backup>> /\ shadow' = Copied(c) /\ ~Conflicts(c)
      BY <1>4 DEF CopySucceeds, Ended
    <2> QED BY <1>n, <2>1, <2>2, CopiedIsAnImage
  <1>5. ASSUME NEW c \in copies, CopyFails(c) PROVE Imaged'
    <2>1. \A e \in copies' : \E d \in copies : e.revision = d.revision /\ e.state = d.state
      BY <1>5, <1>n, EndedKeepsContent DEF CopyFails
    <2>2. UNCHANGED <<store, backup>>
      BY <1>5 DEF CopyFails, Ended
    <2>3. CASE shadow' = shadow
      BY <1>n, <2>1, <2>2, <2>3, Stands
    <2>4. CASE ~Conflicts(c) /\ shadow' = Copied(c)
      BY <1>n, <2>1, <2>2, <2>4, CopiedIsAnImage
    <2> QED BY <1>5, <2>3, <2>4 DEF CopyFails
  <1>6. ASSUME NEW c \in copies, EndCopy(c) PROVE Imaged'
    <2>1. copies' = copies \ {c} /\ UNCHANGED <<shadow, backup>>
      BY <1>6 DEF EndCopy
    <2>2. CASE store' = store
      BY <1>n, <2>1, <2>2, Stands
    <2>3. CASE store'.revision = store.revision + 1
      BY <1>n, <2>1, <2>3, MovesOn
    <2> QED BY <1>6, <2>2, <2>3 DEF EndCopy, Recorded, Persisted
  <1>7. CASE Reconcile
    <2> DEFINE new == [by |-> Operator, revision |-> store.revision, state |-> store.state,
                       phase |-> "running"]
    <2>1. copies' = copies \cup {new} /\ UNCHANGED <<store, shadow, backup>>
      BY <1>7 DEF Reconcile
    <2>2. new.revision = store.revision /\ new.state = store.state
      OBVIOUS
    <2> HIDE DEF new
    <2> QED BY <1>n, <2>1, <2>2, Stands
  <1>8. ASSUME NEW p \in Processes, NEW m, Restart(p, m) PROVE Imaged'
    BY <1>8, <1>n, Stands DEF Restart
  <1>9. CASE Backup
    <2>1. UNCHANGED <<store, copies, shadow>> /\ ~backup.taken /\ ~backup'.used
      BY <1>9 DEF Backup, processVars
    <2>2. OfTheStore
      BY <2>1 DEF Imaged
    <2> QED BY <2>1, <2>2 DEF Imaged, QueueIsAnImage, OfTheStore
  <1>10. CASE Restore
    BY <1>10, RestoreImaged DEF Followed
  <1>11. CASE UNCHANGED vars
    BY <1>11, <1>n, Stands DEF vars, processVars
  <1> QED BY <1>1, <1>2, <1>3, <1>4, <1>5, <1>6, <1>7, <1>8, <1>9, <1>10, <1>11 DEF Next

LEMMA InitImaged == Init => Imaged
  <1> SUFFICES ASSUME Init PROVE Imaged
    OBVIOUS
  <1>1. /\ shadow.revision = 0 /\ shadow.queueRevision = 0 /\ store.revision = 0
        /\ shadow.rows = Rows(EmptyState) /\ store.state = EmptyState
        /\ shadow.queue = {} /\ copies = {}
    BY DEF Init
  <1>2. QueueRows(Rows(EmptyState)) = {}
    BY DEF QueueRows, Rows, EmptyState
  <1>3. QueueIsAnImage /\ OfTheStore
    BY <1>1, <1>2 DEF QueueIsAnImage, OfTheStore
  <1>4. ~backup.used
    BY DEF Init, NoBackup
  <1> QED BY <1>3, <1>4 DEF Imaged

(* However copies of several processes overtake each other, fail after they *)
(* were committed, are refused or are repeated by an operator, the shadow   *)
(* holds one snapshot and never parts of two: at the revision of the store  *)
(* its rows are those of the store until a restore takes revisions again,   *)
(* and a queue of the revision of the rows is the queue of these rows.      *)
THEOREM ShadowIsAnImageAlways == Spec => []ShadowIsAnImage
  <1>1. Imaged => ShadowIsAnImage
    BY DEF Imaged, QueueIsAnImage, OfTheStore, ShadowIsAnImage
  <1> QED BY <1>1, InitFollowed, InitImaged, NextFollowed, NextImaged, PTL DEF Spec
=============================================================================
