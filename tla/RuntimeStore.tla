---------------------------- MODULE RuntimeStore ----------------------------
(***************************************************************************)
(* Where the runtime state is kept: the SQLite snapshots of one host with  *)
(* their shadow in Postgres (runtime-state-sqlite.ts, -shadow.ts and the   *)
(* packages dispatcher-store-postgres and dispatcher-queue-postgres), or   *)
(* Postgres as the primary store of several hosts.                         *)
(*                                                                         *)
(* Processes run handlers: a dispatcher, and the command lines that run    *)
(* its handlers on the state directory.  On one host the state lock orders *)
(* them (StateLock).  A save to SQLite starts a copy to the shadow that    *)
(* nobody awaits: copies overtake each other, fail, and die with their     *)
(* process; a failed one is recorded as an event, without the state lock.  *)
(*                                                                         *)
(* Of a runtime state this is kept: the updates it contains, its events    *)
(* and the number of the last event.  A checksum stands for the content it *)
(* is computed from.  Snapshots older than the latest are never read, and  *)
(* the retention of 500 events is not reached.                             *)
(*                                                                         *)
(* A definition whose comment begins with "Defect" is not part of the      *)
(* model: it is the definition after it with a bug one could write.        *)
(***************************************************************************)
EXTENDS Naturals, FiniteSets

CONSTANTS
    Backends,       \* the values of RUNTIME_STATE_BACKEND to consider
    Processes,
    Operator,       \* the process of check-shadow-drift.mjs --reconcile
    Updates,        \* what handlers do, each at most once
    Unqueued,       \* the updates that change no assignment
    MaxRevision,    \* bound: revisions of the store
    MaxCopies,      \* bound: copies to the shadow under way
    MaxRestarts     \* bound: crashes, restarts and restores

ASSUME RuntimeStoreAssumption ==
    /\ Backends \subseteq {"sqlite", "postgres"}
    /\ Operator \notin Processes
    /\ Unqueued \subseteq Updates
    /\ MaxRevision \in Nat /\ MaxCopies \in Nat /\ MaxRestarts \in Nat

VARIABLES
    backend,        \* where the state is kept
    store,          \* [revision, state, audit]
    handler,        \* what each process has loaded, or NoHandler
    mode,           \* what each process copies to the shadow: its environment
    copies,         \* syncRuntimeStateShadow under way, [by, revision, state, phase]
    live,           \* shadowWriteStatus of each process, [status, attempt]
    durable,        \* runtime-state-shadow-status.json
    attempts,       \* the clock of lastAttemptAt
    shadow,         \* the shadow database
    backup,         \* the last backup of the state directory, or NoBackup
    restarts,       \* crashes, restarts and restores so far
    acknowledged,   \* history: updates whose caller was answered
    unsynced        \* history: revisions whose copy failed or never began

processVars == <<handler, mode, copies, live>>
vars == <<backend, store, processVars, durable, attempts, shadow, backup,
          restarts, acknowledged, unsynced>>

EmptyState == [done |-> {}, events |-> {}, eventSequence |-> 0]

AppendEvent(state, what) ==
    [state EXCEPT !.eventSequence = @ + 1,
                  !.events = @ \cup {[id |-> state.eventSequence + 1, what |-> what]}]

(* The audit takes the events whose id it does not have. *)
Audited(audit, events) ==
    audit \cup {e \in events : \A a \in audit : a.id # e.id}

Persisted(stored, state) ==
    [revision |-> stored.revision + 1, state |-> state,
     audit |-> Audited(stored.audit, state.events)]

NoHandler == [update |-> "none", revision |-> 0, state |-> EmptyState]
NoBackup == [taken |-> FALSE, used |-> FALSE]
Quiet == [status |-> "idle", attempt |-> 0]

Modes == {"disabled", "projection", "queue"}

(* What the shadow is to hold of a state. *)
Rows(state) == [done |-> state.done, events |-> state.events]
QueueRows(rows) == rows.done \ Unqueued

-----------------------------------------------------------------------------
(* Handlers.  Processes of one host share the lock of the state directory. *)

Unlocked == backend = "sqlite" => \A p \in Processes : handler[p] = NoHandler

(* What the handler loaded is forgotten. *)
Leave(p) == handler' = [handler EXCEPT ![p] = NoHandler]

Load(p, u) ==
    /\ handler[p] = NoHandler /\ Unlocked
    /\ u \notin acknowledged
    /\ handler' = [handler EXCEPT ![p] =
           [update |-> u, revision |-> store.revision, state |-> store.state]]
    /\ UNCHANGED <<backend, store, mode, copies, live, durable, attempts, shadow,
                   backup, restarts, acknowledged, unsynced>>

NextState(p) ==
    LET h == handler[p]
    IN [AppendEvent(h.state, h.update) EXCEPT !.done = @ \cup {h.update}]

(* A process that runs a handler does nothing else until the handler ends, *)
(* and the copy of a save begins before anything else runs.                *)
StartCopy(p) ==
    LET began == [status |-> IF mode[p] = "disabled" THEN "skipped" ELSE "running",
                  attempt |-> attempts + 1]
    IN /\ attempts' = attempts + 1
       /\ live' = [live EXCEPT ![p] = began]
       /\ IF mode[p] = "disabled"
          THEN durable' = began /\ UNCHANGED copies
          ELSE /\ copies' = copies \cup {[by |-> p, revision |-> store'.revision,
                                          state |-> store'.state, phase |-> "running"]}
               /\ UNCHANGED durable

SaveSqlite(p) ==
    /\ handler[p] # NoHandler /\ backend = "sqlite"
    /\ store.revision < MaxRevision /\ Cardinality(copies) < MaxCopies
    /\ store' = Persisted(store, NextState(p))
    /\ StartCopy(p)
    /\ Leave(p)
    /\ acknowledged' = acknowledged \cup {handler[p].update}
    /\ unsynced' = IF mode[p] = "disabled" THEN unsynced \cup {store'.revision}
                                           ELSE unsynced \ {store'.revision}
    /\ UNCHANGED <<backend, mode, shadow, backup, restarts>>

(* INSERT ... ON CONFLICT DO NOTHING, UPDATE ... WHERE revision = expected. *)
IsExpected(p) == handler[p].revision = store.revision

SavePrimary(p) ==
    /\ handler[p] # NoHandler /\ backend = "postgres"
    /\ store.revision < MaxRevision
    /\ IF IsExpected(p)
       THEN /\ store' = Persisted(store, NextState(p))
            /\ acknowledged' \in {acknowledged, acknowledged \cup {handler[p].update}}
       ELSE UNCHANGED <<store, acknowledged>>
    /\ Leave(p)
    /\ UNCHANGED <<backend, mode, copies, live, durable, attempts, shadow, backup,
                   restarts, unsynced>>

-----------------------------------------------------------------------------
(* Copies to the shadow: one transaction for projection and queue.          *)

(* Defect: the copy is applied whatever revision the shadow has. *)
AlwaysFresh(c) == TRUE

IsFresh(c) == shadow.revision <= c.revision

(* A fresh copy is never stale for the queue: the queue is not ahead. *)
TakesQueue(c) == c.by = Operator \/ mode[c.by] = "queue"

Conflicts(c) ==
    /\ IsFresh(c)
    /\ \/ shadow.revision = c.revision /\ shadow.rows # Rows(c.state)
       \/ /\ TakesQueue(c) /\ shadow.queueRevision = c.revision
          /\ shadow.queue # QueueRows(Rows(c.state))

(* Defect: the queue gets the revision of the copy and keeps its rows. *)
CopiedWithoutQueue(c) ==
    IF ~IsFresh(c) THEN shadow
    ELSE [shadow EXCEPT !.revision = c.revision, !.rows = Rows(c.state),
                        !.queueRevision = IF TakesQueue(c) THEN c.revision ELSE @]

Copied(c) ==
    IF ~IsFresh(c) THEN shadow
    ELSE [revision |-> c.revision, rows |-> Rows(c.state),
          queueRevision |-> IF TakesQueue(c) THEN c.revision ELSE shadow.queueRevision,
          queue |-> IF TakesQueue(c) THEN QueueRows(Rows(c.state)) ELSE shadow.queue]

Awaited(p) == p # Operator => handler[p] = NoHandler

(* The transaction ended: the connection is closed next. *)
Ended(c, status) ==
    /\ copies' = (copies \ {c}) \cup {[c EXCEPT !.phase = status]}
    /\ live' = IF c.by = Operator THEN live ELSE [live EXCEPT ![c.by].status = status]
    /\ UNCHANGED <<backend, store, handler, mode, durable, attempts, backup, restarts,
                   acknowledged>>

CopySucceeds(c) ==
    /\ c.phase = "running" /\ Awaited(c.by) /\ ~Conflicts(c)
    /\ shadow' = Copied(c)
    /\ Ended(c, "ok")
    /\ UNCHANGED unsynced

(* Rolled back, refused for its content, or committed without an answer. *)
CopyFails(c) ==
    /\ c.phase = "running" /\ Awaited(c.by)
    /\ shadow' \in {shadow, IF Conflicts(c) THEN shadow ELSE Copied(c)}
    /\ Ended(c, "failed")
    /\ unsynced' = IF c.by = Operator THEN unsynced ELSE unsynced \cup {c.revision}

(* Defect: the failure is added to the state that was copied. *)
RecordedOnCopied(c, status) ==
    LET what == <<"shadow_write_failed", status.attempt>>
    IN IF \E e \in c.state.events : e.what = what
       THEN store ELSE Persisted(store, AppendEvent(c.state, what))

(* recordShadowFailureEvent *)
Recorded(c, status) ==
    LET what == <<"shadow_write_failed", status.attempt>>
    IN IF \E e \in store.state.events : e.what = what
       THEN store ELSE Persisted(store, AppendEvent(store.state, what))

(* The process saves its own status over whatever another process saved; a  *)
(* failure becomes an event of the latest snapshot, unless the status tells *)
(* of another copy by then.                                                 *)
EndCopy(c) ==
    /\ c.phase \in {"ok", "failed"} /\ Awaited(c.by)
    /\ copies' = copies \ {c}
    /\ IF c.by = Operator THEN UNCHANGED <<store, durable, unsynced>>
       ELSE /\ durable' = live[c.by]
            /\ store' = IF c.phase = "failed" /\ durable'.status = "failed"
                        THEN Recorded(c, durable') ELSE store
            /\ store'.revision <= MaxRevision
            /\ unsynced' = IF store' = store THEN unsynced
                                             ELSE unsynced \cup {store'.revision}
    /\ UNCHANGED <<backend, handler, mode, live, attempts, shadow, backup, restarts,
                   acknowledged>>

(* compareCounts: the numbers of rows are compared. *)
Drifted ==
    LET rows == Rows(store.state)
    IN \/ Cardinality(shadow.rows.done) # Cardinality(rows.done)
       \/ Cardinality(shadow.rows.events) # Cardinality(rows.events)
       \/ Cardinality(shadow.queue) # Cardinality(QueueRows(rows))

(* check-shadow-drift.mjs --reconcile copies the latest snapshot. *)
Reconcile ==
    /\ backend = "sqlite" /\ store.revision > 0 /\ Drifted
    /\ Cardinality(copies) < MaxCopies /\ \A c \in copies : c.by # Operator
    /\ copies' = copies \cup {[by |-> Operator, revision |-> store.revision,
                               state |-> store.state, phase |-> "running"]}
    /\ UNCHANGED <<backend, store, handler, mode, live, durable, attempts, shadow, backup,
                   restarts, acknowledged, unsynced>>

-----------------------------------------------------------------------------
(* Restarts, backups and restores.                                          *)

(* A process dies between two steps and another is started, perhaps with    *)
(* another environment.                                                     *)
Restart(p, m) ==
    /\ restarts < MaxRestarts
    /\ restarts' = restarts + 1
    /\ Leave(p)
    /\ mode' = [mode EXCEPT ![p] = m]
    /\ copies' = {c \in copies : c.by # p}
    /\ live' = [live EXCEPT ![p] = Quiet]
    /\ unsynced' = unsynced \cup {c.revision : c \in {d \in copies : d.by = p}}
    /\ UNCHANGED <<backend, store, durable, attempts, shadow, backup, acknowledged>>

(* backupRuntimeState, under the state lock. *)
Backup ==
    /\ backend = "sqlite" /\ Unlocked /\ store.revision > 0 /\ ~backup.taken
    /\ backup' = [taken |-> TRUE, used |-> FALSE, store |-> store, durable |-> durable]
    /\ UNCHANGED <<backend, store, processVars, durable, attempts, shadow, restarts,
                   acknowledged, unsynced>>

(* restoreRuntimeState, with the dispatcher stopped as the runbook asks. *)
Restore ==
    /\ backend = "sqlite" /\ backup.taken /\ restarts < MaxRestarts
    /\ Unlocked
    /\ store' = backup.store
    /\ durable' = backup.durable
    /\ restarts' = restarts + 1
    /\ copies' = {}
    /\ live' = [p \in Processes |-> Quiet]
    /\ acknowledged' = acknowledged \cap backup.store.state.done
    /\ unsynced' = unsynced \cup {c.revision : c \in copies}
    /\ backup' = [backup EXCEPT !.used = TRUE]
    /\ UNCHANGED <<backend, handler, mode, attempts, shadow>>

-----------------------------------------------------------------------------
Init ==
    /\ backend \in Backends
    /\ store = [revision |-> 0, state |-> EmptyState, audit |-> {}]
    /\ handler = [p \in Processes |-> NoHandler]
    /\ mode \in [Processes -> IF backend = "sqlite" THEN Modes ELSE {"disabled"}]
    /\ copies = {}
    /\ live = [p \in Processes |-> Quiet]
    /\ durable = Quiet
    /\ attempts = 0
    /\ shadow = [revision |-> 0, rows |-> Rows(EmptyState), queueRevision |-> 0, queue |-> {}]
    /\ backup = NoBackup
    /\ restarts = 0
    /\ acknowledged = {}
    /\ unsynced = {}

Next ==
    \/ \E p \in Processes, u \in Updates : Load(p, u)
    \/ \E p \in Processes : SaveSqlite(p)
    \/ \E p \in Processes : SavePrimary(p)
    \/ \E c \in copies : CopySucceeds(c)
    \/ \E c \in copies : CopyFails(c)
    \/ \E c \in copies : EndCopy(c)
    \/ Reconcile
    \/ \E p \in Processes, m \in IF backend = "sqlite" THEN Modes ELSE {"disabled"} : Restart(p, m)
    \/ Backup
    \/ Restore

Spec == Init /\ [][Next]_vars

-----------------------------------------------------------------------------
(* An update whose caller was answered is in the latest state, whatever     *)
(* handler, recorder or other host saves around it (withStateAsync,         *)
(* recordShadowFailureEvent, savePrimaryRuntimeStateSnapshot).              *)
CommittedStays == acknowledged \subseteq store.state.done

(* The shadow never mixes states: at the revision of the store it has the   *)
(* rows of that snapshot, and a queue of the same revision is of the same   *)
(* state.  A restore takes revisions again, so the first part stops there.  *)
(* (applyShadowProjection, syncAssignmentQueueShadow)                       *)
ShadowIsAnImage ==
    /\ shadow.revision = store.revision =>
          shadow.rows = Rows(store.state) \/ backup.used
    /\ shadow.queueRevision = shadow.revision => shadow.queue = QueueRows(shadow.rows)

(* However copies overtake each other, the shadow does not fall behind the  *)
(* last snapshot for good: it reaches it unless that snapshot's own copy    *)
(* failed, died or was never started.  (syncRuntimeStateShadow)             *)
ShadowKeepsUp ==
    \/ backend = "postgres"
    \/ \E c \in copies : c.revision = store.revision
    \/ store.revision \in unsynced
    \/ shadow.revision >= store.revision

(* What a caller was told is done has its event in the durable audit.       *)
(* (appendRuntimeAuditEvents; docs/KNOWN_PITFALLS.md:230)                   *)
DurableAudit ==
    \A u \in acknowledged : \E e \in store.audit : e.what = u
=============================================================================
