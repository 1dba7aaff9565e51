------------------------------- MODULE Leases -------------------------------
(***************************************************************************)
(* The lease table of the dispatcher: leases.ts.                           *)
(*                                                                         *)
(* A table is a function from resources to lease records.  The code keeps  *)
(* a list keyed by `${type}:${id}` whose released entries stay in the list *)
(* until the resource is acquired again; nothing reads a released entry,   *)
(* so it is NoLease here.  An expired entry that no one has reclaimed yet  *)
(* is still in the table, with ttl = 0.                                    *)
(*                                                                         *)
(* Time is relative: ttl is the number of ticks left before expiresAt.     *)
(* The owner token of the code is `${type}:${workerId}`: the resource and  *)
(* the owner determine it, so the owner alone stands for both.             *)
(***************************************************************************)
EXTENDS Naturals

CONSTANTS
    Workers,    \* worker ids: the only lease owners
    None,       \* the null of the code: no worker, no task
    LeaseTTL    \* DEFAULT_LEASE_TTL_MS, in ticks

ASSUME LeasesAssumption ==
    /\ LeaseTTL \in Nat \ {0}
    /\ None \notin Workers

Lease == [owner : Workers \cup {None}, ttl : 0..LeaseTTL]

NoLease == [owner |-> None, ttl |-> 0]

GrantedTo(w) == [owner |-> w, ttl |-> LeaseTTL]

(* listActiveLeases, getActiveLease: neither released nor expired. *)
IsActive(lease) == lease.owner # None /\ lease.ttl > 0

HeldBy(leases, r, w) == IsActive(leases[r]) /\ leases[r].owner = w

(* acquireLease succeeds on a free resource, and renews its owner's own lease. *)
CanAcquire(leases, r, w) == IsActive(leases[r]) => leases[r].owner = w

Acquire(leases, R, w) ==
    [r \in DOMAIN leases |-> IF r \in R THEN GrantedTo(w) ELSE leases[r]]

(* releaseLease with the owner's id and token: another owner's lease stays. *)
Release(leases, R, w) ==
    [r \in DOMAIN leases |->
        IF r \in R /\ leases[r].owner = w THEN NoLease ELSE leases[r]]

ReclaimExpiredLeases(leases) ==
    [r \in DOMAIN leases |-> IF IsActive(leases[r]) THEN leases[r] ELSE NoLease]

(* One tick of the clock. *)
CountDown(n) == IF n = 0 THEN 0 ELSE n - 1

AgeLeases(leases) ==
    [r \in DOMAIN leases |-> [leases[r] EXCEPT !.ttl = CountDown(@)]]
=============================================================================
