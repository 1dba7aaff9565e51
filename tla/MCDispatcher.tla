---------------------------- MODULE MCDispatcher ----------------------------
(***************************************************************************)
(* Small instances of Dispatcher for TLC.                                  *)
(***************************************************************************)
EXTENDS Dispatcher, TLC

CONSTANTS w1, w2, repo, feature, fix, pool

OnePool == [w \in Workers |-> pool]

Plain(r, name) == [repo |-> r, branch |-> <<name, 1>>, pool |-> pool, target |-> None,
                   deps |-> {}, continueFrom |-> NoTask, followUp |-> NoTask, redrive |-> FALSE]

(* Tasks of one repository, all on the same branch. *)
OneRepo == {<<Plain(repo, feature)>>}

To(w, input) == [input EXCEPT !.target = w]

After(T, input) == [input EXCEPT !.deps = T]

FollowUp(t, input) == [input EXCEPT !.followUp = t]

(* A task and one that waits for it. *)
Chain == {<<Plain(repo, feature), After({1}, Plain(repo, fix))>>}

(* Either of them. *)
ChainOrOne == Chain \cup OneRepo

(* A task for each of two workers, or a follow-up of the first. *)
Targeted == {<<To(w1, Plain(repo, feature)), To(w2, Plain(repo, fix))>>,
             <<FollowUp(1, Plain(repo, fix))>>}

(* Two tasks, dispatched one by one, that may be of one worker. *)
OneByOne == {<<To(w1, Plain(repo, feature))>>, <<To(w2, Plain(repo, fix))>>,
             <<FollowUp(1, Plain(repo, fix))>>}

Symmetry == Permutations(Workers)
=============================================================================
