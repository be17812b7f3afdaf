---------------------------- MODULE SeasonLocks ----------------------------
(* The OS file locks with which processes share one cache (locking.rs): the  *)
(* coordination lock, held for one transaction; a lock per season, held      *)
(* until its owner drops the cache or dies; and the season's budget file,    *)
(* the bytes its owner may still write.  Operators for SharedCache, without  *)
(* a behaviour of their own.                                                 *)
EXTENDS Integers

CONSTANTS Process,  \* processes that open the cache
          Season,   \* seasons, by provider show ID and number
          NoOne,    \* no process
          Torn      \* a budget file without its eight bytes

ASSUME LocksAssumption == NoOne \notin Process /\ Torn \notin Nat

VARIABLES holder,  \* who holds .coordination-v2.lock
          lock,    \* who holds the OS lock of a season's file
          own,     \* Locks::seasons of every process
          budget   \* what the budget file of every season says

lockVars == <<holder, lock, own, budget>>

LocksTypeOK ==
    /\ holder \in Process \union {NoOne}
    /\ lock \in [Season -> Process \union {NoOne}]
    /\ own \in [Process -> SUBSET Season]
    /\ budget \in [Season -> Nat \union {Torn}]

(* Earlier runs left the lock file and the budget file of every season.      *)
LocksInit ==
    /\ holder = NoOne
    /\ lock = [s \in Season |-> NoOne]
    /\ own = [p \in Process |-> {}]
    /\ budget = [s \in Season |-> 0]

(* transaction, and the end of the last handle of its guard.                 *)
MutCoordinate(p) == holder' = p
Coordinate(p) == holder = NoOne /\ holder' = p
Release(p) == holder = p /\ holder' = NoOne

(* claim.                                                                    *)
Claimable(s) == lock[s] = NoOne
TakeSeason(p, s) ==
    /\ lock' = [lock EXCEPT ![s] = p]
    /\ own' = [own EXCEPT ![p] = @ \union {s}]
    /\ budget' = [budget EXCEPT ![s] = 0]

(* active: the file of a season this process does not own is locked and let  *)
(* go again; one that cannot be locked has a living owner.                   *)
Probing(p, s) == lock[s] = p /\ s \notin own[p]
Probe(p, s) == Claimable(s) /\ lock' = [lock EXCEPT ![s] = p]
Unprobe(p, s) == Probing(p, s) /\ lock' = [lock EXCEPT ![s] = NoOne]

(* The OS releases what a dropped cache or a dead process had locked.        *)
ReleaseSeasons(p) ==
    /\ lock' = [s \in Season |-> IF lock[s] = p THEN NoOne ELSE lock[s]]
    /\ own' = [own EXCEPT ![p] = {}]

(* consume.                                                                  *)
MutLess(b, n) == b - n
Less(b, n) == IF b > n THEN b - n ELSE 0
Consume(s, n) == budget' = [budget EXCEPT ![s] = Less(@, n)]
=============================================================================
