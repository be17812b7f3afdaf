---------------------------- MODULE SeasonLease ----------------------------
(* What the processes of a shared cache promise each other: one at a time    *)
(* has its hand in the cache; a season has at most one owner; only its owner *)
(* adds to it, and from a season that has one nobody else takes anything     *)
(* away.                                                                     *)
CONSTANTS Process, Season, NoOne, File, SeasonOf, Scope, HomeOf

VARIABLES hand,   \* the process that has its hand in the cache
          owner,  \* the owner of every season
          stock,  \* the published files
          shelf   \* the scopes with a manifest

leaseVars == <<hand, owner, stock, shelf>>

LeaseInit ==
    /\ hand = NoOne
    /\ owner = [s \in Season |-> NoOne]
    /\ stock = {} /\ shelf = {}

Reach(p) ==
    /\ hand = NoOne /\ hand' = p
    /\ UNCHANGED <<owner, stock, shelf>>

Withdraws(p) == hand = p /\ hand' = NoOne
Withdraw(p) == Withdraws(p) /\ UNCHANGED <<owner, stock, shelf>>

Take(p, s) ==
    /\ Withdraws(p)
    /\ owner[s] = NoOne
    /\ owner' = [owner EXCEPT ![s] = p]
    /\ UNCHANGED <<stock, shelf>>

Leave(p) ==
    /\ owner' = [s \in Season |-> IF owner[s] = p THEN NoOne ELSE owner[s]]
    /\ Withdraws(p) \/ UNCHANGED hand
    /\ UNCHANGED <<stock, shelf>>

Store(p, f) ==
    /\ Withdraws(p)
    /\ owner[SeasonOf[f]] = p
    /\ stock' = stock \union {f}
    /\ UNCHANGED <<owner, shelf>>

List(p, c) ==
    /\ Withdraws(p)
    /\ owner[HomeOf[c]] = p
    /\ shelf' = shelf \union {c}
    /\ UNCHANGED <<owner, stock>>

Clear(p) ==
    /\ hand = p
    /\ stock' \subseteq stock /\ shelf' \subseteq shelf
    /\ \A f \in stock \ stock' : owner[SeasonOf[f]] \in {p, NoOne}
    /\ \A c \in shelf \ shelf' : owner[HomeOf[c]] \in {p, NoOne}
    /\ UNCHANGED <<hand, owner>>

LeaseNext == \E p \in Process :
    \/ Reach(p) \/ Withdraw(p)
    \/ \E s \in Season : Take(p, s)
    \/ Leave(p)
    \/ \E f \in File : Store(p, f)
    \/ \E c \in Scope : List(p, c)
    \/ Clear(p)

LeaseSpec == LeaseInit /\ [][LeaseNext]_leaseVars
=============================================================================
