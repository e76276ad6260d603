------------------------------- MODULE Delivery ------------------------------
(***************************************************************************)
(* What the server promises about a call that sends a transaction: it is   *)
(* dismissed, or it is published once, to carriers that are then fixed,    *)
(* and counted once, for the partner that made it.  Balancer implements    *)
(* the part up to the hand-over to the signature watcher, Transactions all *)
(* of it.                                                                  *)
(***************************************************************************)
EXTENDS Naturals, FiniteSets

CONSTANTS
  Request,   \* the calls
  Partner,   \* who makes them
  Lists      \* the lists of carriers a publication may end with

VARIABLES
  fate,      \* how far the call has come
  owner,     \* the partner of a call that was not dismissed
  carriers,  \* the clients that took the transaction
  tally      \* for each partner, the transactions counted

vars == <<fate, owner, carriers, tally>>

Init ==
  /\ fate = [r \in Request |-> "new"]
  /\ owner \in [Request -> Partner]
  /\ carriers \in [Request -> Lists]
  /\ tally = [p \in Partner |-> 0]

Moves(r, from, to) == fate[r] = from /\ fate' = [fate EXCEPT ![r] = to]

\* A call that will not be published: not allowed, malformed or blackholed.
Dismiss(r) ==
  Moves(r, "new", "dismissed") /\ UNCHANGED <<owner, carriers, tally>>

\* A call that is to be published.
Take(r) ==
  /\ Moves(r, "new", "publishing")
  /\ owner'[r] \in Partner /\ owner' = [owner EXCEPT ![r] = owner'[r]]
  /\ UNCHANGED <<carriers, tally>>

\* The publication fails, or the caller gives up on it.
Abandon(r) ==
  /\ Moves(r, "publishing", "failed") \/ Moves(r, "publishing", "hungup")
  /\ UNCHANGED <<owner, carriers, tally>>

\* The publication is over, and its outcome is to be watched.
HandOver(r) ==
  /\ Moves(r, "publishing", "watched")
  /\ carriers'[r] \in Lists /\ carriers' = [carriers EXCEPT ![r] = carriers'[r]]
  /\ UNCHANGED <<owner, tally>>

\* Some of the watched transactions are counted, each of them once.
Count(S) ==
  /\ S # {} /\ \A r \in S : fate[r] = "watched"
  /\ fate' = [r \in Request |-> IF r \in S THEN "counted" ELSE fate[r]]
  /\ tally' = [p \in Partner |->
                 tally[p] + Cardinality({r \in S : owner[r] = p})]
  /\ UNCHANGED <<owner, carriers>>

Next == \/ \E r \in Request : Dismiss(r) \/ Take(r) \/ Abandon(r) \/ HandOver(r)
        \/ \E S \in SUBSET Request : Count(S)

Spec == Init /\ [][Next]_vars
==============================================================================
