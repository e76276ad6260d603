------------------------------ MODULE MCBalancer -----------------------------
(***************************************************************************)
(* Instances of Balancer for TLC.  Validators A and B run clients; A may   *)
(* reconnect.  X is a leader without a client; one client shows no         *)
(* readable certificate.                                                   *)
(***************************************************************************)
EXTENDS Balancer

CONSTANTS A, B, X, sa1, sa2, sb, sn

\* Two sessions of A, one of B and one without an identity.
IdentityOfSession ==
  [s \in Session |-> CASE s \in {sa1, sa2} -> A [] s = sb -> B [] s = sn -> NoIdentity]

\* The two sessions of A may be exchanged, where no liveness is checked.
TwinSessions == Permutations({sa1, sa2})

\* Before the first update nobody is known; then B has no stake.
SomeStakes == {(A :> 3) @@ (B :> 0)}
\* A's stake falls from one epoch to the next.
FallingStakes == {(A :> 3), (A :> 0)}
==============================================================================
