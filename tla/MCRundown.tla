----------------------------- MODULE MCRundown -----------------------------
(***************************************************************************)
(* One rundown lock for TLC and for the proofs.  Its variables are named   *)
(* apart from those of EndpointLife, whose proofs stand beside the lock's: *)
(* a place of a user is at[u], the incarnations begun are counted in begun *)
(* and the one u acquired is of[u].                                        *)
(***************************************************************************)
EXTENDS Integers, FiniteSets

CONSTANTS Users, Bias, MaxInit      \* see Rundown

\* The count of the users never reaches the flag.
ASSUME LockSizes ==
    /\ IsFiniteSet(Users)
    /\ Bias \in Nat /\ Cardinality(Users) < Bias
    /\ MaxInit \in Nat

VARIABLES value, at, guess, begun, callbacks, of

Lock == INSTANCE Rundown WITH pc <- at, inits <- begun, era <- of

LockSpec == Lock!FairSpec

\* The interlocked word is a rundown lock as RundownSpec describes it; and a
\* rundown that has begun completes.
LockIsKept == Lock!AbsSpec
LockCompletes == Lock!RundownCompletes
=============================================================================
