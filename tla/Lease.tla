------------------------------- MODULE Lease -------------------------------
(***************************************************************************)
(* The lease a Seed grants, shared by the Seed's directory and by the      *)
(* client that must renew in time.                                         *)
(***************************************************************************)
EXTENDS Integers

CONSTANTS MinLease, DefaultLease, MaxLease   \* 30, 1800 and 7200 seconds in the code

ASSUME LeaseAssumption ==
    /\ MinLease \in Nat \ {0} /\ DefaultLease \in Nat /\ MaxLease \in Nat
    /\ MinLease <= DefaultLease /\ DefaultLease <= MaxLease

\* Mutant: no upper limit.
GrantedUncapped(requested) ==
    LET asked == IF requested = 0 THEN DefaultLease ELSE requested IN
    IF asked < MinLease THEN MinLease ELSE asked

\* max(30, min(int(requested or 1800), 7200))
Granted(requested) ==
    LET asked == IF requested = 0 THEN DefaultLease ELSE requested
        capped == IF asked < MaxLease THEN asked ELSE MaxLease
    IN IF capped > MinLease THEN capped ELSE MinLease
=============================================================================
