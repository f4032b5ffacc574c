-------------------------------- MODULE Lease --------------------------------
(***************************************************************************)
(* What a session mutation lock promises its users (the comment-free       *)
(* contract of acquireSessionLock in session-mutation-lease.ts): at most   *)
(* one holder, and a fencing token that goes up with every lease.          *)
(***************************************************************************)
EXTENDS Naturals

CONSTANT Procs

VARIABLES
  holders,  \* the processes that have the lock
  token     \* the fencing token issued last

lease == <<holders, token>>

Free == holders = {} /\ token = 0

(* The lock is taken ...                                                   *)
Take(p) == holders = {} /\ holders' = {p} /\ UNCHANGED token

(* ... its holder is issued the next token ...                             *)
Grant(p) == p \in holders /\ token' = token + 1 /\ UNCHANGED holders

(* ... and it is given up, or its holder dies.                             *)
End(p) == p \in holders /\ holders' = holders \ {p} /\ UNCHANGED token

Step == \E p \in Procs : Take(p) \/ Grant(p) \/ End(p)

LeaseSpec == Free /\ [][Step]_lease
==============================================================================
