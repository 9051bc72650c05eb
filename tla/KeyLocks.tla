------------------------------ MODULE KeyLocks ------------------------------
(***************************************************************************)
(* What internal/api/keyedmutex.go promises its only caller,               *)
(* Service.Process: goroutines ask for a key, at most one of them holds a  *)
(* given key, different keys never wait for each other, and a holder gives *)
(* the key back.  There are no lock objects, no reference counts and no    *)
(* map here: those are the business of KeyedMutex, which implements this   *)
(* specification.                                                          *)
(***************************************************************************)
CONSTANTS Procs, Keys

VARIABLES asked,   \* pairs <<goroutine, key>>: Lock called, not yet returned
          held     \* pairs <<goroutine, key>>: Lock returned, Unlock not done

vars == <<asked, held>>

Init ==
    /\ asked = {}
    /\ held = {}

\* A goroutine outside the lock calls Lock(k).
Ask(p, k) ==
    /\ \A j \in Keys : <<p, j>> \notin asked \cup held
    /\ asked' = asked \cup {<<p, k>>}
    /\ UNCHANGED held

\* The call returns: nobody else is inside the section of k.
Grant(p, k) ==
    /\ <<p, k>> \in asked
    /\ \A q \in Procs : <<q, k>> \notin held
    /\ asked' = asked \ {<<p, k>>}
    /\ held' = held \cup {<<p, k>>}

\* Unlock(k) by the goroutine that holds k.
Free(p, k) ==
    /\ <<p, k>> \in held
    /\ held' = held \ {<<p, k>>}
    /\ UNCHANGED asked

Next == \E p \in Procs, k \in Keys : Ask(p, k) \/ Grant(p, k) \/ Free(p, k)

Spec == Init /\ [][Next]_vars

=============================================================================
