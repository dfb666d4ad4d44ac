------------------------------- MODULE Mutex -------------------------------
(***************************************************************************)
(* What a per-node lock promises to its users, and nothing about how: at   *)
(* any time a path has at most one holder, a holder is a request that      *)
(* asked for exactly that path, and a request holds at most once.          *)
(*                                                                         *)
(* NodeLock.tla (cube_engine/node-lock.ts without its watchdog) is shown   *)
(* to implement this module.                                               *)
(***************************************************************************)

CONSTANTS Req,    \* the acquire() calls
          Path,   \* the node paths that can be locked
          NoReq   \* "nobody holds it"

VARIABLES holder, \* holder[p]: the request inside the critical section of p
          used    \* the requests that have already had their turn

vars == <<holder, used>>

Init ==
    /\ holder = [p \in Path |-> NoReq]
    /\ used = {}

\* r enters the critical section of p: nobody is inside.
Enter(r, p) ==
    /\ holder[p] = NoReq
    /\ r \notin used
    /\ holder' = [holder EXCEPT ![p] = r]
    /\ used' = used \cup {r}

\* The holder of p leaves, and the next request may enter in the same step.
Leave(p) ==
    /\ holder[p] # NoReq
    /\ \/ /\ holder' = [holder EXCEPT ![p] = NoReq]
          /\ UNCHANGED used
       \/ \E r \in Req \ used :
             /\ holder' = [holder EXCEPT ![p] = r]
             /\ used' = used \cup {r}

Next == \E p \in Path : Leave(p) \/ \E r \in Req : Enter(r, p)

Spec == Init /\ [][Next]_vars
=============================================================================
