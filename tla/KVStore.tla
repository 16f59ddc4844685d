--------------------------------- MODULE KVStore ---------------------------------
(***************************************************************************)
(* What the LSM engine promises its callers: a durable map.  Calls come    *)
(* one at a time (every mutating method takes &mut self).  A call that     *)
(* returned Ok is in the map for good.  A call that failed, or that was    *)
(* running when the process stopped, is in doubt: it is not visible to     *)
(* readers now, and after a restart it may be, as long as no later write   *)
(* of the same key took effect.                                            *)
(***************************************************************************)
CONSTANTS Key, Val, Delete, None

VARIABLES
    store,   \* what a read of each key returns
    req,     \* the write in progress, or None
    done,    \* whether it has taken effect
    doubt    \* per key, what failed writes may still turn it into

vars == <<store, req, done, doubt>>

Request == [key : Key, val : Val \cup {Delete}]
Shown(v) == IF v = Delete THEN None ELSE v
NoDoubt == [k \in Key |-> {}]

Init ==
    /\ store = [k \in Key |-> None]
    /\ req = None
    /\ done = FALSE
    /\ doubt = NoDoubt

Call ==
    /\ req = None
    /\ req' \in Request
    /\ done' = FALSE
    /\ UNCHANGED <<store, doubt>>

\* The write becomes visible, and settles what earlier failed ones left open.
Effect ==
    /\ req # None
    /\ ~done
    /\ done' = TRUE
    /\ UNCHANGED req
    /\ doubt' = [doubt EXCEPT ![req.key] = {}]
    /\ store' = [store EXCEPT ![req.key] = Shown(req.val)]

ReturnOk ==
    /\ req # None
    /\ done
    /\ req' = None
    /\ done' = FALSE
    /\ UNCHANGED <<store, doubt>>

\* An error leaves a write that was not visible yet in doubt.
ReturnErr ==
    /\ req # None
    /\ req' = None
    /\ done' = FALSE
    /\ doubt' = IF done THEN doubt
                ELSE [doubt EXCEPT ![req.key] = @ \cup {Shown(req.val)}]
    /\ UNCHANGED store

\* The process stops: each write in doubt is decided one way or the other.
Restart ==
    /\ req' = None
    /\ done' = FALSE
    /\ doubt' = NoDoubt
    /\ store' \in [Key -> Val \cup {None}]
    /\ \A k \in Key :
        \/ store'[k] = store[k]
        \/ store'[k] \in doubt[k]
        \/ req # None /\ ~done /\ req.key = k /\ store'[k] = Shown(req.val)

Next == Call \/ Effect \/ ReturnOk \/ ReturnErr \/ Restart

Spec == Init /\ [][Next]_vars
=================================================================================
