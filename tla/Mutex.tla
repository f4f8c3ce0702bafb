------------------------------- MODULE Mutex -------------------------------
(***************************************************************************)
(* What a reentrant lock promises its callers, without how it is counted   *)
(* or waited for.  A caller is granted the lock and gives each grant back  *)
(* once; as long as one grant of a client is out, no other client is       *)
(* granted any.  ApplyLock is shown to implement this specification.       *)
(***************************************************************************)
CONSTANTS Client,   \* who may be granted the lock
          Grant     \* the names of one client's grants

VARIABLE out        \* the grants that were not given back

Init == out = {}

Take(c, g) ==
    /\ \A x \in out : x[1] = c
    /\ <<c, g>> \notin out
    /\ out' = out \cup {<<c, g>>}

Give(x) == x \in out /\ out' = out \ {x}

\* A client that dies gives back all it has.
Die(c) == out' = {x \in out : x[1] # c}

Next ==
    \/ \E c \in Client, g \in Grant : Take(c, g)
    \/ \E x \in out : Give(x)
    \/ \E c \in Client : Die(c)

Spec == Init /\ [][Next]_out

=============================================================================
