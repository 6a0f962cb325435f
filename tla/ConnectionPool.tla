--------------------------- MODULE ConnectionPool ---------------------------
(***************************************************************************)
(* What DatabasePool promises the services: a fixed set of connections,    *)
(* each lent to one thread at a time.  A connection a thread drops without *)
(* giving it back is closed and gone.                                      *)
(***************************************************************************)
CONSTANTS Threads, Connections, NoWrapper

VARIABLES free, held

vars == <<free, held>>

Init == free = Connections /\ held = [t \in Threads |-> NoWrapper]

\* A connection is lent only while it is free.
Lend(t) ==
    /\ held[t] = NoWrapper
    /\ \E c \in free :
         /\ free' = free \ {c}
         /\ held' = [held EXCEPT ![t] = c]

GiveBack(t) ==
    /\ held[t] # NoWrapper
    /\ free' = free \cup {held[t]}
    /\ held' = [held EXCEPT ![t] = NoWrapper]

Drop(t) ==
    /\ held[t] # NoWrapper
    /\ held' = [held EXCEPT ![t] = NoWrapper]
    /\ UNCHANGED free

Next == \E t \in Threads : Lend(t) \/ GiveBack(t) \/ Drop(t)

Spec == Init /\ [][Next]_vars

=============================================================================
