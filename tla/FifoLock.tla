------------------------------ MODULE FifoLock ------------------------------
(* What a fair readers-writers lock promises: a writer has the lock alone,   *)
(* and nobody gets it before a thread that asked for it earlier.             *)
CONSTANT Thread

VARIABLES mode,     \* what each thread does with the lock
          kind,     \* how it wants the lock: "read" or "write"
          ahead     \* the waiting threads that asked before it

vars == <<mode, kind, ahead>>

Waiting == {t \in Thread : mode[t] = "pending"}
Holders == {t \in Thread : mode[t] = "inside"}

Init ==
    /\ mode = [t \in Thread |-> "out"]
    /\ kind \in [Thread -> {"read", "write"}]
    /\ ahead = [t \in Thread |-> {}]

\* A thread may join the holders for k: all of them readers, itself included.
Compatible(k) == \A h \in Holders : k = "read" /\ kind[h] = "read"

Ask(t, k) ==
    /\ mode[t] = "out"
    /\ mode' = [mode EXCEPT ![t] = "pending"]
    /\ kind' = [kind EXCEPT ![t] = k]
    /\ ahead' = [ahead EXCEPT ![t] = Waiting]

Get(t) ==
    /\ mode[t] = "pending"
    /\ ahead[t] = {}
    /\ Compatible(kind[t])
    /\ mode' = [mode EXCEPT ![t] = "inside"]
    /\ ahead' = [u \in Thread |-> ahead[u] \ {t}]
    /\ UNCHANGED kind

AskAndGet(t, k) ==
    /\ mode[t] = "out"
    /\ Waiting = {}
    /\ Compatible(k)
    /\ mode' = [mode EXCEPT ![t] = "inside"]
    /\ kind' = [kind EXCEPT ![t] = k]
    /\ UNCHANGED ahead

Release(t) ==
    /\ mode[t] = "inside"
    /\ mode' = [mode EXCEPT ![t] = "out"]
    /\ UNCHANGED <<kind, ahead>>

Next ==
    \E t \in Thread :
        \/ Get(t)
        \/ Release(t)
        \/ \E k \in {"read", "write"} : Ask(t, k) \/ AskAndGet(t, k)

Spec == Init /\ [][Next]_vars
=============================================================================
