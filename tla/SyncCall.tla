------------------------------ MODULE SyncCall ------------------------------
(***************************************************************************)
(* What an application thread is promised when it calls the socket API:    *)
(* every function of xy_api.cc posts one operation to the DPDK thread and  *)
(* returns once that thread has carried it out.  A call is served at most  *)
(* once, with the operation that was posted, and returns the error number  *)
(* of that service and of no other.                                        *)
(*                                                                         *)
(* EventQueue, the list of xy_mpmc.h with the handshake of xy_syn_api.cc,  *)
(* is shown to implement this specification.                               *)
(***************************************************************************)

CONSTANTS
    Callers,   \* application threads
    Ops,       \* operations a caller can post
    Nil        \* no operation, no result

VARIABLES
    status,    \* progress of the call each thread has in hand
    request,   \* the operation it posted
    result     \* what the DPDK thread answered: the operation it carried out

vars == <<status, request, result>>

Status == {"idle", "pending", "served"}

Init ==
    /\ status = [c \in Callers |-> "idle"]
    /\ request = [c \in Callers |-> Nil]
    /\ result = [c \in Callers |-> Nil]

\* A thread that has no call in hand posts operation o.
Call(c, o) ==
    /\ status[c] = "idle"
    /\ status' = [status EXCEPT ![c] = "pending"]
    /\ request' = [request EXCEPT ![c] = o]
    /\ result' = [result EXCEPT ![c] = Nil]

\* The DPDK thread carries out a posted operation, once.
Serve(c) ==
    /\ status[c] = "pending"
    /\ status' = [status EXCEPT ![c] = "served"]
    /\ result' = [result EXCEPT ![c] = request[c]]
    /\ UNCHANGED request

\* A call returns only after its operation has been carried out.
Return(c) ==
    /\ status[c] = "served"
    /\ status' = [status EXCEPT ![c] = "idle"]
    /\ UNCHANGED <<request, result>>

Next ==
    \E c \in Callers :
        \/ \E o \in Ops : Call(c, o)
        \/ Serve(c)
        \/ Return(c)

Spec == Init /\ [][Next]_vars

\* A thread that has posted an operation is served and returns.
FairSpec == Spec /\ \A c \in Callers : WF_vars(Serve(c)) /\ WF_vars(Return(c))

=============================================================================
