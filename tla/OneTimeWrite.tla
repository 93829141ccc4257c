----------------------------- MODULE OneTimeWrite -----------------------------
(***************************************************************************)
(* What the scope workflow promises, without ledgers, rounds, clocks or    *)
(* crashes: a write is committed only while it is released, at most once   *)
(* per request, and only a committed write leaves, once.                   *)
(***************************************************************************)
EXTENDS Sequences

CONSTANTS
    Write,          \* the writes anybody could propose
    RequestOf(_)    \* the request a write answers

VARIABLES
    released,   \* writes that people have released and nobody has withdrawn
    committed,  \* writes that have used up their request
    sent        \* writes, in the order they left for the provider

vars == <<released, committed, sent>>

Init == released = {} /\ committed = {} /\ sent = <<>>

(* Reviewers, owners, policy and time release and withdraw as they like. *)
Rule ==
    /\ released' \in SUBSET Write
    /\ UNCHANGED <<committed, sent>>

(* The release is judged at the very moment of the commitment. *)
Commit(w) ==
    /\ released' \in SUBSET Write
    /\ w \in released'
    /\ \A v \in committed : RequestOf(v) # RequestOf(w)
    /\ committed' = committed \cup {w}
    /\ UNCHANGED sent

(* Once committed, the write may leave whatever is withdrawn meanwhile. *)
Send(w) ==
    /\ w \in committed
    /\ \A i \in DOMAIN sent : sent[i] # w
    /\ sent' = Append(sent, w)
    /\ UNCHANGED <<released, committed>>

Next == Rule \/ \E w \in Write : Commit(w) \/ Send(w)

Spec == Init /\ [][Next]_vars
=============================================================================
