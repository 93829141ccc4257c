-------------------------------- MODULE Login --------------------------------
(***************************************************************************)
(* Browser login attempts (crates/opaqued/src/identity/login.rs): the map  *)
(* of attempts that login_start and login_status share with the callback   *)
(* tasks, how a newer attempt supersedes older ones, and what the audit    *)
(* trail and the CLI each get to see.                                      *)
(*                                                                         *)
(* A task is aborted only where it awaits.  Once the token is verified     *)
(* everything up to set_outcome runs without an await, while login_start   *)
(* and login_status run on other threads.  Whom a login admits is in       *)
(* module Identity; here a login succeeds or fails.                        *)
(***************************************************************************)
EXTENDS Naturals

CONSTANTS
    Attempt,        \* attempt ids
    Ttl             \* ATTEMPT_TTL, in ticks

VARIABLES
    attempts,       \* LoginAttempts.inner
    starting,       \* attempts whose login_start has not returned
    tasks,          \* the callback tasks
    audit,          \* identity events in the audit trail, by attempt
    told            \* terminal answers login_status gave, by attempt

vars == <<attempts, starting, tasks, audit, told>>

(* listener_task is set once login_start has stored the handle. *)
NoAttempt == [outcome |-> "None", age |-> 0, listener_task |-> FALSE]
NoTask == [phase |-> "None", aborted |-> FALSE, outcome |-> "None"]

Known(a) == attempts[a].outcome # "None"

(* Polled by its executor: this task can still be cancelled. *)
Awaiting(a) == tasks[a].phase \in {"Listening", "Exchanging"}

(* gc: attempts twice as old as their time to live, and their tasks. *)
Expired(a) == Known(a) /\ attempts[a].age >= 2 * Ttl
Collected == [a \in Attempt |-> IF Expired(a) THEN NoAttempt ELSE attempts[a]]

Abort(A) == [a \in Attempt |-> IF a \in A /\ attempts[a].listener_task
                               THEN [tasks[a] EXCEPT !.aborted = TRUE] ELSE tasks[a]]

Gc ==
    /\ \E a \in Attempt : Expired(a)
    /\ attempts' = Collected
    /\ tasks' = Abort({a \in Attempt : Expired(a)})
    /\ UNCHANGED <<starting, audit, told>>

(* login_start, under the map's lock: pending attempts are superseded and  *)
(* the tasks whose handles are known are aborted.                          *)
Supersede(a) ==
    LET pending == {b \in Attempt : attempts[b].outcome = "Pending"}
    IN  /\ tasks[a].phase = "None" /\ a \notin starting
        /\ attempts' = [b \in Attempt |->
              IF b = a THEN [NoAttempt EXCEPT !.outcome = "Pending"]
              ELSE IF b \in pending
                   THEN [attempts[b] EXCEPT !.outcome = "Failed", !.listener_task = FALSE]
                   ELSE attempts[b]]
        /\ tasks' = Abort(pending)
        /\ starting' = starting \cup {a}
        /\ UNCHANGED <<audit, told>>

(* tokio::spawn *)
Spawn(a) ==
    /\ a \in starting /\ tasks[a].phase = "None"
    /\ tasks' = [tasks EXCEPT ![a].phase = "Listening"]
    /\ UNCHANGED <<attempts, starting, audit, told>>

(* The handle is stored, whatever became of the attempt meanwhile. *)
StoreHandle(a) ==
    /\ a \in starting /\ tasks[a].phase # "None"
    /\ attempts' = IF Known(a) THEN [attempts EXCEPT ![a].listener_task = TRUE] ELSE attempts
    /\ starting' = starting \ {a}
    /\ UNCHANGED <<tasks, audit, told>>

(* login_status *)
Status(a) ==
    LET late == attempts[a].outcome = "Pending" /\ attempts[a].age >= Ttl
    IN  /\ a \notin starting /\ Known(a) /\ ~Expired(a)
        /\ late \/ attempts[a].outcome # "Pending"
        /\ told' = [told EXCEPT ![a] = @ \cup {IF late THEN "Failed"
                                               ELSE attempts[a].outcome}]
        /\ UNCHANGED <<attempts, starting, tasks, audit>>

-----------------------------------------------------------------------------
(* The callback arrives with a code; the exchange with the provider begins. *)
(* Nobody can call back before login_start has returned the URL.            *)
Callback(a) ==
    /\ a \notin starting
    /\ tasks[a].phase = "Listening" /\ ~tasks[a].aborted
    /\ tasks' = [tasks EXCEPT ![a].phase = "Exchanging"]
    /\ UNCHANGED <<attempts, starting, audit, told>>

(* run_callback_listener and complete_login reach their outcome after the  *)
(* last await: a listener error, an error from the provider, or the login. *)
Settle(a, outcome) ==
    /\ Awaiting(a) /\ ~tasks[a].aborted
    /\ outcome = "Done" => tasks[a].phase = "Exchanging"
    /\ tasks' = [tasks EXCEPT ![a].phase = "Settled", ![a].outcome = outcome]
    /\ UNCHANGED <<attempts, starting, audit, told>>

(* tokio::time::timeout *)
TimedOut(a) ==
    /\ Awaiting(a) /\ ~tasks[a].aborted
    /\ Known(a) => attempts[a].age >= Ttl
    /\ tasks' = [tasks EXCEPT ![a].phase = "Settled", ![a].outcome = "Failed"]
    /\ UNCHANGED <<attempts, starting, audit, told>>

(* The abort takes effect where the task awaits. *)
Cancelled(a) ==
    /\ Awaiting(a) /\ tasks[a].aborted
    /\ tasks' = [tasks EXCEPT ![a].phase = "Over"]
    /\ UNCHANGED <<attempts, starting, audit, told>>

(* finish_attempt: the event first, *)
FinishAudit(a) ==
    /\ tasks[a].phase = "Settled"
    /\ audit' = [audit EXCEPT ![a] = @ \cup {tasks[a].outcome}]
    /\ tasks' = [tasks EXCEPT ![a].phase = "Audited"]
    /\ UNCHANGED <<attempts, starting, told>>

(* then set_outcome, which never regresses a terminal outcome. *)
FinishOutcome(a) ==
    /\ tasks[a].phase = "Audited"
    /\ attempts' = IF attempts[a].outcome = "Pending"
                   THEN [attempts EXCEPT ![a].outcome = tasks[a].outcome] ELSE attempts
    /\ tasks' = [tasks EXCEPT ![a].phase = "Over"]
    /\ UNCHANGED <<starting, audit, told>>

Tick ==
    /\ attempts' = [a \in Attempt |-> IF Known(a) /\ attempts[a].age < 2 * Ttl
                                      THEN [attempts[a] EXCEPT !.age = @ + 1]
                                      ELSE attempts[a]]
    /\ attempts' # attempts
    /\ UNCHANGED <<starting, tasks, audit, told>>

-----------------------------------------------------------------------------
Init ==
    /\ attempts = [a \in Attempt |-> NoAttempt]
    /\ starting = {}
    /\ tasks = [a \in Attempt |-> NoTask]
    /\ audit = [a \in Attempt |-> {}]
    /\ told = [a \in Attempt |-> {}]

Next ==
    \/ Gc
    \/ Tick
    \/ \E a \in Attempt :
          \/ Supersede(a) \/ Spawn(a) \/ StoreHandle(a) \/ Status(a)
          \/ Callback(a) \/ TimedOut(a) \/ Cancelled(a)
          \/ FinishAudit(a) \/ FinishOutcome(a)
          \/ \E outcome \in {"Done", "Failed"} : Settle(a, outcome)

Spec == Init /\ [][Next]_vars

-----------------------------------------------------------------------------
(* "All terminal login paths go through here so the audit trail can never  *)
(* disagree with what the CLI is told" (finish_attempt): no attempt is     *)
(* reported one way by login_status and the other way in the audit trail.  *)
LoginAuditAgrees ==
    \A a \in Attempt : \A answer \in told[a], event \in audit[a] : answer = event
=============================================================================
