------------------------------- MODULE Identity -------------------------------
(***************************************************************************)
(* The identity runtime of a managed deployment: the directory that the    *)
(* lifecycle source provisions (crates/opaqued/src/identity/lifecycle.rs), *)
(* browser logins (login.rs), reviewed role changes (mod.rs), delegations  *)
(* and the agent sessions minted over them (store.rs, agent_session.rs),   *)
(* and the fence with_scope_authority at which a request finally leaves.   *)
(*                                                                         *)
(* Every store call that writes is one step under the store's lock;        *)
(* everything read before an await or in another call is kept and used     *)
(* later.  The consecutive reads of one check are one step: the fence      *)
(* repeats all of them.  A digest stands for its batch.  Sessions and      *)
(* delegations also end by time: that only refuses more, and is left out.  *)
(***************************************************************************)
EXTENDS Integers, Sequences, FiniteSets

CONSTANTS
    Human,          \* subjects of the identity provider
    NoOne,          \* an approval that names nobody
    Group,          \* directory groups
    Config,         \* [mapping, admission] the operator may configure
    Update,         \* the sets of subject updates the source may send
    Login,          \* login attempts; also the human sessions they mint
    Jti,            \* agent sessions; also their delegations
    Request,        \* requests of agents under way
    Approver,       \* whom an approval of a delegation may name, or NoOne
    Asked,          \* role sets that reviews ask for
    MaxSource,      \* bound on source revisions
    MaxConfigs,     \* bound on changes of the configuration
    MaxEpoch        \* bound on the epochs reviewed role changes reach

Role == {"Admin", "Operator"}
Never == -1

ASSUME LoginAssumption == Login \subseteq Nat
ASSUME PersonAssumption == NoOne \notin Human
ASSUME BoundAssumption == {MaxSource, MaxConfigs, MaxEpoch} \subseteq Nat
ASSUME ReviewAssumption == Approver \subseteq Human \cup {NoOne} /\ Asked \subseteq SUBSET Role
ASSUME ConfigAssumption ==
    \A c \in Config : /\ c.mapping \in [Group -> SUBSET Role]
                      /\ c.admission \in (SUBSET Human) \ {{}}
(* What apply_lifecycle demands of a batch before it opens a transaction. *)
ASSUME UpdateAssumption ==
    \A updates \in Update :
       /\ \A u \in updates : /\ u.subject \in Human /\ u.groups \subseteq Group
                             /\ {u.active, u.deleted} \subseteq BOOLEAN
                             /\ u.deleted => ~u.active /\ u.groups = {}
       /\ \A u, v \in updates : u.subject = v.subject => u = v

VARIABLES
    up,             \* the daemon runs
    config,         \* lifecycle_config.mapping and .admission
    lifecycle,      \* .revision, .source_revision, .source_digest, .suspended
    subjects,       \* lifecycle_subjects
    principals,     \* principals, with their authority epochs
    logins,         \* login attempts and human_sessions
    starts,         \* agent_session_start calls under way
    delegations,    \* the delegations table
    agents,         \* DaemonState.agent_sessions
    ending,         \* agent_session_end calls under way
    failed,         \* failed_delegation_revocations
    review,         \* the role change under review
    requests,       \* requests between resolve_principal_context and dispatch
    applied,        \* history: batches in the order they took effect
    acks,           \* history: receipts given to the source
    ended           \* history: agent sessions and logins reported ended

durable == <<config, lifecycle, subjects, principals, delegations>>
history == <<applied, acks, ended>>
vars == <<up, durable, logins, starts, agents, ending, failed, review, requests, history>>

-----------------------------------------------------------------------------
NoSubject == [listed |-> FALSE, active |-> FALSE, deleted |-> FALSE, groups |-> {}]

(* refreshed is history: the lifecycle revision that last set the row. *)
NoPrincipal == [roles |-> {}, disabled |-> TRUE, epoch |-> 0, refreshed |-> 0]

(* began and epoch are history: the lifecycle revision at login_start, and *)
(* the authority epoch at which the session was minted.                    *)
NoLogin == [phase |-> "None", user |-> NoOne, began |-> Never, rowid |-> 0,
            revoked |-> FALSE, epoch |-> Never]

NoStart == [phase |-> "None", sub |-> NoOne, approver |-> NoOne, login |-> Never]

(* witness is history: the approver's epoch when the row was recorded. *)
NoDelegation == [sub |-> NoOne, login |-> Never, approved_by |-> NoOne,
                 revoked |-> FALSE, witness |-> Never]

NoReview == [actor |-> NoOne, target |-> NoOne, expected |-> {}, roles |-> {}]
NoBatch == [revision |-> 0, updates |-> {}, suspend |-> FALSE]
Idle == [phase |-> "Idle", jti |-> Never, roles |-> {}]

Batch == [revision : 1 .. MaxSource, updates : Update, suspend : {FALSE}]
    \cup [revision : 1 .. MaxSource, updates : {{}}, suspend : {TRUE}]

(* principal_permitted *)
Permitted(h) == ~principals[h].disabled /\ h \in config.admission

Minted == {l \in Login : logins[l].phase = "Minted"}
Live(l) == logins[l].phase = "Minted" /\ ~logins[l].revoked

(* current_human_session: the latest live one. *)
Current(l) == Live(l) /\ \A k \in Login : Live(k) => logins[k].rowid <= logins[l].rowid

(* current_human_principal *)
Acting(h) == \E l \in Login : Current(l) /\ logins[l].user = h /\ Permitted(h)

-----------------------------------------------------------------------------
(* Mutant: delegations outlive the people who approved them. *)
WithdrawSubjectOnly(H) ==
    /\ logins' = [l \in Login |-> IF logins[l].user \in H
                                  THEN [logins[l] EXCEPT !.revoked = TRUE] ELSE logins[l]]
    /\ delegations' = [j \in Jti |-> IF delegations[j].sub \in H
                                     THEN [delegations[j] EXCEPT !.revoked = TRUE]
                                     ELSE delegations[j]]

(* invalidate, and the trigger identity_authority_change: every session    *)
(* and every delegation that involves the person is revoked for good.      *)
Withdraw(H) ==
    /\ logins' = [l \in Login |-> IF logins[l].user \in H
                                  THEN [logins[l] EXCEPT !.revoked = TRUE] ELSE logins[l]]
    /\ delegations' = [j \in Jti |->
                         IF {delegations[j].sub, delegations[j].approved_by} \cap H # {}
                         THEN [delegations[j] EXCEPT !.revoked = TRUE]
                         ELSE delegations[j]]

(* refresh_subject for the people in H; suspension disables everybody. *)
Refreshed(H, rows, c, suspended, rev) ==
    [h \in Human |->
        LET enabled == /\ rows[h].active /\ ~rows[h].deleted
                       /\ ~suspended /\ h \in c.admission
        IN  IF h \notin H THEN principals[h]
            ELSE [roles |-> IF enabled THEN UNION {c.mapping[g] : g \in rows[h].groups}
                            ELSE {},
                  disabled |-> ~enabled,
                  epoch |-> principals[h].epoch + 1,
                  refreshed |-> rev]]

(* Mutant: a lost acknowledgement is repeated for whatever comes next. *)
AdmissibleAgain(b) ==
    /\ ~lifecycle.suspended
    /\ b.revision \in {lifecycle.source_revision, lifecycle.source_revision + 1}
    /\ b.revision > 0
    /\ \A u \in b.updates :
          /\ subjects[u.subject].deleted => u.deleted
          /\ \/ u.subject \in config.admission
             \/ ~u.active /\ subjects[u.subject].listed

(* The batch is admissible as a whole, or none of it is applied. *)
Admissible(b) ==
    /\ ~lifecycle.suspended
    /\ b.revision = lifecycle.source_revision + 1
    /\ \A u \in b.updates :
          /\ subjects[u.subject].deleted => u.deleted
          /\ \/ u.subject \in config.admission
             \/ ~u.active /\ subjects[u.subject].listed

Row(u) == [listed |-> TRUE, active |-> u.active, deleted |-> u.deleted, groups |-> u.groups]

(* apply_lifecycle, one transaction. *)
ApplyBatch(b) ==
    LET changed == {u \in b.updates : subjects[u.subject] # Row(u)}
        people  == {u.subject : u \in changed}
        rows    == [h \in Human |->
                      IF h \in people
                      THEN Row(CHOOSE u \in changed : u.subject = h) ELSE subjects[h]]
        known   == {h \in Human : rows[h].listed}
        hit     == IF b.suspend THEN known ELSE people
        rev     == lifecycle.revision + 1
    IN  /\ up
        /\ Admissible(b)
        /\ subjects' = rows
        /\ principals' = Refreshed(hit, rows, config, b.suspend, rev)
        /\ Withdraw(hit)
        /\ lifecycle' = [revision |-> rev, source_revision |-> b.revision,
                         source_digest |-> b, suspended |-> b.suspend]
        /\ applied' = Append(applied, b)
        /\ acks' = acks \cup {b}
        /\ UNCHANGED <<up, config, starts, agents, ending, failed, review, requests, ended>>

(* The source repeats its latest batch and gets the same receipt. *)
RepeatBatch(b) ==
    /\ up
    /\ b = lifecycle.source_digest /\ b # NoBatch
    /\ acks' = acks \cup {b}
    /\ UNCHANGED <<up, durable, logins, starts, agents, ending, failed, review, requests,
                   applied, ended>>

-----------------------------------------------------------------------------
(* Logins. *)

(* login_start: the revision is read now, the person arrives later. *)
LoginStart(l) ==
    /\ up
    /\ logins[l].phase = "None" /\ \A k \in Login : k < l => logins[k].phase # "None"
    /\ logins' = [logins EXCEPT ![l].phase = "Begun", ![l].began = lifecycle.revision]
    /\ UNCHANGED <<up, durable, starts, agents, ending, failed, review, requests, history>>

(* complete_login up to upsert_human and principal_permitted. *)
LoginAdmit(l, h) ==
    /\ up
    /\ logins[l].phase = "Begun"
    /\ subjects[h].active /\ ~subjects[h].deleted /\ ~lifecycle.suspended
    /\ Permitted(h)
    /\ logins' = [logins EXCEPT ![l].phase = "Admitted", ![l].user = h]
    /\ UNCHANGED <<up, durable, starts, agents, ending, failed, review, requests, history>>

(* create_human_session_at_revision: a new row, if the directory has not   *)
(* moved since login_start; otherwise the attempt fails.                   *)
LoginMint(l) ==
    LET h == logins[l].user
    IN  /\ up
        /\ logins[l].phase = "Admitted"
        /\ IF logins[l].began = lifecycle.revision /\ ~principals[h].disabled
           THEN logins' = [logins EXCEPT ![l].phase = "Minted", ![l].revoked = FALSE,
                                         ![l].rowid = Cardinality(Minted) + 1,
                                         ![l].epoch = principals[h].epoch]
           ELSE logins' = [logins EXCEPT ![l] = [NoLogin EXCEPT !.phase = "Gone"]]
        /\ UNCHANGED <<up, durable, starts, agents, ending, failed, review, requests,
                       history>>

(* identity.logout *)
Logout ==
    LET live == {l \in Login : Live(l)}
    IN  /\ up
        /\ live # {}
        /\ logins' = [l \in Login |-> IF l \in live
                                      THEN [logins[l] EXCEPT !.revoked = TRUE] ELSE logins[l]]
        /\ ended' = ended \cup {<<"login", l>> : l \in live}
        /\ UNCHANGED <<up, durable, starts, agents, ending, failed, review, requests,
                       applied, acks>>

-----------------------------------------------------------------------------
(* Reviewed role changes: handle_role_set. *)

EligibleAdmins == {h \in Human : Permitted(h) /\ "Admin" \in principals[h].roles}

KeepsAdmin(target, roles) ==
    target \in EligibleAdmins /\ "Admin" \notin roles => Cardinality(EligibleAdmins) > 1

RoleAsk(actor, target, roles) ==
    /\ up
    /\ review = NoReview
    /\ Acting(actor) /\ "Admin" \in principals[actor].roles
    /\ subjects[target].listed
    /\ KeepsAdmin(target, roles)
    /\ review' = [actor |-> actor, target |-> target,
                  expected |-> principals[target].roles, roles |-> roles]
    /\ UNCHANGED <<up, durable, logins, starts, agents, ending, failed, requests, history>>

(* Approved: everything is checked again, then set_reviewed_roles; the     *)
(* trigger fires when the roles really change.                             *)
RoleApply ==
    LET target == review.target
        changes == principals[target].roles # review.roles
    IN  /\ up
        /\ review # NoReview
        /\ Acting(review.actor) /\ review.actor \in EligibleAdmins
        /\ principals[target].roles = review.expected
        /\ KeepsAdmin(target, review.roles)
        /\ principals[target].epoch < MaxEpoch
        /\ principals' = IF changes
                         THEN [principals EXCEPT ![target].roles = review.roles,
                                                 ![target].epoch = @ + 1]
                         ELSE principals
        /\ Withdraw(IF changes THEN {target} ELSE {})
        /\ review' = NoReview
        /\ UNCHANGED <<up, config, lifecycle, subjects, starts, agents, ending, failed,
                       requests, history>>

(* Denied, or refused because something changed meanwhile. *)
RoleDrop ==
    /\ up
    /\ review # NoReview
    /\ review' = NoReview
    /\ UNCHANGED <<up, durable, logins, starts, agents, ending, failed, requests, history>>

-----------------------------------------------------------------------------
(* Agent sessions. *)

(* handle_start up to the approval: the subject is the current login's. *)
StartAsk(j, h) ==
    /\ up
    /\ starts[j].phase = "None"
    /\ Acting(h)
    /\ starts' = [starts EXCEPT ![j].phase = "Asked", ![j].sub = h]
    /\ UNCHANGED <<up, durable, logins, agents, ending, failed, review, requests, history>>

(* The approval arrives; membership is read again, then the login. *)
StartCheck(j, approver, l) ==
    /\ up
    /\ starts[j].phase = "Asked"
    /\ Permitted(starts[j].sub)
    /\ Current(l) /\ logins[l].user = starts[j].sub
    /\ starts' = [starts EXCEPT ![j].phase = "Checked", ![j].approver = approver,
                                ![j].login = l]
    /\ UNCHANGED <<up, durable, logins, agents, ending, failed, review, requests, history>>

(* record_delegation, in a call of its own. *)
StartRecord(j) ==
    LET by == starts[j].approver
    IN  /\ up
        /\ starts[j].phase = "Checked"
        /\ delegations' = [delegations EXCEPT ![j] =
                             [sub |-> starts[j].sub, login |-> starts[j].login,
                              approved_by |-> by, revoked |-> FALSE,
                              witness |-> IF by = NoOne THEN Never
                                          ELSE principals[by].epoch]]
        /\ starts' = [starts EXCEPT ![j].phase = "Recorded"]
        /\ UNCHANGED <<up, config, lifecycle, subjects, principals, logins, agents, ending,
                       failed, review, requests, history>>

(* The session becomes usable once the write lock is obtained. *)
StartInsert(j) ==
    /\ up
    /\ starts[j].phase = "Recorded"
    /\ starts' = [starts EXCEPT ![j] = [NoStart EXCEPT !.phase = "Done"]]
    /\ agents' = agents \cup {j}
    /\ UNCHANGED <<up, durable, logins, ending, failed, review, requests, history>>

(* The approval is denied, or a check fails. *)
StartFail(j) ==
    /\ up
    /\ starts[j].phase \in {"Asked", "Checked"}
    /\ starts' = [starts EXCEPT ![j] = [NoStart EXCEPT !.phase = "Done"]]
    /\ UNCHANGED <<up, durable, logins, agents, ending, failed, review, requests, history>>

(* handle_end: the local session goes first. *)
EndRemove(j) ==
    /\ up
    /\ j \in agents
    /\ agents' = agents \ {j}
    /\ ending' = ending \cup {j}
    /\ UNCHANGED <<up, durable, logins, starts, failed, review, requests, history>>

(* Mutant: a failed revocation is reported and nothing else. *)
EndRevokeForgotten(j) ==
    /\ up
    /\ j \in ending
    /\ ending' = ending \ {j}
    /\ \/ delegations' = [delegations EXCEPT ![j].revoked = TRUE]
       \/ UNCHANGED delegations
    /\ ended' = ended \cup {<<"agent", j>>}
    /\ UNCHANGED <<up, config, lifecycle, subjects, principals, logins, starts, agents,
                   failed, review, requests, applied, acks>>

(* revoke_delegation: the row, or, when the write fails, the local fence;  *)
(* either way the caller is then answered.                                 *)
EndRevoke(j) ==
    /\ up
    /\ j \in ending
    /\ ending' = ending \ {j}
    /\ \/ /\ delegations' = [delegations EXCEPT ![j].revoked = TRUE]
          /\ failed' = IF delegations[j].revoked THEN failed ELSE failed \ {j}
       \/ failed' = failed \cup {j} /\ UNCHANGED delegations
    /\ ended' = ended \cup {<<"agent", j>>}
    /\ UNCHANGED <<up, config, lifecycle, subjects, principals, logins, starts, agents,
                   review, requests, applied, acks>>

-----------------------------------------------------------------------------
(* Requests of agents. *)

(* resolve_principal_context: the context a request carries from here on. *)
Resolve(q, j) ==
    LET d == delegations[j]
    IN  /\ up
        /\ requests[q].phase = "Idle"
        /\ j \in agents
        /\ ~d.revoked /\ Permitted(d.sub)
        /\ Live(d.login) /\ logins[d.login].user = d.sub
        /\ requests' = [requests EXCEPT ![q] = [phase |-> "Resolved", jti |-> j,
                                                roles |-> principals[d.sub].roles]]
        /\ UNCHANGED <<up, durable, logins, starts, agents, ending, failed, review, history>>

(* with_scope_authority: all of it again, under one lock with the dispatch.*)
Dispatch(q) ==
    LET j == requests[q].jti
        d == delegations[j]
    IN  /\ up
        /\ requests[q].phase = "Resolved"
        /\ j \notin failed
        /\ Permitted(d.sub) /\ principals[d.sub].roles = requests[q].roles
        /\ ~d.revoked
        /\ Live(d.login) /\ logins[d.login].user = d.sub
        /\ requests' = [requests EXCEPT ![q].phase = "Dispatched"]
        /\ UNCHANGED <<up, durable, logins, starts, agents, ending, failed, review, history>>

(* The request is refused, fails elsewhere or is answered. *)
RequestEnds(q) ==
    /\ up
    /\ requests[q].phase \in {"Resolved", "Dispatched"}
    /\ requests' = [requests EXCEPT ![q] = Idle]
    /\ UNCHANGED <<up, durable, logins, starts, agents, ending, failed, review, history>>

-----------------------------------------------------------------------------
(* The daemon stops; sessions, attempts, reviews and local fences are gone. *)
Stop ==
    /\ up
    /\ up' = FALSE
    /\ logins' = [l \in Login |-> IF logins[l].phase \in {"Begun", "Admitted"}
                                  THEN [NoLogin EXCEPT !.phase = "Gone"] ELSE logins[l]]
    /\ starts' = [j \in Jti |-> IF starts[j].phase = "None" THEN starts[j]
                                ELSE [NoStart EXCEPT !.phase = "Done"]]
    /\ agents' = {} /\ ending' = {} /\ failed' = {}
    /\ review' = NoReview
    /\ requests' = [q \in Request |-> Idle]
    /\ UNCHANGED <<durable, history>>

(* Mutant: a changed configuration applies to later batches only. *)
StartUpLazy(c) ==
    /\ ~up
    /\ ~lifecycle.suspended
    /\ up' = TRUE
    /\ config' = c
    /\ lifecycle' = IF c = config THEN lifecycle
                    ELSE [lifecycle EXCEPT !.revision = @ + 1]
    /\ UNCHANGED <<subjects, principals, delegations, logins, starts, agents, ending,
                   failed, review, requests, history>>

(* configure_lifecycle: a suspended source needs offline recovery; changed *)
(* mappings or admissions are applied to everybody before anything starts. *)
StartUp(c) ==
    LET known == {h \in Human : subjects[h].listed}
        rev == lifecycle.revision + 1
    IN  /\ ~up
        /\ ~lifecycle.suspended
        /\ up' = TRUE
        /\ config' = c
        /\ IF c = config THEN UNCHANGED <<lifecycle, principals, logins, delegations>>
           ELSE /\ lifecycle.revision - lifecycle.source_revision <= MaxConfigs
                /\ lifecycle' = [lifecycle EXCEPT !.revision = rev]
                /\ principals' = Refreshed(known, subjects, c, FALSE, rev)
                /\ Withdraw(known)
        /\ UNCHANGED <<subjects, starts, agents, ending, failed, review, requests, history>>

-----------------------------------------------------------------------------
(* The first start of the deployment, before the source has sent anything. *)
Init ==
    /\ up = TRUE
    /\ config \in Config
    /\ lifecycle = [revision |-> 1, source_revision |-> 0, source_digest |-> NoBatch,
                    suspended |-> FALSE]
    /\ subjects = [h \in Human |-> NoSubject]
    /\ principals = [h \in Human |-> NoPrincipal]
    /\ logins = [l \in Login |-> NoLogin]
    /\ starts = [j \in Jti |-> NoStart]
    /\ delegations = [j \in Jti |-> NoDelegation]
    /\ agents = {} /\ ending = {} /\ failed = {}
    /\ review = NoReview
    /\ requests = [q \in Request |-> Idle]
    /\ applied = <<>> /\ acks = {} /\ ended = {}

Next ==
    \/ \E b \in Batch : ApplyBatch(b) \/ RepeatBatch(b)
    \/ \E l \in Login : \/ LoginStart(l) \/ LoginMint(l)
                        \/ \E h \in Human : LoginAdmit(l, h)
    \/ Logout
    \/ \E actor, target \in Human, roles \in Asked : RoleAsk(actor, target, roles)
    \/ RoleApply
    \/ RoleDrop
    \/ \E j \in Jti :
          \/ \E h \in Human : StartAsk(j, h)
          \/ \E by \in Approver, l \in Login : StartCheck(j, by, l)
          \/ StartRecord(j) \/ StartInsert(j) \/ StartFail(j)
          \/ EndRemove(j) \/ EndRevoke(j)
    \/ \E q \in Request : \/ Dispatch(q) \/ RequestEnds(q)
                          \/ \E j \in Jti : Resolve(q, j)
    \/ Stop
    \/ \E c \in Config : StartUp(c)

Spec == Init /\ [][Next]_vars

-----------------------------------------------------------------------------
(* Properties. *)

Leaves(q) == requests[q].phase # "Dispatched" /\ requests'[q].phase = "Dispatched"

(* No revival: a request leaves only if nothing about its subject, not     *)
(* even a removal or a role that was since given back, has changed since   *)
(* the login it derives from was begun and minted, and its approver's      *)
(* authority is the one under which the delegation was recorded            *)
(* (create_human_session_at_revision, invalidate, with_scope_authority).   *)
NoRevival ==
    [][\A q \in Request : Leaves(q) =>
          LET d == delegations[requests[q].jti]
              l == logins[d.login]
          IN  /\ principals[d.sub].refreshed <= l.began
              /\ principals[d.sub].epoch = l.epoch
              /\ d.approved_by # NoOne => principals[d.approved_by].epoch = d.witness]_vars

(* Once agent_session_end or logout has answered, nothing leaves under     *)
(* that session or login, also for requests that were already under way    *)
(* and also when the durable revocation failed (revoke_delegation).        *)
EndIsFinal ==
    [][\A q \in Request : Leaves(q) =>
          LET j == requests[q].jti
          IN  /\ <<"agent", j>> \notin ended
              /\ <<"login", delegations[j].login>> \notin ended]_vars

(* What the source was told is what happened (apply_lifecycle): however    *)
(* often and in whatever order batches are sent, repeated and restarted    *)
(* over, every receipt names the one batch applied under that revision.    *)
ReceiptsAgree ==
    \A b \in acks : b.revision \in DOMAIN applied /\ applied[b.revision] = b

(* Nobody is enabled whom the directory does not currently provision: a    *)
(* row that is inactive, deleted, outside the configured admission or      *)
(* under a suspended source has no enabled principal, and a tombstone has  *)
(* been one ever since the batch that deleted the subject.                 *)
ManagedAdmission ==
    \A h \in Human :
       /\ ~principals[h].disabled =>
             /\ subjects[h].active /\ ~subjects[h].deleted
             /\ ~lifecycle.suspended
             /\ h \in config.admission
       /\ (\E i \in DOMAIN applied : \E u \in applied[i].updates :
             u.subject = h /\ u.deleted) => subjects[h].deleted
=============================================================================
