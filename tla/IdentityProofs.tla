---------------------------- MODULE IdentityProofs ----------------------------
(***************************************************************************)
(* Proofs about the identity runtime, for every directory, every set of    *)
(* batches and configurations and any number of logins, agent sessions,    *)
(* requests and roles under review.                                        *)
(*                                                                         *)
(* The argument: a login is usable only while its person's epoch is the    *)
(* one it was minted at, and a delegation only while its approver's epoch  *)
(* is the one it was recorded at, because whatever moves an epoch revokes  *)
(* both (Withdraw); and a session reported ended is fenced by its row, by  *)
(* the local list, or by there being nothing left that could use it.       *)
(***************************************************************************)
EXTENDS Identity, FiniteSetTheorems, SequenceTheorems, TLAPS

-----------------------------------------------------------------------------
(* The inductive invariant. *)

SubjectRow == [listed : BOOLEAN, active : BOOLEAN, deleted : BOOLEAN, groups : SUBSET Group]
PrincipalRow == [roles : SUBSET Role, disabled : BOOLEAN, epoch : Nat, refreshed : Nat]
Lifecycle == [revision : Nat, source_revision : Nat, source_digest : Batch \cup {NoBatch},
              suspended : BOOLEAN]
LoginRow == [phase : {"None", "Begun", "Admitted", "Minted", "Gone"}, user : Human \cup {NoOne},
             began : Nat \cup {Never}, rowid : Nat, revoked : BOOLEAN, epoch : Nat \cup {Never}]
StartRow == [phase : {"None", "Asked", "Checked", "Recorded", "Done"}, sub : Human \cup {NoOne},
             approver : Human \cup {NoOne}, login : Login \cup {Never}]
DelegationRow == [sub : Human \cup {NoOne}, login : Login \cup {Never},
                  approved_by : Human \cup {NoOne}, revoked : BOOLEAN, witness : Nat \cup {Never}]
ReviewRow == [actor : Human, target : Human, expected : SUBSET Role, roles : Asked]
RequestRow == [phase : {"Idle", "Resolved", "Dispatched"}, jti : Jti \cup {Never}, roles : SUBSET Role]

DirectoryShape ==
    /\ config \in Config /\ lifecycle \in Lifecycle
    /\ subjects \in [Human -> SubjectRow] /\ principals \in [Human -> PrincipalRow]
    /\ applied \in Seq(Batch)

SessionShape ==
    /\ starts \in [Jti -> StartRow] /\ requests \in [Request -> RequestRow]
    /\ review \in ReviewRow \cup {NoReview}

(* Whoever is listed last was refreshed by a revision that has been; who is *)
(* active is listed.                                                        *)
Listed ==
    \A h \in Human : /\ subjects[h].active => subjects[h].listed
                     /\ principals[h].refreshed <= lifecycle.revision

(* The source's revision counts the batches, and its digest was receipted. *)
Counted ==
    /\ Len(applied) = lifecycle.source_revision
    /\ lifecycle.source_digest \in acks \cup {NoBatch}

Directory == DirectoryShape /\ Listed /\ Counted /\ ReceiptsAgree /\ ManagedAdmission

(* A usable login is as old as its person's authority. *)
Logins ==
    /\ logins \in [Login -> LoginRow] /\ IsFiniteSet(Minted)
    /\ \A l \in Login :
          /\ logins[l].phase \in {"Admitted", "Minted"} => logins[l].user \in Human
          /\ Live(l) => /\ principals[logins[l].user].refreshed <= logins[l].began
                        /\ principals[logins[l].user].epoch = logins[l].epoch

(* A usable delegation is as old as its approver's authority. *)
Delegations ==
    /\ delegations \in [Jti -> DelegationRow]
    /\ \A j \in Jti : ~delegations[j].revoked /\ delegations[j].approved_by # NoOne =>
          principals[delegations[j].approved_by].epoch = delegations[j].witness

(* Sessions come from recorded delegations, in one direction. *)
Known(j) == delegations[j].login \in Login /\ delegations[j].sub \in Human

Sessions ==
    /\ agents \subseteq Jti /\ ending \subseteq Jti /\ agents \cap ending = {}
    /\ \A j \in Jti :
          /\ starts[j].phase = "Asked" => starts[j].sub \in Human
          /\ starts[j].phase = "Checked" => starts[j].sub \in Human /\ starts[j].login \in Login
          /\ starts[j].phase = "Recorded" => Known(j)
          /\ j \in agents \cup ending => starts[j].phase = "Done" /\ Known(j)
    /\ \A q \in Request : requests[q].phase = "Resolved" =>
          requests[q].jti \in Jti /\ Known(requests[q].jti) /\ starts[requests[q].jti].phase = "Done"

(* What was reported ended cannot be used. *)
Fenced(j) ==
    \/ delegations[j].revoked
    \/ j \in failed
    \/ \A q \in Request : requests[q].phase = "Resolved" => requests[q].jti # j

Ends ==
    /\ \A l \in Login : <<"login", l>> \in ended => logins[l].phase = "Minted" /\ logins[l].revoked
    /\ \A j \in Jti : <<"agent", j>> \in ended =>
          starts[j].phase = "Done" /\ j \notin agents \cup ending /\ Fenced(j)

IInv == Directory /\ Logins /\ Delegations /\ SessionShape /\ Sessions /\ Ends

-----------------------------------------------------------------------------
(* What every change of the directory does. *)

(* A refreshed person is enabled only as the directory and the              *)
(* configuration say; the others are left alone.                            *)
RefreshedBy(new, H, rows, c, suspended, rev) ==
    /\ new \in [Human -> PrincipalRow]
    /\ \A h \in Human \ H : new[h] = principals[h]
    /\ \A h \in Human \cap H :
          /\ new[h].refreshed = rev
          /\ ~new[h].disabled => /\ rows[h].active /\ ~rows[h].deleted
                                 /\ ~suspended /\ h \in c.admission

(* refresh_subject enables nobody the directory does not provision. *)
LEMMA RefreshedFacts ==
    ASSUME principals \in [Human -> PrincipalRow], NEW H, NEW rows \in [Human -> SubjectRow],
           NEW c \in Config, NEW suspended, NEW rev \in Nat,
           NEW new, new = Refreshed(H, rows, c, suspended, rev)
    PROVE  RefreshedBy(new, H, rows, c, suspended, rev)
<1> DEFINE Enabled(h) == /\ rows[h].active /\ ~rows[h].deleted /\ ~suspended /\ h \in c.admission
           Roles(h) == IF Enabled(h) THEN UNION {c.mapping[g] : g \in rows[h].groups} ELSE {}
           Fresh(h) == [roles |-> Roles(h), disabled |-> ~Enabled(h),
                        epoch |-> principals[h].epoch + 1, refreshed |-> rev]
<1>1. new = [h \in Human |-> IF h \notin H THEN principals[h] ELSE Fresh(h)]
  BY DEF Refreshed
<1>2. ASSUME NEW h \in Human
      PROVE  /\ Fresh(h) \in PrincipalRow /\ Fresh(h).refreshed = rev
             /\ ~Fresh(h).disabled => Enabled(h)
  <2>1. Roles(h) \in SUBSET Role
    <3>1. rows[h].groups \in SUBSET Group
      BY DEF SubjectRow
    <3>2. c.mapping \in [Group -> SUBSET Role]
      BY ConfigAssumption
    <3>3. UNION {c.mapping[g] : g \in rows[h].groups} \in SUBSET Role
      BY <3>1, <3>2
    <3> QED
      BY <3>3
  <2>2. principals[h].epoch + 1 \in Nat
    BY DEF PrincipalRow
  <2>3. (~Enabled(h)) \in BOOLEAN
    OBVIOUS
  <2> HIDE DEF Roles, Enabled
  <2> QED
    BY <2>1, <2>2, <2>3 DEF PrincipalRow
<1> HIDE DEF Fresh
<1>3. \A h \in Human : new[h] = IF h \notin H THEN principals[h] ELSE Fresh(h)
  BY <1>1
<1>4. new \in [Human -> PrincipalRow]
  BY <1>1, <1>2
<1> QED
  BY <1>2, <1>3, <1>4 DEF RefreshedBy

(* What revocation keeps of logins and delegations. *)
Kept ==
    /\ \A l \in Login : /\ logins'[l].phase = logins[l].phase
                        /\ logins[l].revoked => logins'[l].revoked
    /\ \A j \in Jti : /\ delegations'[j].sub = delegations[j].sub
                      /\ delegations'[j].login = delegations[j].login
                      /\ delegations[j].revoked => delegations'[j].revoked

(* Whoever's authority moves is withdrawn: what is left usable is as old as *)
(* the authority it stands on.                                              *)
LEMMA WithdrawFacts ==
    ASSUME Logins, Delegations, NEW H, Withdraw(H),
           \A h \in Human \ H : /\ principals'[h].epoch = principals[h].epoch
                                /\ principals'[h].refreshed = principals[h].refreshed
    PROVE  Logins' /\ Delegations' /\ Kept
<1>0. logins \in [Login -> LoginRow] /\ delegations \in [Jti -> DelegationRow]
  BY DEF Logins, Delegations
<1>1. ASSUME NEW l \in Login
      PROVE  /\ logins'[l] \in LoginRow /\ logins'[l].phase = logins[l].phase
             /\ logins'[l].user = logins[l].user /\ logins'[l].began = logins[l].began
             /\ logins'[l].epoch = logins[l].epoch
             /\ logins[l].revoked => logins'[l].revoked
             /\ logins[l].user \in H => logins'[l].revoked
  <2>1. logins'[l] = IF logins[l].user \in H THEN [logins[l] EXCEPT !.revoked = TRUE] ELSE logins[l]
    BY DEF Withdraw
  <2>2. logins[l] \in LoginRow
    BY <1>0
  <2> QED
    BY <2>1, <2>2 DEF LoginRow
<1>2. ASSUME NEW j \in Jti
      PROVE  /\ delegations'[j] \in DelegationRow
             /\ delegations'[j].sub = delegations[j].sub
             /\ delegations'[j].login = delegations[j].login
             /\ delegations'[j].approved_by = delegations[j].approved_by
             /\ delegations'[j].witness = delegations[j].witness
             /\ delegations[j].revoked => delegations'[j].revoked
             /\ delegations[j].approved_by \in H => delegations'[j].revoked
  <2>1. delegations'[j] = IF {delegations[j].sub, delegations[j].approved_by} \cap H # {}
                          THEN [delegations[j] EXCEPT !.revoked = TRUE] ELSE delegations[j]
    BY DEF Withdraw
  <2>2. delegations[j] \in DelegationRow
    BY <1>0
  <2> QED
    BY <2>1, <2>2 DEF DelegationRow
<1>3. logins' \in [Login -> LoginRow]
  <2>1. logins' = [l \in Login |-> logins'[l]]
    BY DEF Withdraw
  <2> QED
    BY <1>1, <2>1
<1>4. delegations' \in [Jti -> DelegationRow]
  <2>1. delegations' = [j \in Jti |-> delegations'[j]]
    BY DEF Withdraw
  <2> QED
    BY <1>2, <2>1
<1>5. Minted' = Minted
  BY <1>1 DEF Minted
<1>6. ASSUME NEW l \in Login
      PROVE  /\ logins'[l].phase \in {"Admitted", "Minted"} => logins'[l].user \in Human
             /\ Live(l)' => /\ principals'[logins'[l].user].refreshed <= logins'[l].began
                            /\ principals'[logins'[l].user].epoch = logins'[l].epoch
  <2>1. logins'[l].phase \in {"Admitted", "Minted"} => logins'[l].user \in Human
    BY <1>1 DEF Logins
  <2>2. ASSUME Live(l)'
        PROVE  /\ principals'[logins'[l].user].refreshed <= logins'[l].began
               /\ principals'[logins'[l].user].epoch = logins'[l].epoch
    <3>1. Live(l) /\ logins[l].user \notin H
      BY <1>1, <2>2 DEF Live
    <3>2. logins[l].user \in Human
      BY <3>1 DEF Live, Logins
    <3>3. /\ principals'[logins[l].user].epoch = principals[logins[l].user].epoch
          /\ principals'[logins[l].user].refreshed = principals[logins[l].user].refreshed
      BY <3>1, <3>2
    <3>4. /\ principals[logins[l].user].refreshed <= logins[l].began
          /\ principals[logins[l].user].epoch = logins[l].epoch
      BY <3>1 DEF Logins
    <3> QED
      BY <1>1, <3>3, <3>4
  <2> QED
    BY <2>1, <2>2
<1>7. ASSUME NEW j \in Jti, ~delegations'[j].revoked, delegations'[j].approved_by # NoOne
      PROVE  principals'[delegations'[j].approved_by].epoch = delegations'[j].witness
  <2>1. /\ ~delegations[j].revoked /\ delegations[j].approved_by # NoOne
        /\ delegations[j].approved_by \notin H
    BY <1>2, <1>7
  <2>2. delegations[j].approved_by \in Human
    BY <1>0, <2>1 DEF DelegationRow
  <2>3. principals[delegations[j].approved_by].epoch = delegations[j].witness
    BY <2>1 DEF Delegations
  <2> QED
    BY <1>2, <2>1, <2>2, <2>3
<1>8. Logins'
  BY <1>3, <1>5, <1>6 DEF Logins
<1>9. Delegations'
  BY <1>4, <1>7 DEF Delegations
<1> QED
  BY <1>1, <1>2, <1>8, <1>9 DEF Kept

(* Sessions do not notice. *)
LEMMA SessionsStay ==
    ASSUME Sessions, Ends, Kept, UNCHANGED <<starts, agents, ending, failed, requests, ended>>
    PROVE  Sessions' /\ Ends'
<1>1. \A j \in Jti : Known(j) => Known(j)'
  BY DEF Kept, Known
<1>2. \A j \in Jti : Fenced(j) => Fenced(j)'
  BY DEF Kept, Fenced
<1>3. Sessions'
  BY <1>1 DEF Sessions
<1>4. Ends'
  BY <1>2 DEF Ends, Kept
<1> QED
  BY <1>3, <1>4

(* Untouched parts stay. *)
LEMMA DirectoryStays ==
    ASSUME Directory, UNCHANGED <<config, lifecycle, subjects, principals, applied, acks>>
    PROVE  Directory'
BY DEF Directory, DirectoryShape, Listed, Counted, ReceiptsAgree, ManagedAdmission

(* Logins are judged against their rows and the epochs alone. *)
LEMMA LoginsStay ==
    ASSUME Logins, UNCHANGED <<logins, principals>>
    PROVE  Logins'
BY DEF Logins, Minted, Live

(* Delegations are judged against their rows and the epochs alone. *)
LEMMA DelegationsStay ==
    ASSUME Delegations, UNCHANGED <<delegations, principals>>
    PROVE  Delegations'
BY DEF Delegations

-----------------------------------------------------------------------------
(* The source and the configuration. *)

(* What is in a batch. *)
LEMMA BatchFacts ==
    ASSUME NEW b \in Batch
    PROVE  /\ b.revision \in Int /\ b.suspend \in BOOLEAN
           /\ \A u \in b.updates : u.subject \in Human /\ Row(u) \in SubjectRow
           /\ \A u \in b.updates : Row(u).listed /\ Row(u).deleted = u.deleted /\ Row(u).active = u.active
           /\ \A u, v \in b.updates : u.subject = v.subject => u = v
<1>1. b.revision \in Int /\ b.suspend \in BOOLEAN /\ (b.updates \in Update \/ b.updates = {})
  <2>0. MaxSource \in Nat
    BY BoundAssumption
  <2>1. CASE b \in [revision : 1 .. MaxSource, updates : Update, suspend : {FALSE}]
    <3>1. b.revision \in 1 .. MaxSource /\ b.updates \in Update /\ b.suspend \in {FALSE}
      BY <2>1, Zenon
    <3>2. b.suspend \in BOOLEAN
      BY <3>1, Zenon
    <3> QED
      BY <2>0, <3>1, <3>2
  <2>2. CASE b \in [revision : 1 .. MaxSource, updates : {{}}, suspend : {TRUE}]
    <3>1. b.revision \in 1 .. MaxSource /\ b.updates \in {{}} /\ b.suspend \in {TRUE}
      BY <2>2, Zenon
    <3>2. b.suspend \in BOOLEAN
      BY <3>1, Zenon
    <3> QED
      BY <2>0, <3>1, <3>2
  <2> QED
    BY <2>1, <2>2 DEF Batch
<1>2. ASSUME NEW u \in b.updates
      PROVE  /\ u.subject \in Human /\ Row(u) \in SubjectRow
             /\ Row(u).listed /\ Row(u).deleted = u.deleted /\ Row(u).active = u.active
  <2>1. b.updates \in Update
    BY <1>1, <1>2
  <2>2. u.subject \in Human /\ u.groups \subseteq Group /\ u.active \in BOOLEAN /\ u.deleted \in BOOLEAN
    BY <1>2, <2>1, UpdateAssumption
  <2> QED
    BY <2>2 DEF Row, SubjectRow
<1>3. \A u, v \in b.updates : u.subject = v.subject => u = v
  BY <1>1, UpdateAssumption
<1> QED
  BY <1>1, <1>2, <1>3

(* The people it changes have the row it gives them, the others keep theirs. *)
Changes(b, people, rows) ==
    /\ people \subseteq Human /\ rows \in [Human -> SubjectRow]
    /\ \A h \in Human \ people : rows[h] = subjects[h]
    /\ \A u \in b.updates : rows[u.subject] = Row(u)
    /\ \A h \in people : \E u \in b.updates : u.subject = h

(* What apply_lifecycle commits for an accepted batch. *)
LEMMA ApplyForm ==
    ASSUME DirectoryShape, NEW b \in Batch, ApplyBatch(b)
    PROVE  \E people, rows, hit, rev :
              /\ Changes(b, people, rows)
              /\ hit = IF b.suspend THEN {h \in Human : rows[h].listed} ELSE people
              /\ rev = lifecycle.revision + 1
              /\ Admissible(b)
              /\ subjects' = rows
              /\ principals' = Refreshed(hit, rows, config, b.suspend, rev)
              /\ Withdraw(hit)
              /\ lifecycle' = [revision |-> rev, source_revision |-> b.revision,
                               source_digest |-> b, suspended |-> b.suspend]
              /\ applied' = Append(applied, b)
              /\ acks' = acks \cup {b}
              /\ UNCHANGED <<up, config, starts, agents, ending, failed, review, requests, ended>>
<1> DEFINE changed == {u \in b.updates : subjects[u.subject] # Row(u)}
           people == {u.subject : u \in changed}
           rows == [h \in Human |-> IF h \in people
                                    THEN Row(CHOOSE u \in changed : u.subject = h) ELSE subjects[h]]
<1>1. ASSUME NEW h \in people
      PROVE  /\ h \in Human
             /\ \E u \in changed : u.subject = h /\ rows[h] = Row(u) /\ u \in b.updates
  <2>1. PICK u \in changed : u.subject = h
    BY <1>1
  <2>2. h \in Human
    BY <2>1, BatchFacts
  <2>3. (CHOOSE v \in changed : v.subject = h) = u
    <3>1. /\ (CHOOSE v \in changed : v.subject = h) \in changed
          /\ (CHOOSE v \in changed : v.subject = h).subject = h
      BY <2>1
    <3> QED
      BY <2>1, <3>1, BatchFacts
  <2>4. rows[h] = Row(u)
    BY <1>1, <2>2, <2>3
  <2> QED
    BY <2>1, <2>2, <2>4
<1>2. \A h \in Human \ people : rows[h] = subjects[h]
  OBVIOUS
<1>3. ASSUME NEW h \in Human PROVE rows[h] \in SubjectRow
  <2>1. CASE h \in people
    <3>1. PICK u \in b.updates : rows[h] = Row(u)
      BY <1>1, <2>1
    <3> HIDE DEF rows, people
    <3> QED
      BY <3>1, BatchFacts
  <2>2. CASE h \notin people
    BY <2>2 DEF DirectoryShape
  <2> QED
    BY <2>1, <2>2
<1>4. rows \in [Human -> SubjectRow]
  <2>1. rows = [h \in Human |-> rows[h]]
    OBVIOUS
  <2> HIDE DEF rows
  <2> QED
    BY <1>3, <2>1
<1>5. ASSUME NEW u \in b.updates PROVE rows[u.subject] = Row(u)
  <2>0. u.subject \in Human
    BY BatchFacts
  <2>1. CASE u.subject \in people
    <3>1. PICK v \in b.updates : v.subject = u.subject /\ rows[u.subject] = Row(v)
      BY <1>1, <2>1
    <3> HIDE DEF rows, people
    <3> QED
      BY <3>1, BatchFacts
  <2>2. CASE u.subject \notin people
    <3>1. subjects[u.subject] = Row(u)
      BY <2>2
    <3> QED
      BY <1>2, <2>0, <2>2, <3>1
  <2> QED
    BY <2>1, <2>2
<1>6. Changes(b, people, rows)
  <2> HIDE DEF rows
  <2>1. people \subseteq Human /\ \A h \in people : \E u \in b.updates : u.subject = h
    BY <1>1
  <2> QED
    BY <1>2, <1>4, <1>5, <2>1 DEF Changes
<1>7. /\ Admissible(b)
      /\ subjects' = rows
      /\ principals' = Refreshed(IF b.suspend THEN {h \in Human : rows[h].listed} ELSE people,
                                 rows, config, b.suspend, lifecycle.revision + 1)
      /\ Withdraw(IF b.suspend THEN {h \in Human : rows[h].listed} ELSE people)
      /\ lifecycle' = [revision |-> lifecycle.revision + 1, source_revision |-> b.revision,
                       source_digest |-> b, suspended |-> b.suspend]
      /\ applied' = Append(applied, b)
      /\ acks' = acks \cup {b}
      /\ UNCHANGED <<up, config, starts, agents, ending, failed, review, requests, ended>>
  BY Zenon DEF ApplyBatch
<1> HIDE DEF rows, people
<1> QED
  BY <1>6, <1>7

(* A batch moves the directory as a whole: receipts, tombstones and         *)
(* admission agree with it, and whoever it changes is withdrawn.            *)
LEMMA ApplyStep ==
    ASSUME IInv, NEW b \in Batch, ApplyBatch(b)
    PROVE  IInv'
<1>0. DirectoryShape /\ Listed /\ Counted /\ ReceiptsAgree /\ ManagedAdmission
  BY DEF IInv, Directory
<1>1. PICK people, rows, hit, rev :
              /\ Changes(b, people, rows)
              /\ hit = IF b.suspend THEN {h \in Human : rows[h].listed} ELSE people
              /\ rev = lifecycle.revision + 1
              /\ Admissible(b)
              /\ subjects' = rows
              /\ principals' = Refreshed(hit, rows, config, b.suspend, rev)
              /\ Withdraw(hit)
              /\ lifecycle' = [revision |-> rev, source_revision |-> b.revision,
                               source_digest |-> b, suspended |-> b.suspend]
              /\ applied' = Append(applied, b)
              /\ acks' = acks \cup {b}
              /\ UNCHANGED <<up, config, starts, agents, ending, failed, review, requests, ended>>
  BY <1>0, ApplyForm
<1>2. /\ lifecycle \in Lifecycle /\ config \in Config /\ principals \in [Human -> PrincipalRow]
      /\ subjects \in [Human -> SubjectRow] /\ applied \in Seq(Batch)
  BY <1>0 DEF DirectoryShape
<1>3. lifecycle.revision \in Nat /\ lifecycle.source_revision \in Nat /\ rev \in Nat /\ lifecycle.revision <= rev
  BY <1>1, <1>2 DEF Lifecycle
<1>4. b.suspend \in BOOLEAN /\ b.revision = lifecycle.source_revision + 1 /\ ~lifecycle.suspended
  BY <1>1, BatchFacts DEF Admissible
<1>5. /\ lifecycle'.revision = rev /\ lifecycle'.source_revision = b.revision
      /\ lifecycle'.source_digest = b /\ lifecycle'.suspended = b.suspend
  BY <1>1
<1>6. rows \in [Human -> SubjectRow] /\ people \subseteq Human
  BY <1>1 DEF Changes
<1>7. /\ principals' \in [Human -> PrincipalRow]
      /\ \A h \in Human \ hit : principals'[h] = principals[h]
      /\ \A h \in Human \cap hit :
            /\ principals'[h].refreshed = rev
            /\ ~principals'[h].disabled => /\ rows[h].active /\ ~rows[h].deleted
                                           /\ ~b.suspend /\ h \in config.admission
  <2>1. PICK new : new = principals'
    OBVIOUS
  <2>0. PICK off : off = b.suspend
    OBVIOUS
  <2>2. new = Refreshed(hit, rows, config, off, rev)
    BY <1>1, <2>1, <2>0
  <2>3. RefreshedBy(new, hit, rows, config, off, rev)
    BY <1>2, <1>3, <1>6, <2>2, RefreshedFacts
  <2> QED
    BY <2>1, <2>0, <2>3 DEF RefreshedBy
<1>8. DirectoryShape'
  <2>1. lifecycle' \in Lifecycle
    <3>1. b.revision \in Nat
      BY <1>3, <1>4
    <3> QED
      BY <1>1, <1>3, <1>4, <3>1 DEF Lifecycle
  <2>2. applied' \in Seq(Batch)
    BY <1>1, <1>2
  <2> QED
    BY <1>1, <1>2, <1>6, <1>7, <2>1, <2>2 DEF DirectoryShape
<1>9. Listed'
  <2>1. ASSUME NEW h \in Human PROVE rows[h].active => rows[h].listed
    <3>1. CASE h \in people
      <4>1. PICK u \in b.updates : u.subject = h /\ rows[h] = Row(u)
        BY <1>1, <3>1 DEF Changes
      <4> QED
        BY <4>1, BatchFacts
    <3>2. CASE h \notin people
      BY <1>0, <1>1, <3>2 DEF Changes, Listed
    <3> QED
      BY <3>1, <3>2
  <2>2. ASSUME NEW h \in Human PROVE principals'[h].refreshed <= rev
    <3>1. principals[h].refreshed \in Nat /\ principals[h].refreshed <= lifecycle.revision
      BY <1>0, <1>2 DEF Listed, PrincipalRow
    <3> QED
      BY <1>3, <1>7, <3>1
  <2> QED
    BY <1>1, <1>5, <2>1, <2>2 DEF Listed
<1>10. /\ Len(applied') = b.revision /\ applied'[b.revision] = b /\ b.revision \in DOMAIN applied'
       /\ DOMAIN applied \subseteq DOMAIN applied'
       /\ \A i \in DOMAIN applied : applied'[i] = applied[i]
       /\ \A i \in DOMAIN applied' : i \in DOMAIN applied \/ applied'[i] = b
  <2>1. Len(applied) = lifecycle.source_revision
    BY <1>0 DEF Counted
  <2> QED
    BY <1>1, <1>2, <1>3, <1>4, <2>1
<1>11. Counted' /\ ReceiptsAgree'
  <2>1. Counted'
    BY <1>1, <1>5, <1>10 DEF Counted
  <2>2. ASSUME NEW c \in acks' PROVE c.revision \in DOMAIN applied' /\ applied'[c.revision] = c
    BY <1>0, <1>1, <1>10, <2>2 DEF ReceiptsAgree
  <2> QED
    BY <2>1, <2>2 DEF ReceiptsAgree
<1>12. ASSUME NEW h \in Human, ~principals'[h].disabled
       PROVE  rows[h].active /\ ~rows[h].deleted /\ ~b.suspend /\ h \in config.admission
  <2>1. CASE h \in hit
    BY <1>7, <1>12, <2>1
  <2>2. CASE h \notin hit
    <3>1. /\ subjects[h].active /\ ~subjects[h].deleted /\ h \in config.admission /\ subjects[h].listed
      BY <1>0, <1>7, <1>12, <2>2 DEF ManagedAdmission, Listed
    <3>2. CASE b.suspend
      <4>1. ~rows[h].listed
        BY <1>1, <2>2, <3>2
      <4>2. h \in people
        BY <1>1, <3>1, <4>1 DEF Changes
      <4>3. PICK u \in b.updates : rows[h] = Row(u)
        BY <1>1, <4>2 DEF Changes
      <4> QED
        BY <4>1, <4>3, BatchFacts
    <3>3. CASE ~b.suspend
      BY <1>1, <2>2, <3>1, <3>3 DEF Changes
    <3> QED
      BY <3>2, <3>3
  <2> QED
    BY <2>1, <2>2
<1>13. ASSUME NEW h \in Human, NEW i \in DOMAIN applied', NEW u \in applied'[i].updates,
              u.subject = h, u.deleted
       PROVE  rows[h].deleted
  <2>1. CASE i \notin DOMAIN applied
    <3>0. applied'[i] = b
      BY <1>10, <2>1
    <3>1. u \in b.updates
      BY <3>0
    <3>2. rows[h] = Row(u)
      BY <1>1, <1>13, <3>1 DEF Changes
    <3> QED
      BY <1>13, <3>1, <3>2, BatchFacts
  <2>2. CASE i \in DOMAIN applied
    <3>1. subjects[h].deleted
      BY <1>0, <1>10, <1>13, <2>2 DEF ManagedAdmission
    <3>2. CASE h \in people
      <4>1. PICK v \in b.updates : v.subject = h /\ rows[h] = Row(v)
        BY <1>1, <3>2 DEF Changes
      <4>2. v.deleted
        BY <1>1, <3>1, <4>1 DEF Admissible
      <4> QED
        BY <4>1, <4>2, BatchFacts
    <3>3. CASE h \notin people
      BY <1>1, <3>1, <3>3 DEF Changes
    <3> QED
      BY <3>2, <3>3
  <2> QED
    BY <2>1, <2>2
<1>14. ManagedAdmission'
  BY <1>1, <1>5, <1>12, <1>13 DEF ManagedAdmission
<1>15. Logins' /\ Delegations' /\ Kept
  BY <1>1, <1>7, WithdrawFacts DEF IInv
<1>16. Sessions' /\ Ends'
  BY <1>1, <1>15, SessionsStay DEF IInv
<1>17. SessionShape'
  BY <1>1 DEF IInv, SessionShape
<1> QED
  BY <1>8, <1>9, <1>11, <1>14, <1>15, <1>16, <1>17 DEF IInv, Directory

(* A repeated batch is answered as it was. *)
LEMMA RepeatStep ==
    ASSUME IInv, NEW b \in Batch, RepeatBatch(b)
    PROVE  IInv'
<1>0. /\ b = lifecycle.source_digest /\ b # NoBatch /\ acks' = acks \cup {b}
      /\ UNCHANGED <<config, lifecycle, subjects, principals, delegations, logins, starts, agents,
                     ending, failed, review, requests, applied, ended>>
  BY DEF RepeatBatch, durable
<1>1. acks' = acks
  BY <1>0 DEF IInv, Directory, Counted
<1>2. Directory' /\ Logins' /\ Delegations'
  BY <1>0, <1>1, DirectoryStays, LoginsStay, DelegationsStay DEF IInv
<1>3. Kept
  BY <1>0 DEF Kept
<1>4. Sessions' /\ Ends' /\ SessionShape'
  BY <1>0, <1>3, SessionsStay DEF IInv, SessionShape
<1> QED
  BY <1>2, <1>4 DEF IInv

(* A changed configuration is applied to everybody the directory lists, who *)
(* are all withdrawn; nobody else is enabled.                               *)
LEMMA StartUpStep ==
    ASSUME IInv, NEW c \in Config, StartUp(c)
    PROVE  IInv'
<1>0. DirectoryShape /\ Listed /\ Counted /\ ReceiptsAgree /\ ManagedAdmission
  BY DEF IInv, Directory
<1>1. /\ config' = c /\ ~lifecycle.suspended
      /\ UNCHANGED <<subjects, starts, agents, ending, failed, review, requests, applied, acks, ended>>
  BY DEF StartUp, history
<1>2. SessionShape'
  BY <1>1 DEF IInv, SessionShape
<1>3. CASE c = config
  <2>1. UNCHANGED <<lifecycle, principals, logins, delegations>>
    BY <1>3 DEF StartUp
  <2>2. Directory' /\ Logins' /\ Delegations'
    BY <1>1, <1>3, <2>1, DirectoryStays, LoginsStay, DelegationsStay DEF IInv
  <2>3. Kept
    BY <2>1 DEF Kept
  <2> QED
    BY <1>1, <1>2, <2>2, <2>3, SessionsStay DEF IInv
<1>4. CASE c # config
  <2>1. PICK known, rev :
           /\ known = {h \in Human : subjects[h].listed} /\ rev = lifecycle.revision + 1
           /\ lifecycle' = [lifecycle EXCEPT !.revision = rev]
           /\ principals' = Refreshed(known, subjects, c, FALSE, rev)
           /\ Withdraw(known)
    BY <1>4 DEF StartUp
  <2>2. /\ lifecycle \in Lifecycle /\ principals \in [Human -> PrincipalRow]
        /\ subjects \in [Human -> SubjectRow] /\ applied \in Seq(Batch)
    BY <1>0 DEF DirectoryShape
  <2>3. lifecycle.revision \in Nat /\ rev \in Nat /\ lifecycle.revision <= rev
    BY <2>1, <2>2 DEF Lifecycle
  <2>4. /\ principals' \in [Human -> PrincipalRow]
        /\ \A h \in Human \ known : principals'[h] = principals[h]
        /\ \A h \in Human \cap known :
              /\ principals'[h].refreshed = rev
              /\ ~principals'[h].disabled => /\ subjects[h].active /\ ~subjects[h].deleted
                                             /\ h \in c.admission
    <3>1. PICK new, off, rows, cfg : new = principals' /\ off = FALSE /\ rows = subjects /\ cfg = c
      OBVIOUS
    <3>2. new = Refreshed(known, rows, cfg, off, rev) /\ cfg \in Config /\ rev \in Nat
      BY <2>1, <2>3, <3>1
    <3>0. rows \in [Human -> SubjectRow] /\ principals \in [Human -> PrincipalRow]
      BY <2>2, <3>1
    <3>3. RefreshedBy(new, known, rows, cfg, off, rev)
      BY <3>0, <3>2, RefreshedFacts
    <3> QED
      BY <3>1, <3>3 DEF RefreshedBy
  <2>5. /\ lifecycle' \in Lifecycle /\ lifecycle'.revision = rev
        /\ lifecycle'.source_revision = lifecycle.source_revision
        /\ lifecycle'.source_digest = lifecycle.source_digest
        /\ lifecycle'.suspended = lifecycle.suspended
    BY <2>1, <2>2, <2>3 DEF Lifecycle
  <2>6. DirectoryShape' /\ Counted' /\ ReceiptsAgree'
    BY <1>0, <1>1, <2>2, <2>4, <2>5 DEF DirectoryShape, Counted, ReceiptsAgree
  <2>7. ASSUME NEW h \in Human
        PROVE  /\ principals'[h].refreshed <= rev
               /\ ~principals'[h].disabled => /\ subjects[h].active /\ ~subjects[h].deleted
                                              /\ h \in c.admission
    <3>1. principals[h].refreshed \in Nat /\ principals[h].refreshed <= lifecycle.revision
      BY <1>0, <2>2 DEF Listed, PrincipalRow
    <3>2. h \notin known => principals[h].disabled
      BY <1>0, <2>1 DEF Listed, ManagedAdmission
    <3> QED
      BY <2>3, <2>4, <3>1, <3>2
  <2>8. Listed'
    BY <1>0, <1>1, <2>5, <2>7 DEF Listed
  <2>9. ManagedAdmission'
    BY <1>0, <1>1, <2>5, <2>7 DEF ManagedAdmission
  <2>10. Logins' /\ Delegations' /\ Kept
    BY <2>1, <2>4, WithdrawFacts DEF IInv
  <2>11. Sessions' /\ Ends'
    BY <1>1, <2>10, SessionsStay DEF IInv
  <2> QED
    BY <1>2, <2>6, <2>8, <2>9, <2>10, <2>11 DEF IInv, Directory
<1> QED
  BY <1>3, <1>4

-----------------------------------------------------------------------------
(* Logins. *)

Others == <<config, lifecycle, subjects, principals, delegations, starts, agents, ending, failed,
            review, requests, applied, acks, ended>>

(* A login that is not yet minted moves on. *)
LEMMA OneLogin ==
    ASSUME IInv, NEW l \in Login, logins[l].phase # "Minted", NEW row \in LoginRow,
           logins' = [logins EXCEPT ![l] = row],
           row.phase \in {"Admitted", "Minted"} => row.user \in Human,
           row.phase = "Minted" /\ ~row.revoked =>
              /\ principals[row.user].refreshed <= row.began
              /\ principals[row.user].epoch = row.epoch,
           UNCHANGED Others
    PROVE  IInv'
<1>0. UNCHANGED <<config, lifecycle, subjects, principals, delegations, starts, agents, ending,
                  failed, review, requests, applied, acks, ended>>
  BY DEF Others
<1>1. Directory' /\ Delegations' /\ SessionShape'
  BY <1>0, DirectoryStays, DelegationsStay DEF IInv, SessionShape
<1>2. Sessions'
  BY <1>0 DEF IInv, Sessions, Known
<1>3. logins \in [Login -> LoginRow]
  BY DEF IInv, Logins
<1>4. logins'[l] = row /\ \A k \in Login \ {l} : logins'[k] = logins[k]
  BY <1>3
<1>5. logins' \in [Login -> LoginRow]
  BY <1>3
<1>6. IsFiniteSet(Minted')
  <2>1. Minted' \subseteq Minted \cup {l}
    BY <1>4 DEF Minted
  <2>2. IsFiniteSet(Minted \cup {l})
    BY FS_AddElement DEF IInv, Logins
  <2> QED
    BY <2>1, <2>2, FS_Subset
<1>7. ASSUME NEW k \in Login
      PROVE  /\ logins'[k].phase \in {"Admitted", "Minted"} => logins'[k].user \in Human
             /\ Live(k)' => /\ principals'[logins'[k].user].refreshed <= logins'[k].began
                            /\ principals'[logins'[k].user].epoch = logins'[k].epoch
  <2>1. CASE k = l
    BY <1>0, <1>4, <2>1 DEF Live
  <2>2. CASE k # l
    <3>1. logins'[k] = logins[k]
      BY <1>4, <2>2
    <3>2. /\ logins[k].phase \in {"Admitted", "Minted"} => logins[k].user \in Human
          /\ Live(k) => /\ principals[logins[k].user].refreshed <= logins[k].began
                        /\ principals[logins[k].user].epoch = logins[k].epoch
      BY DEF IInv, Logins
    <3> QED
      BY <1>0, <3>1, <3>2 DEF Live
  <2> QED
    BY <2>1, <2>2
<1>8. Logins'
  BY <1>5, <1>6, <1>7 DEF Logins
<1>9. Ends'
  <2>1. \A j \in Jti : Fenced(j) => Fenced(j)'
    BY <1>0 DEF Fenced
  <2>2. <<"login", l>> \notin ended
    BY DEF IInv, Ends
  <2>3. ASSUME NEW k \in Login, <<"login", k>> \in ended'
        PROVE  logins'[k].phase = "Minted" /\ logins'[k].revoked
    <3>1. k # l
      BY <1>0, <2>2, <2>3
    <3>2. logins'[k] = logins[k]
      BY <1>4, <3>1
    <3> QED
      BY <1>0, <2>3, <3>2 DEF IInv, Ends
  <2>4. ASSUME NEW j \in Jti, <<"agent", j>> \in ended'
        PROVE  starts'[j].phase = "Done" /\ j \notin agents' \cup ending' /\ Fenced(j)'
    BY <1>0, <2>1, <2>4 DEF IInv, Ends
  <2> QED
    BY <2>3, <2>4 DEF Ends
<1> QED
  BY <1>1, <1>2, <1>8, <1>9 DEF IInv

(* login_start and the arrival of the person. *)
LEMMA LoginStartStep ==
    ASSUME IInv, NEW l \in Login, LoginStart(l)
    PROVE  IInv'
<1>0. /\ logins[l].phase = "None" /\ UNCHANGED Others
      /\ logins' = [logins EXCEPT ![l].phase = "Begun", ![l].began = lifecycle.revision]
  BY DEF LoginStart, Others, durable, history
<1>1. logins[l] \in LoginRow /\ lifecycle.revision \in Nat
  BY DEF IInv, Logins, Directory, DirectoryShape, Lifecycle
<1>2. PICK row : row = [logins[l] EXCEPT !.phase = "Begun", !.began = lifecycle.revision]
  OBVIOUS
<1>3. row \in LoginRow /\ row.phase = "Begun"
  BY <1>1, <1>2 DEF LoginRow
<1>4. logins' = [logins EXCEPT ![l] = row]
  BY <1>0, <1>2
<1> QED
  BY <1>0, <1>3, <1>4, OneLogin

(* complete_login binds the login to a person and mints nothing. *)
LEMMA LoginAdmitStep ==
    ASSUME IInv, NEW l \in Login, NEW h \in Human, LoginAdmit(l, h)
    PROVE  IInv'
<1>0. /\ logins[l].phase = "Begun" /\ UNCHANGED Others
      /\ logins' = [logins EXCEPT ![l].phase = "Admitted", ![l].user = h]
  BY DEF LoginAdmit, Others, durable, history
<1>1. logins[l] \in LoginRow
  BY DEF IInv, Logins
<1>2. PICK row : row = [logins[l] EXCEPT !.phase = "Admitted", !.user = h]
  OBVIOUS
<1>3. row \in LoginRow /\ row.phase = "Admitted" /\ row.user = h
  BY <1>1, <1>2 DEF LoginRow
<1>4. logins' = [logins EXCEPT ![l] = row]
  BY <1>0, <1>2
<1> QED
  BY <1>0, <1>3, <1>4, OneLogin

(* A session is minted at the revision its login began with, so nothing     *)
(* about its person has been refreshed since.                               *)
LEMMA LoginMintStep ==
    ASSUME IInv, NEW l \in Login, LoginMint(l)
    PROVE  IInv'
<1>0. logins[l].phase = "Admitted" /\ UNCHANGED Others
  BY DEF LoginMint, Others, durable, history
<1>1. /\ logins[l] \in LoginRow /\ logins[l].user \in Human /\ IsFiniteSet(Minted)
      /\ lifecycle.revision \in Nat
  BY <1>0 DEF IInv, Logins, Directory, DirectoryShape, Lifecycle
<1>2. PICK h : h = logins[l].user
  OBVIOUS
<1>3. CASE logins[l].began = lifecycle.revision /\ ~principals[h].disabled
  <2>1. PICK n : n = Cardinality(Minted) + 1
    OBVIOUS
  <2>2. n \in Nat
    BY <1>1, <2>1, FS_CardinalityType
  <2>3. /\ principals[h].epoch \in Nat /\ principals[h].refreshed <= lifecycle.revision
    BY <1>1, <1>2 DEF IInv, Directory, DirectoryShape, Listed, PrincipalRow
  <2>4. PICK row : row = [logins[l] EXCEPT !.phase = "Minted", !.revoked = FALSE, !.rowid = n,
                                           !.epoch = principals[h].epoch]
    OBVIOUS
  <2>5. /\ row \in LoginRow /\ row.user = h /\ row.began = lifecycle.revision
        /\ row.epoch = principals[h].epoch
    BY <1>1, <1>2, <1>3, <2>2, <2>3, <2>4 DEF LoginRow
  <2>6. logins' = [logins EXCEPT ![l] = row]
    BY <1>2, <1>3, <2>1, <2>4 DEF LoginMint
  <2> QED
    BY <1>0, <1>1, <1>2, <2>3, <2>5, <2>6, OneLogin
<1>4. CASE ~(logins[l].began = lifecycle.revision /\ ~principals[h].disabled)
  <2>1. PICK row : row = [NoLogin EXCEPT !.phase = "Gone"]
    OBVIOUS
  <2>2. row \in LoginRow /\ row.phase = "Gone"
    BY <2>1 DEF NoLogin, LoginRow
  <2>3. logins' = [logins EXCEPT ![l] = row]
    BY <1>2, <1>4, <2>1 DEF LoginMint
  <2> QED
    BY <1>0, <2>2, <2>3, OneLogin
<1> QED
  BY <1>3, <1>4

(* Logging out revokes whatever it reports. *)
LEMMA LogoutStep ==
    ASSUME IInv, Logout
    PROVE  IInv'
<1>0. PICK live : live = {l \in Login : Live(l)}
  OBVIOUS
<1>1. /\ logins' = [l \in Login |-> IF l \in live THEN [logins[l] EXCEPT !.revoked = TRUE] ELSE logins[l]]
      /\ ended' = ended \cup {<<"login", l>> : l \in live}
      /\ UNCHANGED <<config, lifecycle, subjects, principals, delegations, starts, agents, ending,
                     failed, review, requests, applied, acks>>
  BY <1>0 DEF Logout, durable
<1>2. Directory' /\ Delegations' /\ SessionShape'
  BY <1>1, DirectoryStays, DelegationsStay DEF IInv, SessionShape
<1>3. Sessions'
  BY <1>1 DEF IInv, Sessions, Known
<1>4. logins \in [Login -> LoginRow]
  BY DEF IInv, Logins
<1>5. ASSUME NEW l \in Login
      PROVE  /\ logins'[l] \in LoginRow /\ logins'[l].phase = logins[l].phase
             /\ logins'[l].user = logins[l].user
             /\ logins[l].phase = "Minted" => logins'[l].revoked
  <2>1. logins'[l] = IF l \in live THEN [logins[l] EXCEPT !.revoked = TRUE] ELSE logins[l]
    BY <1>1
  <2>2. logins[l] \in LoginRow
    BY <1>4
  <2> QED
    BY <1>0, <2>1, <2>2 DEF LoginRow, Live
<1>6. logins' \in [Login -> LoginRow]
  <2>1. logins' = [l \in Login |-> logins'[l]]
    BY <1>1
  <2> QED
    BY <1>5, <2>1
<1>7. Logins'
  <2>1. Minted' = Minted
    BY <1>5 DEF Minted
  <2>2. \A l \in Login : ~Live(l)'
    BY <1>5 DEF Live
  <2>3. \A l \in Login : logins'[l].phase \in {"Admitted", "Minted"} => logins'[l].user \in Human
    BY <1>5 DEF IInv, Logins
  <2> QED
    BY <1>6, <2>1, <2>2, <2>3 DEF IInv, Logins
<1>8. Ends'
  <2>1. \A j \in Jti : Fenced(j) => Fenced(j)'
    BY <1>1 DEF Fenced
  <2>2. ASSUME NEW k \in Login, <<"login", k>> \in ended'
        PROVE  logins'[k].phase = "Minted" /\ logins'[k].revoked
    <3>1. <<"login", k>> \in ended \/ k \in live
      BY <1>1, <2>2
    <3>2. logins[k].phase = "Minted"
      BY <1>0, <3>1 DEF IInv, Ends, Live
    <3> QED
      BY <1>5, <3>2
  <2>3. ASSUME NEW j \in Jti, <<"agent", j>> \in ended'
        PROVE  starts'[j].phase = "Done" /\ j \notin agents' \cup ending' /\ Fenced(j)'
    <3>1. <<"agent", j>> \in ended
      BY <1>1, <2>3
    <3> QED
      BY <1>1, <2>1, <3>1 DEF IInv, Ends
  <2> QED
    BY <2>2, <2>3 DEF Ends
<1> QED
  BY <1>2, <1>3, <1>7, <1>8 DEF IInv

-----------------------------------------------------------------------------
(* Reviewed role changes. *)

(* A step that writes only the review. *)
LEMMA ReviewStep ==
    ASSUME IInv, review' \in ReviewRow \cup {NoReview},
           UNCHANGED <<config, lifecycle, subjects, principals, delegations, logins, starts, agents,
                       ending, failed, requests, applied, acks, ended>>
    PROVE  IInv'
<1>1. Directory' /\ Delegations' /\ Logins' /\ SessionShape'
  BY DirectoryStays, DelegationsStay, LoginsStay DEF IInv, SessionShape
<1>2. Kept
  BY DEF Kept
<1> QED
  BY <1>1, <1>2, SessionsStay DEF IInv

(* The role review is opened on the roles read now. *)
LEMMA RoleAskStep ==
    ASSUME IInv, NEW actor \in Human, NEW target \in Human, NEW roles \in Asked,
           RoleAsk(actor, target, roles)
    PROVE  IInv'
<1>1. review' = [actor |-> actor, target |-> target,
                 expected |-> principals[target].roles, roles |-> roles]
  BY DEF RoleAsk
<1>2. principals[target].roles \in SUBSET Role
  BY DEF IInv, Directory, DirectoryShape, PrincipalRow
<1>3. review' \in ReviewRow
  BY <1>1, <1>2 DEF ReviewRow
<1> QED
  BY <1>3, ReviewStep DEF RoleAsk, durable, history

(* A review that no longer matches, or is declined, changes nothing. *)
LEMMA RoleDropStep ==
    ASSUME IInv, RoleDrop
    PROVE  IInv'
BY ReviewStep DEF RoleDrop, durable, history

(* A reviewed change of roles withdraws the person whose epoch it moves,    *)
(* and enables nobody.                                                      *)
LEMMA RoleApplyStep ==
    ASSUME IInv, RoleApply
    PROVE  IInv'
<1>0. PICK target, H :
        /\ target = review.target
        /\ H = IF principals[target].roles # review.roles THEN {target} ELSE {}
        /\ review # NoReview /\ review' = NoReview /\ Withdraw(H)
        /\ principals' = IF principals[target].roles # review.roles
                         THEN [principals EXCEPT ![target].roles = review.roles,
                                                 ![target].epoch = @ + 1]
                         ELSE principals
        /\ UNCHANGED <<config, lifecycle, subjects, starts, agents, ending, failed, requests,
                       applied, acks, ended>>
  BY DEF RoleApply, history
<1>1. review \in ReviewRow /\ target \in Human /\ review.roles \in SUBSET Role
  BY <1>0, ReviewAssumption DEF IInv, SessionShape, ReviewRow
<1>2. principals \in [Human -> PrincipalRow]
  BY DEF IInv, Directory, DirectoryShape
<1>3. /\ principals' \in [Human -> PrincipalRow]
      /\ \A h \in Human : /\ principals'[h].disabled = principals[h].disabled
                          /\ principals'[h].refreshed = principals[h].refreshed
      /\ \A h \in Human \ H : principals'[h].epoch = principals[h].epoch
  <2>1. CASE principals[target].roles # review.roles
    <3>0. PICK roles, n, old : roles = review.roles /\ n = principals[target].epoch + 1
                               /\ old = principals[target]
      OBVIOUS
    <3>1. PICK row : row = [old EXCEPT !.roles = roles, !.epoch = n]
      OBVIOUS
    <3>2. old \in PrincipalRow /\ n \in Nat /\ roles \in SUBSET Role
      <4>1. principals[target] \in PrincipalRow
        BY <1>1, <1>2
      <4> QED
        BY <1>1, <3>0, <4>1 DEF PrincipalRow
    <3>3. /\ row \in PrincipalRow /\ row.disabled = principals[target].disabled
          /\ row.refreshed = principals[target].refreshed
      <4>1. row \in PrincipalRow /\ row.disabled = old.disabled /\ row.refreshed = old.refreshed
        BY <3>1, <3>2 DEF PrincipalRow
      <4> QED
        BY <3>0, <4>1
    <3>4. principals' = [principals EXCEPT ![target] = row]
      BY <1>0, <2>1, <3>0, <3>1
    <3>5. principals'[target] = row /\ \A h \in Human \ {target} : principals'[h] = principals[h]
      BY <1>1, <1>2, <3>4
    <3>6. H = {target}
      BY <1>0, <2>1
    <3>7. principals' \in [Human -> PrincipalRow]
      BY <1>1, <1>2, <3>3, <3>4
    <3> QED
      BY <3>3, <3>5, <3>6, <3>7
  <2>2. CASE principals[target].roles = review.roles
    BY <1>0, <1>2, <2>2
  <2> QED
    BY <2>1, <2>2
<1>4. Directory'
  <2>1. DirectoryShape' /\ Counted' /\ ReceiptsAgree'
    BY <1>0, <1>3 DEF IInv, Directory, DirectoryShape, Counted, ReceiptsAgree
  <2>2. Listed'
    BY <1>0, <1>3 DEF IInv, Directory, Listed
  <2>3. ManagedAdmission'
    BY <1>0, <1>3 DEF IInv, Directory, ManagedAdmission
  <2> QED
    BY <2>1, <2>2, <2>3 DEF Directory
<1>5. Logins' /\ Delegations' /\ Kept
  BY <1>0, <1>3, WithdrawFacts DEF IInv
<1>6. Sessions' /\ Ends'
  BY <1>0, <1>5, SessionsStay DEF IInv
<1>7. SessionShape'
  BY <1>0 DEF IInv, SessionShape
<1> QED
  BY <1>4, <1>5, <1>6, <1>7 DEF IInv

-----------------------------------------------------------------------------
(* Agent sessions. *)

(* A start that is not done moves on; only its own delegation and session   *)
(* may appear.                                                              *)
LEMMA OneStart ==
    ASSUME IInv, NEW j \in Jti, starts[j].phase # "Done", NEW row \in StartRow,
           starts' = [starts EXCEPT ![j] = row],
           Delegations', \A k \in Jti \ {j} : delegations'[k] = delegations[k],
           agents \subseteq agents', agents' \subseteq agents \cup {j},
           j \in agents' => row.phase = "Done" /\ Known(j)',
           row.phase = "Asked" => row.sub \in Human,
           row.phase = "Checked" => row.sub \in Human /\ row.login \in Login,
           row.phase = "Recorded" => Known(j)',
           UNCHANGED <<config, lifecycle, subjects, principals, logins, ending, failed, review,
                       requests, applied, acks, ended>>
    PROVE  IInv'
<1>1. Directory' /\ Logins'
  BY DirectoryStays, LoginsStay DEF IInv
<1>2. starts \in [Jti -> StartRow]
  BY DEF IInv, SessionShape
<1>3. starts'[j] = row /\ \A k \in Jti \ {j} : starts'[k] = starts[k]
  BY <1>2
<1>4. SessionShape'
  BY <1>2 DEF IInv, SessionShape
<1>5. /\ j \notin agents \cup ending
      /\ \A q \in Request : requests[q].phase = "Resolved" => requests[q].jti # j
      /\ <<"agent", j>> \notin ended
  BY DEF IInv, Sessions, Ends
<1>6. \A k \in Jti \ {j} : (Known(k) <=> Known(k)') /\ (Fenced(k) <=> Fenced(k)')
  BY DEF Known, Fenced
<1>7. ASSUME NEW k \in Jti
      PROVE  /\ starts'[k].phase = "Asked" => starts'[k].sub \in Human
             /\ starts'[k].phase = "Checked" => starts'[k].sub \in Human /\ starts'[k].login \in Login
             /\ starts'[k].phase = "Recorded" => Known(k)'
             /\ k \in agents' \cup ending' => starts'[k].phase = "Done" /\ Known(k)'
  <2>1. CASE k = j
    BY <1>3, <1>5, <2>1
  <2>2. CASE k # j
    <3>1. starts'[k] = starts[k] /\ (Known(k) <=> Known(k)')
      BY <1>3, <1>6, <2>2
    <3>2. k \in agents' \cup ending' => k \in agents \cup ending
      BY <2>2
    <3> QED
      BY <3>1, <3>2 DEF IInv, Sessions
  <2> QED
    BY <2>1, <2>2
<1>8. ASSUME NEW q \in Request, requests'[q].phase = "Resolved"
      PROVE  /\ requests'[q].jti \in Jti /\ Known(requests[q].jti)'
             /\ starts'[requests'[q].jti].phase = "Done"
  <2>1. PICK k : k = requests[q].jti /\ requests'[q] = requests[q]
    OBVIOUS
  <2>2. k \in Jti \ {j} /\ Known(k) /\ starts[k].phase = "Done"
    BY <1>5, <1>8, <2>1 DEF IInv, Sessions
  <2>3. Known(k)' /\ starts'[k].phase = "Done"
    BY <1>3, <1>6, <2>2
  <2> QED
    BY <2>1, <2>2, <2>3 DEF Known
<1>9. Sessions'
  <2>1. agents' \subseteq Jti /\ ending' \subseteq Jti /\ agents' \cap ending' = {}
    BY <1>5 DEF IInv, Sessions
  <2> QED
    BY <1>7, <1>8, <2>1 DEF Sessions
<1>10. Ends'
  <2>1. ASSUME NEW k \in Jti, <<"agent", k>> \in ended'
        PROVE  starts'[k].phase = "Done" /\ k \notin agents' \cup ending' /\ Fenced(k)'
    <3>1. k # j /\ <<"agent", k>> \in ended
      BY <1>5, <2>1
    <3>2. starts[k].phase = "Done" /\ k \notin agents \cup ending /\ Fenced(k)
      BY <3>1 DEF IInv, Ends
    <3> QED
      BY <1>3, <1>6, <3>1, <3>2
  <2>2. \A l \in Login : <<"login", l>> \in ended' => logins'[l].phase = "Minted" /\ logins'[l].revoked
    BY DEF IInv, Ends
  <2> QED
    BY <2>1, <2>2 DEF Ends
<1> QED
  BY <1>1, <1>4, <1>9, <1>10 DEF IInv

(* An agent start is asked for a person. *)
LEMMA StartAskStep ==
    ASSUME IInv, NEW j \in Jti, NEW h \in Human, StartAsk(j, h)
    PROVE  IInv'
<1>0. /\ starts[j].phase = "None" /\ starts' = [starts EXCEPT ![j].phase = "Asked", ![j].sub = h]
      /\ UNCHANGED <<config, lifecycle, subjects, principals, delegations, logins, agents, ending,
                     failed, review, requests, applied, acks, ended>>
  BY DEF StartAsk, durable, history
<1>1. starts[j] \in StartRow
  BY DEF IInv, SessionShape
<1>2. PICK row : row = [starts[j] EXCEPT !.phase = "Asked", !.sub = h]
  OBVIOUS
<1>3. row \in StartRow /\ row.phase = "Asked" /\ row.sub = h
  BY <1>1, <1>2 DEF StartRow
<1>4. starts' = [starts EXCEPT ![j] = row]
  BY <1>0, <1>2
<1>5. Delegations' /\ j \notin agents'
  BY <1>0, DelegationsStay DEF IInv, Sessions
<1> QED
  BY <1>0, <1>3, <1>4, <1>5, OneStart

(* The approver and the login are read; nothing is written yet. *)
LEMMA StartCheckStep ==
    ASSUME IInv, NEW j \in Jti, NEW by \in Approver, NEW l \in Login, StartCheck(j, by, l)
    PROVE  IInv'
<1>0. /\ starts[j].phase = "Asked"
      /\ starts' = [starts EXCEPT ![j].phase = "Checked", ![j].approver = by, ![j].login = l]
      /\ UNCHANGED <<config, lifecycle, subjects, principals, delegations, logins, agents, ending,
                     failed, review, requests, applied, acks, ended>>
  BY DEF StartCheck, durable, history
<1>1. starts[j] \in StartRow /\ starts[j].sub \in Human /\ by \in Human \cup {NoOne}
  BY <1>0, ReviewAssumption DEF IInv, SessionShape, Sessions
<1>2. PICK row : row = [starts[j] EXCEPT !.phase = "Checked", !.approver = by, !.login = l]
  OBVIOUS
<1>3. row \in StartRow /\ row.phase = "Checked" /\ row.sub = starts[j].sub /\ row.login = l
  BY <1>1, <1>2 DEF StartRow
<1>4. starts' = [starts EXCEPT ![j] = row]
  BY <1>0, <1>2
<1>5. Delegations' /\ j \notin agents'
  BY <1>0, DelegationsStay DEF IInv, Sessions
<1> QED
  BY <1>0, <1>1, <1>3, <1>4, <1>5, OneStart

(* The delegation is recorded at the epoch its approver has now. *)
LEMMA StartRecordStep ==
    ASSUME IInv, NEW j \in Jti, StartRecord(j)
    PROVE  IInv'
<1>0. PICK by, new :
        /\ by = starts[j].approver /\ starts[j].phase = "Checked"
        /\ new = [sub |-> starts[j].sub, login |-> starts[j].login, approved_by |-> by,
                  revoked |-> FALSE, witness |-> IF by = NoOne THEN Never ELSE principals[by].epoch]
        /\ delegations' = [delegations EXCEPT ![j] = new]
        /\ starts' = [starts EXCEPT ![j].phase = "Recorded"]
        /\ UNCHANGED <<config, lifecycle, subjects, principals, logins, agents, ending, failed,
                       review, requests, applied, acks, ended>>
  BY DEF StartRecord, history
<1>1. /\ starts[j] \in StartRow /\ starts[j].sub \in Human /\ starts[j].login \in Login
      /\ by \in Human \cup {NoOne}
  BY <1>0 DEF IInv, SessionShape, Sessions, StartRow
<1>2. PICK row : row = [starts[j] EXCEPT !.phase = "Recorded"]
  OBVIOUS
<1>3. row \in StartRow /\ row.phase = "Recorded"
  BY <1>1, <1>2 DEF StartRow
<1>4. starts' = [starts EXCEPT ![j] = row]
  BY <1>0, <1>2
<1>5. /\ delegations \in [Jti -> DelegationRow] /\ principals \in [Human -> PrincipalRow]
  BY DEF IInv, Delegations, Directory, DirectoryShape
<1>6. /\ new \in DelegationRow /\ new.sub = starts[j].sub /\ new.login = starts[j].login
      /\ new.approved_by = by
      /\ by # NoOne => principals[by].epoch = new.witness
  <2>1. PICK w : w = IF by = NoOne THEN Never ELSE principals[by].epoch
    OBVIOUS
  <2>2. w \in Nat \cup {Never}
    BY <1>1, <1>5, <2>1 DEF PrincipalRow
  <2>3. new = [sub |-> starts[j].sub, login |-> starts[j].login, approved_by |-> by,
               revoked |-> FALSE, witness |-> w]
    BY <1>0, <2>1
  <2>4. new \in DelegationRow /\ new.witness = w
    BY <1>1, <2>2, <2>3 DEF DelegationRow
  <2> QED
    BY <2>1, <2>3, <2>4
<1>7. delegations'[j] = new /\ \A k \in Jti \ {j} : delegations'[k] = delegations[k]
  BY <1>0, <1>5
<1>8. delegations' \in [Jti -> DelegationRow]
  BY <1>0, <1>5, <1>6
<1>9. ASSUME NEW k \in Jti, ~delegations'[k].revoked, delegations'[k].approved_by # NoOne
      PROVE  principals'[delegations'[k].approved_by].epoch = delegations'[k].witness
  <2>1. CASE k = j
    BY <1>0, <1>6, <1>7, <1>9, <2>1
  <2>2. CASE k # j
    <3>1. delegations'[k] = delegations[k]
      BY <1>7, <2>2
    <3>2. principals[delegations[k].approved_by].epoch = delegations[k].witness
      BY <1>9, <3>1 DEF IInv, Delegations
    <3> QED
      BY <1>0, <3>1, <3>2
  <2> QED
    BY <2>1, <2>2
<1>10. Delegations'
  BY <1>8, <1>9 DEF Delegations
<1>11. Known(j)'
  BY <1>1, <1>6, <1>7 DEF Known
<1>12. j \notin agents' /\ starts[j].phase # "Done"
  BY <1>0 DEF IInv, Sessions
<1> QED
  BY <1>0, <1>3, <1>4, <1>7, <1>10, <1>11, <1>12, OneStart

(* The recorded session becomes an agent session. *)
LEMMA StartInsertStep ==
    ASSUME IInv, NEW j \in Jti, StartInsert(j)
    PROVE  IInv'
<1>0. PICK row :
        /\ row = [NoStart EXCEPT !.phase = "Done"] /\ starts[j].phase = "Recorded"
        /\ starts' = [starts EXCEPT ![j] = row] /\ agents' = agents \cup {j}
        /\ UNCHANGED <<config, lifecycle, subjects, principals, delegations, logins, ending, failed,
                       review, requests, applied, acks, ended>>
  BY DEF StartInsert, durable, history
<1>1. row \in StartRow /\ row.phase = "Done"
  BY <1>0 DEF NoStart, StartRow
<1>2. Known(j) /\ Delegations'
  BY <1>0, DelegationsStay DEF IInv, Sessions
<1>3. Known(j)'
  BY <1>0, <1>2 DEF Known
<1> QED
  BY <1>0, <1>1, <1>2, <1>3, OneStart

(* A refused start leaves no session. *)
LEMMA StartFailStep ==
    ASSUME IInv, NEW j \in Jti, StartFail(j)
    PROVE  IInv'
<1>0. PICK row :
        /\ row = [NoStart EXCEPT !.phase = "Done"] /\ starts[j].phase \in {"Asked", "Checked"}
        /\ starts' = [starts EXCEPT ![j] = row]
        /\ UNCHANGED <<config, lifecycle, subjects, principals, delegations, logins, agents, ending,
                       failed, review, requests, applied, acks, ended>>
  BY DEF StartFail, durable, history
<1>1. row \in StartRow /\ row.phase = "Done"
  BY <1>0 DEF NoStart, StartRow
<1>2. j \notin agents' /\ Delegations'
  BY <1>0, DelegationsStay DEF IInv, Sessions
<1> QED
  BY <1>0, <1>1, <1>2, OneStart

(* Ending takes the session away first, *)
LEMMA EndRemoveStep ==
    ASSUME IInv, NEW j \in Jti, EndRemove(j)
    PROVE  IInv'
<1>0. /\ j \in agents /\ agents' = agents \ {j} /\ ending' = ending \cup {j}
      /\ UNCHANGED <<config, lifecycle, subjects, principals, delegations, logins, starts, failed,
                     review, requests, applied, acks, ended>>
  BY DEF EndRemove, durable, history
<1>1. Directory' /\ Delegations' /\ Logins' /\ SessionShape'
  BY <1>0, DirectoryStays, DelegationsStay, LoginsStay DEF IInv, SessionShape
<1>2. Sessions'
  <2>1. agents' \cup ending' = agents \cup ending /\ agents' \cap ending' = {}
    BY <1>0 DEF IInv, Sessions
  <2>2. agents' \subseteq Jti /\ ending' \subseteq Jti
    BY <1>0 DEF IInv, Sessions
  <2>3. \A k \in Jti : Known(k) <=> Known(k)'
    BY <1>0 DEF Known
  <2>4. ASSUME NEW q \in Request, requests'[q].phase = "Resolved"
        PROVE  /\ requests'[q].jti \in Jti /\ Known(requests[q].jti)'
               /\ starts'[requests'[q].jti].phase = "Done"
    BY <1>0, <2>3, <2>4 DEF IInv, Sessions
  <2>5. ASSUME NEW k \in Jti
        PROVE  /\ starts'[k].phase = "Asked" => starts'[k].sub \in Human
               /\ starts'[k].phase = "Checked" => starts'[k].sub \in Human /\ starts'[k].login \in Login
               /\ starts'[k].phase = "Recorded" => Known(k)'
               /\ k \in agents' \cup ending' => starts'[k].phase = "Done" /\ Known(k)'
    BY <1>0, <2>1, <2>3 DEF IInv, Sessions
  <2> QED
    BY <2>1, <2>2, <2>4, <2>5 DEF Sessions
<1>3. Ends'
  BY <1>0 DEF IInv, Ends, Fenced
<1> QED
  BY <1>1, <1>2, <1>3 DEF IInv

(* and is reported when the row or the local fence stands.                  *)
LEMMA EndRevokeStep ==
    ASSUME IInv, NEW j \in Jti, EndRevoke(j)
    PROVE  IInv'
<1>0. /\ j \in ending /\ ending' = ending \ {j} /\ ended' = ended \cup {<<"agent", j>>}
      /\ \/ /\ delegations' = [delegations EXCEPT ![j].revoked = TRUE]
            /\ failed' = IF delegations[j].revoked THEN failed ELSE failed \ {j}
         \/ failed' = failed \cup {j} /\ UNCHANGED delegations
      /\ UNCHANGED <<config, lifecycle, subjects, principals, logins, starts, agents, review,
                     requests, applied, acks>>
  BY DEF EndRevoke
<1>1. Directory' /\ Logins' /\ SessionShape'
  BY <1>0, DirectoryStays, LoginsStay DEF IInv, SessionShape
<1>2. delegations \in [Jti -> DelegationRow]
  BY DEF IInv, Delegations
<1>3. /\ delegations' \in [Jti -> DelegationRow]
      /\ \A k \in Jti \ {j} : delegations'[k] = delegations[k]
      /\ \A k \in Jti : /\ delegations'[k].sub = delegations[k].sub
                        /\ delegations'[k].login = delegations[k].login
                        /\ delegations'[k].approved_by = delegations[k].approved_by
                        /\ delegations'[k].witness = delegations[k].witness
                        /\ delegations[k].revoked => delegations'[k].revoked
      /\ delegations'[j].revoked \/ j \in failed'
  <2>1. CASE delegations' = [delegations EXCEPT ![j].revoked = TRUE]
    <3>1. PICK new : new = [delegations[j] EXCEPT !.revoked = TRUE]
      OBVIOUS
    <3>2. delegations[j] \in DelegationRow
      BY <1>2
    <3>3. /\ new \in DelegationRow /\ new.sub = delegations[j].sub /\ new.login = delegations[j].login
          /\ new.approved_by = delegations[j].approved_by /\ new.witness = delegations[j].witness
          /\ new.revoked
      BY <3>1, <3>2 DEF DelegationRow
    <3>4. delegations' = [delegations EXCEPT ![j] = new]
      BY <2>1, <3>1
    <3>5. delegations'[j] = new /\ \A k \in Jti \ {j} : delegations'[k] = delegations[k]
      BY <1>2, <3>4
    <3>6. delegations' \in [Jti -> DelegationRow]
      BY <1>2, <3>3, <3>4
    <3> QED
      BY <3>3, <3>5, <3>6
  <2>2. CASE failed' = failed \cup {j} /\ UNCHANGED delegations
    BY <1>2, <2>2
  <2> QED
    BY <1>0, <2>1, <2>2
<1>4. Delegations'
  BY <1>0, <1>3 DEF IInv, Delegations
<1>5. \A k \in Jti : Known(k) <=> Known(k)'
  BY <1>3 DEF Known
<1>6. Sessions'
  <2>1. /\ agents' \cap ending' = {} /\ agents' \subseteq Jti /\ ending' \subseteq Jti
        /\ agents' \cup ending' \subseteq agents \cup ending
    BY <1>0 DEF IInv, Sessions
  <2>2. ASSUME NEW q \in Request, requests'[q].phase = "Resolved"
        PROVE  /\ requests'[q].jti \in Jti /\ Known(requests[q].jti)'
               /\ starts'[requests'[q].jti].phase = "Done"
    BY <1>0, <1>5, <2>2 DEF IInv, Sessions
  <2>3. ASSUME NEW k \in Jti
        PROVE  /\ starts'[k].phase = "Asked" => starts'[k].sub \in Human
               /\ starts'[k].phase = "Checked" => starts'[k].sub \in Human /\ starts'[k].login \in Login
               /\ starts'[k].phase = "Recorded" => Known(k)'
               /\ k \in agents' \cup ending' => starts'[k].phase = "Done" /\ Known(k)'
    BY <1>0, <1>5, <2>1 DEF IInv, Sessions
  <2> QED
    BY <2>1, <2>2, <2>3 DEF Sessions
<1>7. Ends'
  <2>1. \A l \in Login : <<"login", l>> \in ended' => logins'[l].phase = "Minted" /\ logins'[l].revoked
    BY <1>0 DEF IInv, Ends
  <2>2. ASSUME NEW k \in Jti, <<"agent", k>> \in ended'
        PROVE  starts'[k].phase = "Done" /\ k \notin agents' \cup ending' /\ Fenced(k)'
    <3>1. CASE k = j
      <4>1. starts[j].phase = "Done" /\ j \notin agents
        BY <1>0 DEF IInv, Sessions
      <4> QED
        BY <1>0, <1>3, <3>1, <4>1 DEF Fenced
    <3>2. CASE k # j
      <4>1. <<"agent", k>> \in ended
        BY <1>0, <2>2, <3>2
      <4>2. starts[k].phase = "Done" /\ k \notin agents \cup ending /\ Fenced(k)
        BY <4>1 DEF IInv, Ends
      <4>3. k \in failed => k \in failed'
        BY <1>0, <3>2
      <4>4. Fenced(k)'
        BY <1>0, <1>3, <4>2, <4>3 DEF Fenced
      <4> QED
        BY <1>0, <4>2, <4>4
    <3> QED
      BY <3>1, <3>2
  <2> QED
    BY <2>1, <2>2 DEF Ends
<1> QED
  BY <1>1, <1>4, <1>6, <1>7 DEF IInv

-----------------------------------------------------------------------------
(* Requests. *)

(* A request moves on; one that is resolved belongs to a live session. *)
LEMMA OneRequest ==
    ASSUME IInv, NEW q \in Request, NEW row \in RequestRow, requests' = [requests EXCEPT ![q] = row],
           row.phase = "Resolved" => row.jti \in agents,
           UNCHANGED <<config, lifecycle, subjects, principals, delegations, logins, starts, agents,
                       ending, failed, review, applied, acks, ended>>
    PROVE  IInv'
<1>1. Directory' /\ Delegations' /\ Logins'
  BY DirectoryStays, DelegationsStay, LoginsStay DEF IInv
<1>2. requests \in [Request -> RequestRow]
  BY DEF IInv, SessionShape
<1>3. requests'[q] = row /\ \A p \in Request \ {q} : requests'[p] = requests[p]
  BY <1>2
<1>4. SessionShape'
  BY <1>2 DEF IInv, SessionShape
<1>5. \A k \in Jti : Known(k) <=> Known(k)'
  BY DEF Known
<1>6. ASSUME NEW p \in Request, requests'[p].phase = "Resolved"
      PROVE  /\ requests'[p].jti \in Jti /\ Known(requests[p].jti)'
             /\ starts'[requests'[p].jti].phase = "Done"
  <2>1. PICK k : k = requests'[p].jti
    OBVIOUS
  <2>2. k \in Jti /\ Known(k) /\ starts[k].phase = "Done"
    <3>1. CASE p = q
      BY <1>3, <1>6, <2>1, <3>1 DEF IInv, Sessions
    <3>2. CASE p # q
      <4>1. requests'[p] = requests[p]
        BY <1>3, <3>2
      <4> QED
        BY <1>6, <2>1, <4>1 DEF IInv, Sessions
    <3> QED
      BY <3>1, <3>2
  <2> QED
    BY <2>1, <2>2 DEF Known
<1>7. Sessions'
  <2>1. ASSUME NEW k \in Jti
        PROVE  /\ starts'[k].phase = "Asked" => starts'[k].sub \in Human
               /\ starts'[k].phase = "Checked" => starts'[k].sub \in Human /\ starts'[k].login \in Login
               /\ starts'[k].phase = "Recorded" => Known(k)'
               /\ k \in agents' \cup ending' => starts'[k].phase = "Done" /\ Known(k)'
    BY <1>5 DEF IInv, Sessions
  <2>2. agents' \cap ending' = {} /\ agents' \subseteq Jti /\ ending' \subseteq Jti
    BY DEF IInv, Sessions
  <2> QED
    BY <1>6, <2>1, <2>2 DEF Sessions
<1>8. Ends'
  <2>1. \A l \in Login : <<"login", l>> \in ended' => logins'[l].phase = "Minted" /\ logins'[l].revoked
    BY DEF IInv, Ends
  <2>2. ASSUME NEW k \in Jti, <<"agent", k>> \in ended'
        PROVE  starts'[k].phase = "Done" /\ k \notin agents' \cup ending' /\ Fenced(k)'
    <3>1. starts[k].phase = "Done" /\ k \notin agents \cup ending /\ Fenced(k)
      BY <2>2 DEF IInv, Ends
    <3>2. ASSUME \A p \in Request : requests[p].phase = "Resolved" => requests[p].jti # k
          PROVE  \A p \in Request : requests'[p].phase = "Resolved" => requests'[p].jti # k
      BY <1>3, <3>1, <3>2
    <3>3. Fenced(k)'
      BY <3>1, <3>2 DEF Fenced
    <3> QED
      BY <3>1, <3>3
  <2> QED
    BY <2>1, <2>2 DEF Ends
<1> QED
  BY <1>1, <1>4, <1>7, <1>8 DEF IInv

(* A request is resolved against a session that is not ended. *)
LEMMA ResolveStep ==
    ASSUME IInv, NEW q \in Request, NEW j \in Jti, Resolve(q, j)
    PROVE  IInv'
<1>0. PICK row :
        /\ row = [phase |-> "Resolved", jti |-> j, roles |-> principals[delegations[j].sub].roles]
        /\ j \in agents /\ requests' = [requests EXCEPT ![q] = row]
        /\ UNCHANGED <<config, lifecycle, subjects, principals, delegations, logins, starts, agents,
                       ending, failed, review, applied, acks, ended>>
  BY DEF Resolve, durable, history
<1>1. delegations[j].sub \in Human
  BY <1>0 DEF IInv, Sessions, Known
<1>2. principals[delegations[j].sub].roles \in SUBSET Role
  BY <1>1 DEF IInv, Directory, DirectoryShape, PrincipalRow
<1>3. row \in RequestRow /\ row.jti = j
  BY <1>0, <1>2 DEF RequestRow
<1> QED
  BY <1>0, <1>3, OneRequest

(* The fence changes the request alone. *)
LEMMA DispatchStep ==
    ASSUME IInv, NEW q \in Request, Dispatch(q)
    PROVE  IInv'
<1>0. /\ requests' = [requests EXCEPT ![q].phase = "Dispatched"]
      /\ UNCHANGED <<config, lifecycle, subjects, principals, delegations, logins, starts, agents,
                     ending, failed, review, applied, acks, ended>>
  BY DEF Dispatch, durable, history
<1>1. PICK row : row = [requests[q] EXCEPT !.phase = "Dispatched"]
  OBVIOUS
<1>2. requests[q] \in RequestRow
  BY DEF IInv, SessionShape
<1>3. row \in RequestRow /\ row.phase = "Dispatched"
  BY <1>1, <1>2 DEF RequestRow
<1>4. requests' = [requests EXCEPT ![q] = row]
  BY <1>0, <1>1
<1> QED
  BY <1>0, <1>3, <1>4, OneRequest

(* A finished request holds no session. *)
LEMMA RequestEndsStep ==
    ASSUME IInv, NEW q \in Request, RequestEnds(q)
    PROVE  IInv'
<1>0. /\ requests' = [requests EXCEPT ![q] = Idle]
      /\ UNCHANGED <<config, lifecycle, subjects, principals, delegations, logins, starts, agents,
                     ending, failed, review, applied, acks, ended>>
  BY DEF RequestEnds, durable, history
<1>1. Idle \in RequestRow /\ Idle.phase = "Idle"
  BY DEF Idle, RequestRow
<1> QED
  BY <1>0, <1>1, OneRequest

-----------------------------------------------------------------------------
(* The daemon stops: what was under way is gone for good, and so is         *)
(* whatever the local fences were for.                                      *)
LEMMA StopStep ==
    ASSUME IInv, Stop
    PROVE  IInv'
<1>0. PICK gone, done :
        /\ gone = [NoLogin EXCEPT !.phase = "Gone"] /\ done = [NoStart EXCEPT !.phase = "Done"]
        /\ logins' = [l \in Login |-> IF logins[l].phase \in {"Begun", "Admitted"}
                                      THEN gone ELSE logins[l]]
        /\ starts' = [j \in Jti |-> IF starts[j].phase = "None" THEN starts[j] ELSE done]
        /\ agents' = {} /\ ending' = {} /\ failed' = {} /\ review' = NoReview
        /\ requests' = [q \in Request |-> Idle]
        /\ UNCHANGED <<config, lifecycle, subjects, principals, delegations, applied, acks, ended>>
  BY DEF Stop, durable, history
<1>1. Directory' /\ Delegations'
  BY <1>0, DirectoryStays, DelegationsStay DEF IInv
<1>2. /\ gone \in LoginRow /\ gone.phase = "Gone" /\ done \in StartRow /\ done.phase = "Done"
      /\ Idle \in RequestRow /\ Idle.phase = "Idle"
  BY <1>0 DEF NoLogin, LoginRow, NoStart, StartRow, Idle, RequestRow
<1>3. logins \in [Login -> LoginRow] /\ starts \in [Jti -> StartRow]
  BY DEF IInv, Logins, SessionShape
<1>4. ASSUME NEW l \in Login
      PROVE  /\ logins'[l] = IF logins[l].phase \in {"Begun", "Admitted"} THEN gone ELSE logins[l]
             /\ logins'[l] \in LoginRow
             /\ logins'[l].phase \in {"Admitted", "Minted"} => logins'[l] = logins[l]
             /\ logins[l].phase = "Minted" => logins'[l] = logins[l]
  BY <1>0, <1>2, <1>3
<1>5. Logins'
  <2>1. Minted' = Minted
    BY <1>2, <1>4 DEF Minted
  <2>2. logins' \in [Login -> LoginRow]
    BY <1>0, <1>2, <1>3
  <2>3. ASSUME NEW l \in Login
        PROVE  /\ logins'[l].phase \in {"Admitted", "Minted"} => logins'[l].user \in Human
               /\ Live(l)' => /\ principals'[logins'[l].user].refreshed <= logins'[l].began
                              /\ principals'[logins'[l].user].epoch = logins'[l].epoch
    BY <1>0, <1>4 DEF IInv, Logins, Live
  <2> QED
    BY <2>1, <2>2, <2>3 DEF IInv, Logins
<1>6. ASSUME NEW j \in Jti
      PROVE  starts'[j] \in StartRow /\ starts'[j].phase \in {"None", "Done"}
             /\ (starts[j].phase = "Done" => starts'[j].phase = "Done")
  BY <1>0, <1>2, <1>3
<1>7. \A q \in Request : requests'[q].phase = "Idle"
  BY <1>0, <1>2
<1>8. SessionShape'
  BY <1>0, <1>2, <1>3 DEF SessionShape
<1>9. Sessions'
  BY <1>0, <1>6, <1>7 DEF Sessions
<1>10. Ends'
  <2>1. \A j \in Jti : Fenced(j)'
    BY <1>7 DEF Fenced
  <2>2. \A l \in Login : <<"login", l>> \in ended' => logins'[l].phase = "Minted" /\ logins'[l].revoked
    BY <1>0, <1>4 DEF IInv, Ends
  <2>3. \A j \in Jti : <<"agent", j>> \in ended' => starts'[j].phase = "Done" /\ j \notin agents' \cup ending'
    BY <1>0, <1>6 DEF IInv, Ends
  <2> QED
    BY <2>1, <2>2, <2>3 DEF Ends
<1> QED
  BY <1>1, <1>5, <1>8, <1>9, <1>10 DEF IInv

-----------------------------------------------------------------------------
(* The first start. *)
LEMMA InitIInv == Init => IInv
<1> SUFFICES ASSUME Init PROVE IInv
  OBVIOUS
<1>1. /\ config \in Config
      /\ lifecycle = [revision |-> 1, source_revision |-> 0, source_digest |-> NoBatch,
                      suspended |-> FALSE]
      /\ subjects = [h \in Human |-> NoSubject] /\ principals = [h \in Human |-> NoPrincipal]
      /\ applied = <<>> /\ acks = {} /\ ended = {}
  BY DEF Init
<1>2. /\ logins = [l \in Login |-> NoLogin] /\ starts = [j \in Jti |-> NoStart]
      /\ delegations = [j \in Jti |-> NoDelegation] /\ requests = [q \in Request |-> Idle]
      /\ agents = {} /\ ending = {} /\ failed = {} /\ review = NoReview
  BY DEF Init
<1>3. /\ NoSubject \in SubjectRow /\ ~NoSubject.active
      /\ NoPrincipal \in PrincipalRow /\ NoPrincipal.disabled /\ NoPrincipal.refreshed = 0
      /\ NoLogin \in LoginRow /\ NoLogin.phase = "None"
      /\ NoStart \in StartRow /\ NoStart.phase = "None"
      /\ NoDelegation \in DelegationRow /\ NoDelegation.approved_by = NoOne
      /\ Idle \in RequestRow /\ Idle.phase = "Idle"
  BY DEF NoSubject, SubjectRow, NoPrincipal, PrincipalRow, NoLogin, LoginRow, NoStart, StartRow,
         NoDelegation, DelegationRow, Idle, RequestRow
<1>4. /\ lifecycle \in Lifecycle /\ lifecycle.revision = 1 /\ lifecycle.source_revision = 0
      /\ lifecycle.source_digest = NoBatch
  BY <1>1 DEF Lifecycle
<1>5. applied \in Seq(Batch) /\ Len(applied) = 0 /\ DOMAIN applied = {}
  BY <1>1
<1>6. Directory
  <2>1. DirectoryShape
    BY <1>1, <1>3, <1>4, <1>5 DEF DirectoryShape
  <2>2. Listed /\ Counted /\ ReceiptsAgree
    BY <1>1, <1>3, <1>4, <1>5 DEF Listed, Counted, ReceiptsAgree
  <2>3. ManagedAdmission
    BY <1>1, <1>3, <1>5 DEF ManagedAdmission
  <2> QED
    BY <2>1, <2>2, <2>3 DEF Directory
<1>7. Logins
  <2>1. Minted = {}
    BY <1>2, <1>3 DEF Minted
  <2> QED
    BY <1>2, <1>3, <2>1, FS_EmptySet DEF Logins, Live
<1>8. Delegations
  BY <1>2, <1>3 DEF Delegations
<1>9. SessionShape
  BY <1>2, <1>3 DEF SessionShape
<1>10. Sessions /\ Ends
  BY <1>1, <1>2, <1>3 DEF Sessions, Ends
<1> QED
  BY <1>6, <1>7, <1>8, <1>9, <1>10 DEF IInv

(* Every step keeps the invariant. *)
LEMMA NextIInv == IInv /\ [Next]_vars => IInv'
<1> SUFFICES ASSUME IInv, [Next]_vars PROVE IInv'
  OBVIOUS
<1>1. CASE UNCHANGED vars
  <2>1. UNCHANGED <<config, lifecycle, subjects, principals, delegations, logins, starts, agents,
                    ending, failed, review, requests, applied, acks, ended>>
    BY <1>1 DEF vars, durable, history
  <2>2. review' \in ReviewRow \cup {NoReview}
    BY <2>1 DEF IInv, SessionShape
  <2> QED
    BY <2>1, <2>2, ReviewStep
<1>2. ASSUME NEW b \in Batch, ApplyBatch(b) \/ RepeatBatch(b) PROVE IInv'
  BY <1>2, ApplyStep, RepeatStep
<1>3. ASSUME NEW l \in Login, LoginStart(l) \/ LoginMint(l) \/ \E h \in Human : LoginAdmit(l, h)
      PROVE  IInv'
  BY <1>3, LoginStartStep, LoginMintStep, LoginAdmitStep
<1>4. CASE Logout
  BY <1>4, LogoutStep
<1>5. ASSUME NEW actor \in Human, NEW target \in Human, NEW roles \in Asked, RoleAsk(actor, target, roles)
      PROVE  IInv'
  BY <1>5, RoleAskStep
<1>6. CASE RoleApply \/ RoleDrop
  BY <1>6, RoleApplyStep, RoleDropStep
<1>7. ASSUME NEW j \in Jti,
             \/ \E h \in Human : StartAsk(j, h)
             \/ \E by \in Approver, l \in Login : StartCheck(j, by, l)
             \/ StartRecord(j) \/ StartInsert(j) \/ StartFail(j)
      PROVE  IInv'
  BY <1>7, StartAskStep, StartCheckStep, StartRecordStep, StartInsertStep, StartFailStep
<1>8. ASSUME NEW j \in Jti, EndRemove(j) \/ EndRevoke(j) PROVE IInv'
  BY <1>8, EndRemoveStep, EndRevokeStep
<1>9. ASSUME NEW q \in Request, Dispatch(q) \/ RequestEnds(q) \/ \E j \in Jti : Resolve(q, j)
      PROVE  IInv'
  BY <1>9, DispatchStep, RequestEndsStep, ResolveStep
<1>10. CASE Stop
  BY <1>10, StopStep
<1>11. ASSUME NEW c \in Config, StartUp(c) PROVE IInv'
  BY <1>11, StartUpStep
<1> QED
  BY <1>1, <1>2, <1>3, <1>4, <1>5, <1>6, <1>7, <1>8, <1>9, <1>10, <1>11 DEF Next

(* The invariant holds of every reachable state. *)
LEMMA RuntimeInvariant == Spec => []IInv
<1> QED
  BY InitIInv, NextIInv, PTL DEF Spec

(* What the source was told is what happened: however often and in whatever *)
(* order batches are sent, repeated and restarted over, every receipt names *)
(* the one batch applied under that revision (apply_lifecycle).             *)
THEOREM ReceiptsTrue == Spec => []ReceiptsAgree
<1>1. IInv => ReceiptsAgree
  BY DEF IInv, Directory
<1> QED
  BY <1>1, RuntimeInvariant, PTL

(* Nobody is enabled whom the directory does not currently provision, and a *)
(* tombstone is final (refresh_subject, configure_lifecycle).               *)
THEOREM OnlyProvisioned == Spec => []ManagedAdmission
<1>1. IInv => ManagedAdmission
  BY DEF IInv, Directory
<1> QED
  BY <1>1, RuntimeInvariant, PTL

(* Only the fence lets a request leave. *)
LEMMA LeavesByDispatch ==
    ASSUME IInv, Next, NEW q \in Request, Leaves(q)
    PROVE  Dispatch(q)
<1>0. requests \in [Request -> RequestRow]
  BY DEF IInv, SessionShape
<1>1. requests'[q] # requests[q] /\ requests'[q].phase = "Dispatched"
  BY DEF Leaves
<1>2. requests' # requests
  BY <1>1
<1>3. \/ \E p \in Request : \/ Dispatch(p) \/ RequestEnds(p)
                            \/ \E j \in Jti : Resolve(p, j)
      \/ Stop
  BY <1>2 DEF Next, ApplyBatch, RepeatBatch, LoginStart, LoginAdmit, LoginMint, Logout, RoleAsk,
              RoleApply, RoleDrop, StartAsk, StartCheck, StartRecord, StartInsert, StartFail,
              EndRemove, EndRevoke, StartUp
<1>4. CASE Stop
  <2>1. requests'[q] = Idle
    BY <1>4 DEF Stop
  <2> QED
    BY <1>1, <2>1 DEF Idle
<1>5. ASSUME NEW p \in Request, NEW row, requests' = [requests EXCEPT ![p] = row],
             row.phase # "Dispatched"
      PROVE  FALSE
  <2>1. requests'[q] = IF q = p THEN row ELSE requests[q]
    BY <1>0, <1>5
  <2> QED
    BY <1>1, <1>5, <2>1
<1>7. ASSUME NEW p \in Request, RequestEnds(p) PROVE FALSE
  <2>1. requests' = [requests EXCEPT ![p] = Idle]
    BY <1>7 DEF RequestEnds
  <2>2. Idle.phase # "Dispatched"
    BY DEF Idle
  <2> QED
    BY <2>1, <2>2, <1>5
<1>8. ASSUME NEW p \in Request, NEW j \in Jti, Resolve(p, j) PROVE FALSE
  <2> DEFINE row == [phase |-> "Resolved", jti |-> j,
                     roles |-> principals[delegations[j].sub].roles]
  <2>1. requests' = [requests EXCEPT ![p] = row]
    BY <1>8 DEF Resolve
  <2>2. row.phase # "Dispatched"
    OBVIOUS
  <2> HIDE DEF row
  <2> QED
    BY <2>1, <2>2, <1>5
<1>6. ASSUME NEW p \in Request, Dispatch(p) PROVE p = q
  <2>1. requests' = [requests EXCEPT ![p].phase = "Dispatched"]
    BY <1>6 DEF Dispatch
  <2>2. p # q => requests'[q] = requests[q]
    BY <1>0, <2>1
  <2> QED
    BY <1>1, <2>2
<1> QED
  BY <1>3, <1>4, <1>6, <1>7, <1>8

(* What the fence checks, of a known delegation. *)
LEMMA FenceFacts ==
    ASSUME IInv, NEW q \in Request, Dispatch(q), NEW j, j = requests[q].jti
    PROVE  /\ j \in Jti /\ j \notin failed /\ ~delegations[j].revoked
           /\ delegations[j].login \in Login /\ delegations[j].sub \in Human
           /\ Live(delegations[j].login) /\ logins[delegations[j].login].user = delegations[j].sub
           /\ requests[q].phase = "Resolved"
BY DEF Dispatch, IInv, Sessions, Known

(* A request leaves only if nothing about its subject has changed since the *)
(* login it derives from was begun and minted, and its approver's authority *)
(* is the one under which the delegation was recorded                       *)
(* (create_human_session_at_revision, invalidate, with_scope_authority).    *)
THEOREM NothingRevives == Spec => NoRevival
<1> DEFINE Fresh(q) == LET d == delegations[requests[q].jti]
                           l == logins[d.login]
                       IN  /\ principals[d.sub].refreshed <= l.began
                           /\ principals[d.sub].epoch = l.epoch
                           /\ d.approved_by # NoOne => principals[d.approved_by].epoch = d.witness
<1>1. IInv /\ [Next]_vars => [\A q \in Request : Leaves(q) => Fresh(q)]_vars
  <2> SUFFICES ASSUME IInv, Next, NEW q \in Request, Leaves(q) PROVE Fresh(q)
    OBVIOUS
  <2>1. Dispatch(q)
    BY LeavesByDispatch
  <2>2. PICK j : j = requests[q].jti
    OBVIOUS
  <2>3. PICK l : l = delegations[j].login
    OBVIOUS
  <2>4. /\ j \in Jti /\ ~delegations[j].revoked /\ l \in Login /\ Live(l)
        /\ logins[l].user = delegations[j].sub
    BY <2>1, <2>2, <2>3, FenceFacts
  <2>5. /\ principals[delegations[j].sub].refreshed <= logins[l].began
        /\ principals[delegations[j].sub].epoch = logins[l].epoch
    BY <2>4 DEF IInv, Logins
  <2>6. delegations[j].approved_by # NoOne =>
          principals[delegations[j].approved_by].epoch = delegations[j].witness
    BY <2>4 DEF IInv, Delegations
  <2> QED
    BY <2>2, <2>3, <2>5, <2>6
<1> QED
  BY <1>1, RuntimeInvariant, PTL DEF Spec, NoRevival

(* Once agent_session_end or logout has answered, nothing leaves under that *)
(* session or login, also for requests already under way and also when the  *)
(* durable revocation failed (revoke_delegation).                           *)
THEOREM EndsFinal == Spec => EndIsFinal
<1> DEFINE Open(q) == LET j == requests[q].jti
                      IN  /\ <<"agent", j>> \notin ended
                          /\ <<"login", delegations[j].login>> \notin ended
<1>1. IInv /\ [Next]_vars => [\A q \in Request : Leaves(q) => Open(q)]_vars
  <2> SUFFICES ASSUME IInv, Next, NEW q \in Request, Leaves(q) PROVE Open(q)
    OBVIOUS
  <2>1. Dispatch(q)
    BY LeavesByDispatch
  <2>2. PICK j : j = requests[q].jti
    OBVIOUS
  <2>3. PICK l : l = delegations[j].login
    OBVIOUS
  <2>4. /\ j \in Jti /\ j \notin failed /\ ~delegations[j].revoked /\ l \in Login /\ Live(l)
        /\ requests[q].phase = "Resolved"
    BY <2>1, <2>2, <2>3, FenceFacts
  <2>5. <<"agent", j>> \notin ended
    BY <2>2, <2>4 DEF IInv, Ends, Fenced
  <2>6. <<"login", l>> \notin ended
    BY <2>4 DEF IInv, Ends, Live
  <2> QED
    BY <2>2, <2>3, <2>5, <2>6
<1> QED
  BY <1>1, RuntimeInvariant, PTL DEF Spec, EndIsFinal
=============================================================================
