-------------------------- MODULE McpGatewayProofs --------------------------
(* Theorems about McpGateway, for any invocations, concurrent calls,        *)
(* bundles, rules and limits.                                               *)
EXTENDS McpGateway, TLAPS

-----------------------------------------------------------------------------
(* Shapes. *)

Action == [contract : Bundle, rule : Rule, expires_at : Nat, kind : Kind, size : Size \cup {0}]

Record == [state : {"absent", "reviewing", "reserved", "cancelled", "revoked",
                    "accepted", "rejected", "unknown"},
           attempt_charged : BOOLEAN, revoked : BOOLEAN,
           projection_validated : {"none", "no", "yes"},
           dispatch_status : {"none", "not_attempted", "attempt_uncertain", "attempted"},
           response : BOOLEAN, action : Action]

(* The steps of a call: before its charge, up to its send, and after it. *)
Uncharged == {"review", "prompt", "witness", "context", "admit", "reserve"}
Unsent == {"admission", "connect", "precheck", "barrier", "recheck", "fence"}
Returning == {"screen", "outcome", "current", "disclose"}
Fences == {"admission", "fence", "screen", "disclose"}
Approved == {"witness", "context", "admit", "reserve"} \cup Unsent

Outcome == {"accepted", "rejected", "tool_error", "unknown"}

RunPc == {"idle", "claim", "sent", "settle", "seal"} \cup Uncharged \cup Unsent
         \cup Returning

RunRecord == [pc : RunPc, id : Invocation, action : Action, gen : Nat, held : BOOLEAN,
              outcome : Outcome \cup {"none"}, output : {"none", "fields", "hash"}]

Types ==
    /\ records \in [Invocation -> Record]
    /\ registry \in Bundle
    /\ open \in BOOLEAN
    /\ bundle \in Bundle
    /\ clock \in Nat
    /\ policy \in [rule : Rule, gen : Nat]
    /\ requester \in BOOLEAN
    /\ run \in [Run -> RunRecord]
    /\ prompts \in [Invocation -> Nat]
    /\ reviewed \in [Invocation -> SUBSET Nat]
    /\ audit \in [Invocation -> {"none", "queued", "durable"}]
    /\ wire \subseteq Invocation
    /\ effects \in [Invocation -> Nat]

-----------------------------------------------------------------------------
(* The inductive invariant. *)

(* A call that has claimed its invocation. *)
Working(x) == x.pc \notin {"idle", "claim"}

(* What decode asks of a row besides its length. *)
Shaped(r) ==
    /\ (r.dispatch_status # "none") = Pinned(r.action)
    /\ (r.projection_validated # "none") = Projected(r.action)
    /\ r.projection_validated = "yes" => r.state = "accepted"
    /\ Pinned(r.action) => ~r.response
    /\ r.attempt_charged = (r.state \in ChargedState)

(* A row, the reviews and the effects of its invocation. *)
RowOK(r, asked, done, sent) ==
    /\ r.state # "absent" => Shaped(r)
    /\ r.state = "absent" => ~r.attempt_charged /\ asked = 0
    /\ done + (IF sent THEN 1 ELSE 0) <= 1
    /\ asked <= 1
    /\ r.state = "reserved" => r.dispatch_status # "not_attempted"
    /\ ~r.attempt_charged \/ r.dispatch_status = "not_attempted" => done = 0 /\ ~sent

(* A call and the row of its invocation. *)
RunOK(x, r, asked, done, sent) ==
    /\ x.held => x.pc \in Fences
    /\ Working(x) => r.state # "absent" /\ r.action = x.action
    /\ x.pc = "review" => asked = 0
    /\ x.pc \in Uncharged => ~r.attempt_charged
    /\ x.pc \in Unsent => r.state = "reserved" /\ done = 0 /\ ~sent
    /\ x.pc \in {"sent", "settle"} => r.state = "reserved"
    /\ x.pc = "settle" =>
          /\ x.outcome \in Outcome
          /\ x.outcome = "rejected" => done = 0 /\ ~sent
          /\ x.output = "fields" => x.outcome = "accepted" /\ Projected(x.action)
          /\ x.output = "hash" => ~Pinned(x.action)
    /\ x.pc \in Returning =>
          r.state \in Final /\ (x.output = "hash" => r.response)

(* The authority a call carries: its generation, its rule, its review and   *)
(* the audit of its start; what it holds across a fence is still so.        *)
AuthorityOK(x, approvals, started) ==
    /\ x.pc # "idle" => x.gen <= policy.gen
    /\ Working(x) /\ x.gen = policy.gen => x.action.rule = policy.rule
    /\ x.held => x.gen = policy.gen /\ PolicyAllows /\ GateHolds
    /\ x.pc \in Approved => x.gen \in approvals
    /\ x.pc \in {"recheck", "fence"} => started = "durable"

Rows == \A i \in Invocation : RowOK(records[i], prompts[i], effects[i], i \in wire)

Runs == \A w \in Run :
    LET i == run[w].id
    IN  RunOK(run[w], records[i], prompts[i], effects[i], i \in wire)

Authority == \A w \in Run :
    AuthorityOK(run[w], reviewed[run[w].id], audit[run[w].id])

(* An invocation is worked on by one call, and by none while nothing serves. *)
Owners ==
    /\ \A w, v \in Run :
          Working(run[w]) /\ Working(run[v]) /\ run[w].id = run[v].id => w = v
    /\ ~open => \A w \in Run : run[w].pc = "idle"

IInv == Types /\ Rows /\ Runs /\ Authority /\ Owners

-----------------------------------------------------------------------------
(* Shapes of what the operators return. *)

(* The action of no call has the shape of an action. *)
LEMMA NoActionType == NoAction \in Action
<1>1. /\ (CHOOSE b \in Bundle : TRUE) \in Bundle
      /\ (CHOOSE p \in Rule : TRUE) \in Rule
      /\ (CHOOSE k \in Kind : TRUE) \in Kind
  BY NonEmptyAssumption
<1> QED
  BY <1>1 DEF NoAction, Action

(* The absent row has the shape of a row, and nothing is charged to it. *)
LEMMA NoRecordType ==
    NoRecord \in Record /\ NoRecord.state = "absent" /\ ~NoRecord.attempt_charged
    /\ NoRecord.response = FALSE
BY NoActionType DEF NoRecord, Record

(* A call before execute_mcp has the shape of a call. *)
LEMMA IdleType == Idle \in RunRecord /\ Idle.pc = "idle" /\ ~Idle.held
<1>1. (CHOOSE i \in Invocation : TRUE) \in Invocation
  BY NonEmptyAssumption
<1> QED
  BY <1>1, NoActionType DEF Idle, RunRecord, RunPc, Outcome

(* Reading the registry leaves a signed bundle in it. *)
LEMMA AppliedType == Types => Applied \in Bundle
BY DEF Types, Applied

(* A row that is read has its shape. *)
LEMMA DecodeFacts == \A r : Decode(r) <=> Fits(r) /\ Shaped(r)
BY DEF Decode, Shaped

(* An interrupted row is settled, and as charged as before. *)
LEMMA InterruptedFacts ==
    ASSUME NEW r \in Record, Shaped(r)
    PROVE  LET q == Interrupted(r) IN
           /\ q \in Record /\ Shaped(q)
           /\ q.state = "absent" <=> r.state = "absent"
           /\ q.attempt_charged = r.attempt_charged
           /\ q.dispatch_status = r.dispatch_status
           /\ q.state # "reserved"
BY DEF Interrupted, Record, Shaped, Final, ChargedState

-----------------------------------------------------------------------------
(* Steps of one call. *)

(* Everything but the row and the history of i stays. *)
Untouched(i) ==
    \A j \in Invocation \ {i} :
       /\ records'[j] = records[j] /\ prompts'[j] = prompts[j]
       /\ effects'[j] = effects[j] /\ (j \in wire' <=> j \in wire)
       /\ reviewed'[j] = reviewed[j] /\ audit'[j] = audit[j]

(* A step of a call keeps the invariant when it keeps it for the call and   *)
(* its own invocation, on which no other call works.                        *)
LEMMA OwnStep ==
    ASSUME IInv, Types', NEW w \in Run, NEW i \in Invocation, NEW x \in RunRecord,
           \A v \in Run \ {w} : Working(run[v]) => run[v].id # i,
           run' = [run EXCEPT ![w] = x], run[w].pc # "idle",
           IF x.pc = "idle" THEN ~x.held ELSE x.id = i /\ Working(x),
           Untouched(i), open' = open, policy' = policy, gate' = gate, requester' = requester,
           RowOK(records'[i], prompts'[i], effects'[i], i \in wire'),
           x.pc # "idle" => RunOK(x, records'[i], prompts'[i], effects'[i], i \in wire'),
           x.pc # "idle" => AuthorityOK(x, reviewed'[i], audit'[i])
    PROVE  IInv'
<1>0. /\ run \in [Run -> RunRecord] /\ run'[w] = x
      /\ \A v \in Run \ {w} : run'[v] = run[v]
      /\ \A v \in Run : run[v] \in RunRecord /\ run[v].id \in Invocation
  BY DEF IInv, Types, RunRecord
<1>1. Rows'
  BY DEF IInv, Rows, Untouched
<1>2. ASSUME NEW v \in Run, v # w, Working(run[v])
      PROVE  run[v].id # i
  BY <1>2
<1>3. Runs'
  <2>1. ASSUME NEW v \in Run
        PROVE  LET j == run'[v].id
               IN  RunOK(run'[v], records'[j], prompts'[j], effects'[j], j \in wire')
    <3>1. CASE v = w /\ x.pc # "idle"
      BY <1>0, <3>1
    <3>2. CASE v = w /\ x.pc = "idle"
      BY <1>0, <3>2 DEF RunOK, Working, Uncharged, Unsent, Returning
    <3>3. CASE v # w /\ Working(run[v])
      BY <1>0, <1>2, <3>3 DEF IInv, Runs, Untouched
    <3>4. CASE v # w /\ ~Working(run[v])
      <4>1. RunOK(run[v], records[run[v].id], prompts[run[v].id], effects[run[v].id], run[v].id \in wire)
        BY DEF IInv, Runs
      <4> QED
        BY <1>0, <3>4, <4>1 DEF RunOK, Working, Uncharged, Unsent, Returning
    <3> QED
      BY <3>1, <3>2, <3>3, <3>4
  <2> QED
    BY <2>1 DEF Runs
<1>4. Authority'
  <2>1. ASSUME NEW v \in Run
        PROVE  AuthorityOK(run'[v], reviewed'[run'[v].id], audit'[run'[v].id])
    <3>1. CASE v = w /\ x.pc # "idle"
      BY <1>0, <3>1
    <3>2. CASE v = w /\ x.pc = "idle"
      BY <1>0, <3>2 DEF AuthorityOK, Working, Approved, Unsent
    <3>3. CASE v # w /\ Working(run[v])
      BY <1>0, <1>2, <3>3 DEF IInv, Authority, Untouched
    <3>4. CASE v # w /\ ~Working(run[v])
      <4>1. AuthorityOK(run[v], reviewed[run[v].id], audit[run[v].id])
        BY DEF IInv, Authority
      <4> QED
        BY <1>0, <3>4, <4>1 DEF AuthorityOK, Working, Approved, Unsent
    <3> QED
      BY <3>1, <3>2, <3>3, <3>4
  <2>2. \A v \in Run : AuthorityOK(run[v], reviewed[run[v].id], audit[run[v].id])'
    BY <2>1 DEF AuthorityOK, PolicyAllows, GateHolds
  <2> QED
    BY <2>2 DEF Authority
<1>5. Owners'
  BY <1>0, <1>2 DEF IInv, Owners, Working
<1> QED
  BY <1>1, <1>3, <1>4, <1>5 DEF IInv

(* A working call owns its invocation. *)
LEMMA LocalStep ==
    ASSUME IInv, Types', NEW w \in Run, NEW i \in Invocation, NEW x \in RunRecord,
           Working(run[w]), run[w].id = i,
           run' = [run EXCEPT ![w] = x],
           IF x.pc = "idle" THEN ~x.held ELSE x.id = i /\ Working(x),
           Untouched(i), open' = open, policy' = policy, gate' = gate, requester' = requester,
           RowOK(records'[i], prompts'[i], effects'[i], i \in wire'),
           x.pc # "idle" => RunOK(x, records'[i], prompts'[i], effects'[i], i \in wire'),
           x.pc # "idle" => AuthorityOK(x, reviewed'[i], audit'[i])
    PROVE  IInv'
<1>1. \A v \in Run \ {w} : Working(run[v]) => run[v].id # i
  BY DEF IInv, Owners
<1>2. run[w].pc # "idle"
  BY DEF Working
<1> QED
  BY <1>1, <1>2, OwnStep

(* What a call that is moved on keeps. *)
SameCall(x, w) ==
    x.id = run[w].id /\ x.action = run[w].action /\ x.gen = run[w].gen

(* A step that changes nothing of the ledger and the world but the registry. *)
LEMMA MoveStep ==
    ASSUME IInv, NEW w \in Run, NEW x \in RunRecord, Working(run[w]), Working(x),
           run' = [run EXCEPT ![w] = x], SameCall(x, w),
           registry' \in Bundle,
           UNCHANGED <<records, open, authorityVars, historyVars, worldVars>>,
           LET i == run[w].id
           IN  /\ RunOK(x, records[i], prompts[i], effects[i], i \in wire)
               /\ AuthorityOK(x, reviewed[i], audit[i])
    PROVE  IInv'
<1>0. run[w].id \in Invocation
  BY DEF IInv, Types, RunRecord
<1>1. Types'
  BY DEF IInv, Types, authorityVars, historyVars, worldVars
<1>2. RowOK(records[run[w].id], prompts[run[w].id], effects[run[w].id], run[w].id \in wire)
  BY <1>0 DEF IInv, Rows
<1>3. Untouched(run[w].id)
  BY DEF Untouched, historyVars, worldVars
<1> QED
  BY <1>0, <1>1, <1>2, <1>3, LocalStep DEF SameCall, Working, authorityVars, historyVars, worldVars

(* What the invariant says of one call. *)
LEMMA RunFacts ==
    ASSUME IInv, NEW w \in Run
    PROVE  LET i == run[w].id IN
           /\ run[w] \in RunRecord /\ i \in Invocation
           /\ RunOK(run[w], records[i], prompts[i], effects[i], i \in wire)
           /\ AuthorityOK(run[w], reviewed[i], audit[i])
           /\ RowOK(records[i], prompts[i], effects[i], i \in wire)
           /\ records[i] \in Record /\ prompts[i] \in Nat /\ effects[i] \in Nat
BY DEF IInv, Types, RunRecord, Runs, Authority, Rows

(* Goto as an update of the one call. *)
LEMMA GotoFacts ==
    ASSUME IInv, NEW w \in Run, NEW pc \in RunPc, Goto(w, pc)
    PROVE  LET x == [run[w] EXCEPT !.pc = pc] IN
           /\ run' = [run EXCEPT ![w] = x]
           /\ x \in RunRecord /\ x.pc = pc /\ SameCall(x, w)
           /\ x.held = run[w].held /\ x.outcome = run[w].outcome /\ x.output = run[w].output
BY DEF IInv, Types, Goto, RunRecord, RunPc, SameCall

(* Unlock as an update of the one call. *)
LEMMA UnlockFacts ==
    ASSUME IInv, NEW w \in Run, NEW pc \in RunPc, Unlock(w, pc)
    PROVE  LET x == [run[w] EXCEPT !.pc = pc, !.held = FALSE] IN
           /\ run' = [run EXCEPT ![w] = x]
           /\ x \in RunRecord /\ x.pc = pc /\ SameCall(x, w)
           /\ x.held = FALSE /\ x.outcome = run[w].outcome /\ x.output = run[w].output
<1> DEFINE x == [run[w] EXCEPT !.pc = pc, !.held = FALSE]
<1>0. run \in [Run -> RunRecord] /\ run[w] \in RunRecord
  BY DEF IInv, Types
<1>1. /\ x \in RunRecord /\ x.pc = pc /\ SameCall(x, w)
      /\ x.held = FALSE /\ x.outcome = run[w].outcome /\ x.output = run[w].output
  BY <1>0 DEF RunRecord, SameCall
<1>2. run' = [run EXCEPT ![w] = x]
  BY <1>0 DEF Unlock
<1> QED
  BY <1>1, <1>2

(* Rejected as an update of the one call. *)
LEMMA RejectedFacts ==
    ASSUME IInv, NEW w \in Run, run' = Rejected(w)
    PROVE  LET x == [run[w] EXCEPT !.pc = "settle", !.held = FALSE,
                                   !.outcome = "rejected", !.output = "none"] IN
           /\ run' = [run EXCEPT ![w] = x]
           /\ x \in RunRecord /\ x.pc = "settle" /\ SameCall(x, w)
           /\ x.held = FALSE /\ x.outcome = "rejected" /\ x.output = "none"
<1> DEFINE x == [run[w] EXCEPT !.pc = "settle", !.held = FALSE,
                               !.outcome = "rejected", !.output = "none"]
<1>0. run \in [Run -> RunRecord] /\ run[w] \in RunRecord
  BY DEF IInv, Types
<1>1. /\ x \in RunRecord /\ x.pc = "settle" /\ SameCall(x, w)
      /\ x.held = FALSE /\ x.outcome = "rejected" /\ x.output = "none"
  BY <1>0 DEF RunRecord, SameCall, RunPc, Outcome
<1>2. run' = [run EXCEPT ![w] = x]
  BY <1>0 DEF Rejected
<1> QED
  BY <1>1, <1>2

(* A step that only moves a call on to pc; the ways the code does. *)
LEMMA GotoStep ==
    ASSUME IInv, NEW w \in Run, NEW pc \in RunPc, Goto(w, pc), registry' \in Bundle,
           UNCHANGED <<records, open, authorityVars, historyVars, worldVars>>,
           ~run[w].held,
           \/ pc = "seal" /\ Working(run[w])
           \/ run[w].pc = "witness" /\ pc = "context"
           \/ run[w].pc = "context" /\ pc = "admit"
           \/ run[w].pc = "admit" /\ pc = "reserve"
           \/ run[w].pc = "connect" /\ pc = "precheck"
           \/ run[w].pc = "recheck" /\ pc = "fence"
           \/ run[w].pc = "outcome" /\ pc = "current"
           \/ run[w].pc = "current" /\ pc = "disclose"
    PROVE  IInv'
<1> DEFINE x == [run[w] EXCEPT !.pc = pc]
           i == run[w].id
<1>1. /\ run' = [run EXCEPT ![w] = x]
      /\ x \in RunRecord /\ x.pc = pc /\ SameCall(x, w)
      /\ x.held = run[w].held /\ x.outcome = run[w].outcome /\ x.output = run[w].output
  BY GotoFacts
<1> HIDE DEF x
<1>2. Working(run[w]) /\ Working(x)
  BY <1>1 DEF Working
<1>3. RunOK(x, records[i], prompts[i], effects[i], i \in wire)
  BY <1>1, <1>2, RunFacts DEF RunOK, SameCall, Uncharged, Unsent, Returning, Working
<1>4. AuthorityOK(x, reviewed[i], audit[i])
  BY <1>1, <1>2, RunFacts DEF AuthorityOK, SameCall, Approved, Unsent, Working
<1> QED
  BY <1>1, <1>2, <1>3, <1>4, MoveStep

(* A call given up before its send is settled as rejected. *)
LEMMA RejectedStep ==
    ASSUME IInv, NEW w \in Run, run' = Rejected(w), registry' \in Bundle,
           UNCHANGED <<records, open, authorityVars, historyVars, worldVars>>,
           run[w].pc \in Unsent
    PROVE  IInv'
<1> DEFINE x == [run[w] EXCEPT !.pc = "settle", !.held = FALSE,
                               !.outcome = "rejected", !.output = "none"]
           i == run[w].id
<1>1. /\ run' = [run EXCEPT ![w] = x]
      /\ x \in RunRecord /\ x.pc = "settle" /\ SameCall(x, w)
      /\ x.held = FALSE /\ x.outcome = "rejected" /\ x.output = "none"
  BY RejectedFacts
<1> HIDE DEF x
<1>2. Working(run[w]) /\ Working(x)
  BY <1>1 DEF Working, Unsent
<1>3. RunOK(x, records[i], prompts[i], effects[i], i \in wire)
  BY <1>1, <1>2, RunFacts
     DEF RunOK, SameCall, Uncharged, Unsent, Returning, Working, Outcome
<1>4. AuthorityOK(x, reviewed[i], audit[i])
  BY <1>1, <1>2, RunFacts DEF AuthorityOK, SameCall, Approved, Unsent, Working
<1> QED
  BY <1>1, <1>2, <1>3, <1>4, MoveStep

(* A call leaves its fence. *)
LEMMA UnlockStep ==
    ASSUME IInv, NEW w \in Run, NEW pc \in RunPc, Unlock(w, pc), registry' \in Bundle,
           UNCHANGED <<records, open, authorityVars, historyVars, worldVars>>,
           \/ run[w].pc = "admission" /\ pc = "connect"
           \/ run[w].pc = "screen" /\ pc = "outcome"
           \/ run[w].pc = "disclose" /\ pc = "seal"
    PROVE  IInv'
<1> DEFINE x == [run[w] EXCEPT !.pc = pc, !.held = FALSE]
           i == run[w].id
<1>1. /\ run' = [run EXCEPT ![w] = x]
      /\ x \in RunRecord /\ x.pc = pc /\ SameCall(x, w)
      /\ x.held = FALSE /\ x.outcome = run[w].outcome /\ x.output = run[w].output
  BY UnlockFacts
<1> HIDE DEF x
<1>2. Working(run[w]) /\ Working(x)
  BY <1>1 DEF Working
<1>3. RunOK(x, records[i], prompts[i], effects[i], i \in wire)
  BY <1>1, <1>2, RunFacts DEF RunOK, SameCall, Uncharged, Unsent, Returning, Working
<1>4. AuthorityOK(x, reviewed[i], audit[i])
  BY <1>1, <1>2, RunFacts DEF AuthorityOK, SameCall, Approved, Unsent, Working
<1> QED
  BY <1>1, <1>2, <1>3, <1>4, MoveStep

(* A refused fence rejects the call, or withholds its result. *)
LEMMA RefusalStep ==
    ASSUME IInv, NEW w \in Run, run' = Refusal(w), registry' \in Bundle,
           UNCHANGED <<records, open, authorityVars, historyVars, worldVars>>,
           run[w].pc \in Fences
    PROVE  IInv'
<1> DEFINE i == run[w].id
<1>1. CASE run[w].pc \in {"admission", "fence"}
  <2>1. run' = Rejected(w)
    BY <1>1 DEF Refusal
  <2> QED
    BY <1>1, <2>1, RejectedStep DEF Unsent
<1>2. ASSUME NEW pc \in {"outcome", "seal"},
             run' = [run EXCEPT ![w].pc = pc, ![w].held = FALSE, ![w].output = "none"],
             run[w].pc \in {"screen", "disclose"}
      PROVE  IInv'
  <2> DEFINE x == [run[w] EXCEPT !.pc = pc, !.held = FALSE, !.output = "none"]
  <2>0. run \in [Run -> RunRecord] /\ run[w] \in RunRecord
    BY DEF IInv, Types
  <2>1. /\ run' = [run EXCEPT ![w] = x]
        /\ x \in RunRecord /\ x.pc = pc /\ SameCall(x, w)
        /\ x.held = FALSE /\ x.output = "none"
    <3>1. run' = [run EXCEPT ![w] = x]
      BY <1>2, <2>0
    <3>2. /\ x \in RunRecord /\ x.pc = pc /\ SameCall(x, w)
          /\ x.held = FALSE /\ x.output = "none"
      BY <1>2, <2>0 DEF RunRecord, RunPc, SameCall, Returning
    <3> QED
      BY <3>1, <3>2
  <2> HIDE DEF x
  <2>2. Working(run[w]) /\ Working(x)
    BY <1>2, <2>1 DEF Working
  <2>3. RunOK(x, records[i], prompts[i], effects[i], i \in wire)
    BY <1>2, <2>1, <2>2, RunFacts DEF RunOK, SameCall, Uncharged, Unsent, Returning, Working
  <2>4. AuthorityOK(x, reviewed[i], audit[i])
    BY <1>2, <2>1, <2>2, RunFacts DEF AuthorityOK, SameCall, Approved, Unsent, Working
  <2> QED
    BY <2>1, <2>2, <2>3, <2>4, MoveStep
<1>3. CASE run[w].pc = "screen"
  <2>1. run' = [run EXCEPT ![w].pc = "outcome", ![w].held = FALSE, ![w].output = "none"]
    BY <1>3 DEF Refusal
  <2> QED
    BY <1>2, <1>3, <2>1
<1>4. CASE run[w].pc = "disclose"
  <2>1. run' = [run EXCEPT ![w].pc = "seal", ![w].held = FALSE, ![w].output = "none"]
    BY <1>4 DEF Refusal
  <2> QED
    BY <1>2, <1>4, <2>1
<1> QED
  BY <1>1, <1>3, <1>4 DEF Fences

-----------------------------------------------------------------------------
(* The steps of a call that leave the ledger and the world alone. *)

(* Moving on, giving up, leaving a fence. *)
LEMMA QuietRunStep ==
    ASSUME IInv, NEW w \in Run,
           \/ Witness(w) \/ Context(w) \/ Admit(w) \/ Admission(w) \/ Connect(w)
           \/ Recheck(w) \/ Timeout(w) \/ Screen(w) \/ Audited(w) \/ Current(w)
           \/ Disclose(w) \/ Cancel(w)
    PROVE  IInv'
<1>0. /\ run[w].held => run[w].pc \in Fences
      /\ registry \in Bundle /\ Applied \in Bundle
  BY RunFacts, AppliedType DEF RunOK, IInv, Types
<1>1. CASE Witness(w) \/ Context(w) \/ Audited(w) \/ Current(w) \/ Cancel(w)
  <2>1. /\ UNCHANGED <<records, registry, open, authorityVars, historyVars, worldVars>>
        /\ Working(run[w]) /\ run[w].pc \notin Fences
    BY <1>1 DEF Witness, Context, Audited, Current, Cancel, ledgerVars, Working,
                Fences, Awaiting
  <2>2. \/ Goto(w, "seal")
        \/ run[w].pc = "witness" /\ Goto(w, "context")
        \/ run[w].pc = "context" /\ Goto(w, "admit")
        \/ run[w].pc = "outcome" /\ Goto(w, "current")
        \/ run[w].pc = "current" /\ Goto(w, "disclose")
    BY <1>1 DEF Witness, Context, Audited, Current, Cancel, Fail
  <2> QED
    BY <1>0, <2>1, <2>2, GotoStep DEF RunPc, Uncharged, Unsent, Returning
<1>2. CASE Admit(w)
  <2>1. /\ UNCHANGED <<records, open, authorityVars, historyVars, worldVars>>
        /\ registry' \in Bundle /\ Working(run[w]) /\ run[w].pc = "admit"
        /\ Goto(w, "seal") \/ Goto(w, "reserve")
    BY <1>0, <1>2 DEF Admit, Fail, Working
  <2> QED
    BY <1>0, <2>1, GotoStep DEF RunPc, Uncharged, Unsent, Returning, Fences
<1>3. CASE Connect(w) \/ Recheck(w) \/ Timeout(w)
  <2>1. /\ UNCHANGED <<records, registry, open, authorityVars, historyVars, worldVars>>
        /\ run[w].pc \in Unsent /\ run[w].pc \notin Fences
    BY <1>3 DEF Connect, Recheck, Timeout, ledgerVars, Unsent, Fences
  <2>2. \/ run' = Rejected(w)
        \/ run[w].pc = "connect" /\ Goto(w, "precheck")
        \/ run[w].pc = "recheck" /\ Goto(w, "fence")
    BY <1>3 DEF Connect, Recheck, Timeout
  <2> QED
    BY <1>0, <2>1, <2>2, GotoStep, RejectedStep DEF RunPc, Uncharged, Unsent, Returning
<1>4. CASE Admission(w) \/ Screen(w) \/ Disclose(w)
  <2>1. /\ UNCHANGED <<records, registry, open, authorityVars, historyVars, worldVars>>
        /\ run[w].pc \in Fences
    BY <1>4 DEF Admission, Screen, Disclose, ledgerVars, Fences
  <2>2. \/ run' = Refusal(w)
        \/ run[w].pc = "admission" /\ Unlock(w, "connect")
        \/ run[w].pc = "screen" /\ Unlock(w, "outcome")
        \/ run[w].pc = "disclose" /\ Unlock(w, "seal")
    BY <1>4 DEF Admission, Screen, Disclose
  <2> QED
    BY <1>0, <2>1, <2>2, UnlockStep, RefusalStep DEF RunPc, Uncharged, Unsent, Returning
<1> QED
  BY <1>1, <1>2, <1>3, <1>4

(* The first half of a fence: what it finds holds until it is left. *)
LEMMA LockStep ==
    ASSUME IInv, NEW w \in Run, Lock(w)
    PROVE  IInv'
<1>0. /\ registry \in Bundle /\ Applied \in Bundle
      /\ run[w].pc \in Fences
      /\ registry' \in Bundle
      /\ UNCHANGED <<records, open, authorityVars, historyVars, worldVars>>
  BY AppliedType DEF IInv, Types, Lock, Fences
<1>1. CASE run' = Refusal(w)
  BY <1>0, <1>1, RefusalStep
<1>2. CASE run' # Refusal(w)
  <2> DEFINE x == [run[w] EXCEPT !.held = TRUE]
             i == run[w].id
  <2>1. /\ SameGeneration(w) /\ PolicyAllows /\ GateHolds
        /\ run' = [run EXCEPT ![w].held = TRUE]
    BY <1>2 DEF Lock
  <2>2. run \in [Run -> RunRecord] /\ run[w] \in RunRecord
    BY DEF IInv, Types
  <2>3. run' = [run EXCEPT ![w] = x]
    BY <2>1, <2>2
  <2>4. /\ x \in RunRecord /\ x.pc = run[w].pc /\ SameCall(x, w)
        /\ x.held = TRUE /\ x.outcome = run[w].outcome /\ x.output = run[w].output
    BY <2>2 DEF RunRecord, SameCall
  <2> HIDE DEF x
  <2>5. Working(run[w]) /\ Working(x)
    BY <1>0, <2>4 DEF Working, Fences
  <2>6. RunOK(x, records[i], prompts[i], effects[i], i \in wire)
    BY <1>0, <2>4, <2>5, RunFacts DEF RunOK, SameCall, Working
  <2>7. AuthorityOK(x, reviewed[i], audit[i])
    BY <1>0, <2>1, <2>4, <2>5, RunFacts DEF AuthorityOK, SameCall, SameGeneration, Working
  <2> QED
    BY <1>0, <2>3, <2>4, <2>5, <2>6, <2>7, MoveStep
<1> QED
  BY <1>1, <1>2

(* The server's answer is settled as what it tells. *)
LEMMA AnswerStep ==
    ASSUME IInv, NEW w \in Run, Answer(w)
    PROVE  IInv'
<1> DEFINE i == run[w].id
<1>0. /\ run[w].pc = "sent" /\ Working(run[w])
      /\ UNCHANGED <<records, registry, open, authorityVars, historyVars, worldVars>>
      /\ registry' \in Bundle
  BY DEF Answer, ledgerVars, Working, IInv, Types
<1>1. PICK outcome \in Outcome, output \in {"none", "fields", "hash"} :
        /\ run' = [run EXCEPT ![w].pc = "settle", ![w].outcome = outcome, ![w].output = output]
        /\ outcome # "rejected"
        /\ output = "fields" => outcome = "accepted" /\ Projected(run[w].action)
        /\ output = "hash" => ~Pinned(run[w].action)
  BY DEF Answer, Outcome
<1> DEFINE x == [run[w] EXCEPT !.pc = "settle", !.outcome = outcome, !.output = output]
<1>2. run \in [Run -> RunRecord] /\ run[w] \in RunRecord
  BY DEF IInv, Types
<1>3. run' = [run EXCEPT ![w] = x]
  BY <1>1, <1>2
<1>4. /\ x \in RunRecord /\ x.pc = "settle" /\ SameCall(x, w)
      /\ x.held = run[w].held /\ x.outcome = outcome /\ x.output = output
  BY <1>2 DEF RunRecord, RunPc, SameCall
<1> HIDE DEF x
<1>5. Working(x)
  BY <1>4 DEF Working
<1>7. ~run[w].held
  BY <1>0, RunFacts DEF RunOK, Fences
<1>8. RunOK(x, records[i], prompts[i], effects[i], i \in wire)
  BY <1>0, <1>1, <1>4, <1>7, RunFacts
     DEF RunOK, SameCall, Working, Uncharged, Unsent, Returning, Outcome
<1>9. AuthorityOK(x, reviewed[i], audit[i])
  BY <1>0, <1>4, <1>7, RunFacts DEF AuthorityOK, SameCall, Working, Approved, Unsent
<1> QED
  BY <1>0, <1>3, <1>4, <1>5, <1>8, <1>9, MoveStep

(* The steps that write the history of a call: its prompt, its approval,   *)
(* the audit of its start.                                                  *)
LEMMA HistoryStep ==
    ASSUME IInv, NEW w \in Run, Present(w) \/ Answered(w) \/ Precheck(w) \/ Barrier(w)
    PROVE  IInv'
<1> DEFINE i == run[w].id
<1>0. /\ UNCHANGED <<records, registry, open, authorityVars, wire, effects>>
      /\ registry \in Bundle
      /\ run[w].pc \in {"review", "prompt", "precheck", "barrier"}
      /\ Working(run[w])
  BY DEF Present, Answered, Precheck, Barrier, ledgerVars, worldVars, Working, IInv, Types
<1>1. ~run[w].held
  BY <1>0, RunFacts DEF RunOK, Fences
<1>2. CASE UNCHANGED <<prompts, reviewed, audit>>
           /\ (Goto(w, "seal") \/ (run' = Rejected(w) /\ run[w].pc \in Unsent))
  <2>1. UNCHANGED <<historyVars, worldVars>>
    BY <1>0, <1>2 DEF historyVars, worldVars
  <2> QED
    BY <1>0, <1>1, <1>2, <2>1, GotoStep, RejectedStep DEF RunPc
<1>3. ASSUME NEW pc \in {"prompt", "witness", "barrier", "recheck"}, Goto(w, pc),
             prompts' \in [Invocation -> Nat],
             reviewed' \in [Invocation -> SUBSET Nat],
             audit' \in [Invocation -> {"none", "queued", "durable"}],
             \A j \in Invocation \ {i} : /\ prompts'[j] = prompts[j]
                                         /\ reviewed'[j] = reviewed[j]
                                         /\ audit'[j] = audit[j],
             \/ /\ run[w].pc = "review" /\ pc = "prompt"
                /\ prompts'[i] = prompts[i] + 1 /\ UNCHANGED <<reviewed, audit>>
             \/ /\ run[w].pc = "prompt" /\ pc = "witness"
                /\ run[w].gen \in reviewed'[i] /\ UNCHANGED <<prompts, audit>>
             \/ /\ run[w].pc = "precheck" /\ pc = "barrier"
                /\ UNCHANGED <<prompts, reviewed>>
             \/ /\ run[w].pc = "barrier" /\ pc = "recheck"
                /\ audit'[i] = "durable" /\ UNCHANGED <<prompts, reviewed>>
      PROVE  IInv'
  <2> DEFINE x == [run[w] EXCEPT !.pc = pc]
  <2>1. /\ run' = [run EXCEPT ![w] = x]
        /\ x \in RunRecord /\ x.pc = pc /\ SameCall(x, w)
        /\ x.held = run[w].held /\ x.outcome = run[w].outcome /\ x.output = run[w].output
    BY <1>3, GotoFacts DEF RunPc, Uncharged, Unsent
  <2> HIDE DEF x
  <2>2. Working(x)
    BY <1>3, <2>1 DEF Working
  <2>3. Types'
    BY <1>0, <1>3, <2>1 DEF IInv, Types, authorityVars
  <2>4. Untouched(i)
    BY <1>0, <1>3 DEF Untouched
  <2>5. RowOK(records'[i], prompts'[i], effects'[i], i \in wire')
    BY <1>0, <1>3, RunFacts DEF RowOK, RunOK, Working
  <2>6. RunOK(x, records'[i], prompts'[i], effects'[i], i \in wire')
    BY <1>0, <1>1, <1>3, <2>1, <2>2, RunFacts
       DEF RunOK, SameCall, Working, Uncharged, Unsent, Returning
  <2>7. AuthorityOK(x, reviewed'[i], audit'[i])
    BY <1>0, <1>1, <1>3, <2>1, <2>2, RunFacts
       DEF AuthorityOK, SameCall, Working, Approved, Unsent
  <2>8. i \in Invocation /\ x.id = i /\ x.pc # "idle"
    BY <2>1, <2>2, RunFacts DEF SameCall, Working
  <2>9. policy' = policy /\ gate' = gate /\ requester' = requester /\ open' = open
    BY <1>0 DEF authorityVars
  <2> HIDE DEF i
  <2> QED
    BY <1>0, <2>1, <2>2, <2>3, <2>4, <2>5, <2>6, <2>7, <2>8, <2>9, LocalStep DEF i
<1>4. i \in Invocation /\ run[w].gen \in Nat /\ policy.gen \in Nat
  BY RunFacts DEF IInv, Types, RunRecord
<1>5. CASE Present(w)
  <2>1. /\ UNCHANGED <<reviewed, audit>> /\ run[w].pc = "review"
        /\ \/ Goto(w, "prompt") /\ prompts' = [prompts EXCEPT ![i] = @ + 1]
           \/ Goto(w, "seal") /\ UNCHANGED prompts
    BY <1>5 DEF Present, Fail, worldVars
  <2> QED
    BY <1>2, <1>3, <1>4, <2>1 DEF IInv, Types
<1>6. CASE Answered(w)
  <2>1. /\ UNCHANGED <<prompts, audit>> /\ run[w].pc = "prompt"
        /\ \/ /\ Goto(w, "witness") /\ run[w].gen = policy.gen
              /\ reviewed' = [reviewed EXCEPT ![i] = @ \cup {policy.gen}]
           \/ Goto(w, "seal") /\ UNCHANGED reviewed
    BY <1>6 DEF Answered, Fail, worldVars, SameGeneration
  <2> QED
    BY <1>2, <1>3, <1>4, <2>1 DEF IInv, Types
<1>7. CASE Precheck(w) \/ Barrier(w)
  <2>1. /\ UNCHANGED <<prompts, reviewed>> /\ run[w].pc \in Unsent
        /\ \/ /\ run[w].pc = "precheck" /\ Goto(w, "barrier")
              /\ audit' = [audit EXCEPT ![i] = "queued"]
           \/ /\ run[w].pc = "barrier" /\ Goto(w, "recheck")
              /\ audit' = [audit EXCEPT ![i] = "durable"]
           \/ run' = Rejected(w) /\ UNCHANGED audit
    BY <1>7 DEF Precheck, Barrier, historyVars, Unsent
  <2> QED
    BY <1>2, <1>3, <1>4, <2>1 DEF IInv, Types
<1> QED
  BY <1>5, <1>6, <1>7

(* The call is sent, once. *)
LEMMA FenceStep ==
    ASSUME IInv, NEW w \in Run, Fence(w)
    PROVE  IInv'
<1> DEFINE i == run[w].id
<1>0. /\ UNCHANGED <<records, registry, open, authorityVars, historyVars, audit, effects>>
      /\ run[w].pc = "fence" /\ Working(run[w]) /\ registry \in Bundle
  BY DEF Fence, ledgerVars, Working, IInv, Types
<1>1. CASE run' = Refusal(w) /\ UNCHANGED wire
  BY <1>0, <1>1, RefusalStep DEF Fences, worldVars
<1>2. CASE Unlock(w, "sent") /\ wire' = wire \cup {i} /\ AuthorizeDispatch(w)
  <2> DEFINE x == [run[w] EXCEPT !.pc = "sent", !.held = FALSE]
  <2>1. /\ run' = [run EXCEPT ![w] = x]
        /\ x \in RunRecord /\ x.pc = "sent" /\ SameCall(x, w)
        /\ x.held = FALSE /\ x.outcome = run[w].outcome /\ x.output = run[w].output
    BY <1>2, UnlockFacts DEF RunPc
  <2> HIDE DEF x
  <2>2. Working(x)
    BY <2>1 DEF Working
  <2>3. i \in Invocation /\ x.id = i
    BY <2>1, RunFacts DEF SameCall
  <2>4. Types'
    BY <1>0, <1>2, <2>1, <2>3 DEF IInv, Types, authorityVars, historyVars
  <2>5. Untouched(i)
    BY <1>0, <1>2, <2>3 DEF Untouched, historyVars
  <2>6. /\ records[i].state = "reserved" /\ effects[i] = 0
        /\ records[i].attempt_charged /\ records[i].dispatch_status # "not_attempted"
    BY <1>0, <1>2, RunFacts DEF AuthorizeDispatch, RunOK, RowOK, Unsent, Shaped, ChargedState
  <2>7. RowOK(records'[i], prompts'[i], effects'[i], i \in wire')
    BY <1>0, <1>2, <2>6, RunFacts DEF RowOK, historyVars
  <2>8. RunOK(x, records'[i], prompts'[i], effects'[i], i \in wire')
    BY <1>0, <1>2, <2>1, <2>2, <2>6, RunFacts
       DEF RunOK, SameCall, Working, Uncharged, Unsent, Returning
  <2>9. AuthorityOK(x, reviewed'[i], audit'[i])
    BY <1>0, <2>1, <2>2, RunFacts DEF AuthorityOK, SameCall, Working, Approved, Unsent, historyVars
  <2>10. policy' = policy /\ gate' = gate /\ requester' = requester /\ open' = open
    BY <1>0 DEF authorityVars
  <2> QED
    BY <1>0, <2>1, <2>2, <2>3, <2>4, <2>5, <2>7, <2>8, <2>9, <2>10, LocalStep DEF Working
<1> QED
  BY <1>1, <1>2 DEF Fence

(* The charge of the only attempt. *)
LEMMA ReserveStep ==
    ASSUME IInv, NEW w \in Run, Reserve(w)
    PROVE  IInv'
<1> DEFINE i == run[w].id
           q == [records[i] EXCEPT !.state = "reserved", !.attempt_charged = TRUE,
                    !.dispatch_status = IF @ = "none" THEN @ ELSE "attempt_uncertain"]
<1>0. /\ UNCHANGED <<registry, open, authorityVars, historyVars, worldVars>>
      /\ run[w].pc = "reserve" /\ Working(run[w]) /\ registry \in Bundle
  BY DEF Reserve, Working, IInv, Types
<1>1. ~run[w].held
  BY <1>0, RunFacts DEF RunOK, Fences
<1>2. CASE Goto(w, "seal") /\ UNCHANGED records
  BY <1>0, <1>1, <1>2, GotoStep DEF RunPc
<1>3. CASE /\ Active(i, run[w].action) /\ records[i].state = "reviewing"
           /\ Save(i, q) /\ Goto(w, "admission")
  <2> DEFINE x == [run[w] EXCEPT !.pc = "admission"]
  <2>1. /\ run' = [run EXCEPT ![w] = x]
        /\ x \in RunRecord /\ x.pc = "admission" /\ SameCall(x, w)
        /\ x.held = run[w].held /\ x.outcome = run[w].outcome /\ x.output = run[w].output
    BY <1>3, GotoFacts DEF RunPc, Unsent
  <2> HIDE DEF x
  <2>2. Working(x)
    BY <2>1 DEF Working
  <2>3. i \in Invocation /\ x.id = i /\ records \in [Invocation -> Record]
    BY <2>1, RunFacts DEF SameCall, IInv, Types
  <2>4. /\ q \in Record /\ q.state = "reserved" /\ q.attempt_charged = TRUE
        /\ q.action = records[i].action /\ q.revoked = records[i].revoked
        /\ q.projection_validated = records[i].projection_validated
        /\ q.response = records[i].response
        /\ q.dispatch_status # "not_attempted"
        /\ q.dispatch_status = "none" <=> records[i].dispatch_status = "none"
    <3>1. PICK d : d = IF records[i].dispatch_status = "none" THEN "none" ELSE "attempt_uncertain"
      OBVIOUS
    <3>2. records[i] \in Record /\ q = [records[i] EXCEPT !.state = "reserved", !.attempt_charged = TRUE,
                                                        !.dispatch_status = d]
      BY <2>3, <3>1 DEF Record
    <3>3. d # "not_attempted" /\ (d = "none" <=> records[i].dispatch_status = "none")
      BY <3>1
    <3>4. q.dispatch_status = d
      BY <3>2 DEF Record
    <3>5. q \in Record
      BY <3>1, <3>2 DEF Record
    <3> QED
      BY <3>2, <3>3, <3>4, <3>5 DEF Record
  <2> HIDE DEF q
  <2>5. records' = [records EXCEPT ![i] = q] /\ records'[i] = q
    BY <1>3, <2>3 DEF Save
  <2>6. Shaped(records[i]) /\ ~records[i].attempt_charged
    BY <1>0, <1>3, RunFacts, DecodeFacts DEF Active, Load, RunOK, Uncharged
  <2>7. Shaped(q)
    BY <1>3, <2>4, <2>6 DEF Shaped, ChargedState, Final
  <2>8. effects[i] = 0 /\ i \notin wire
    BY <2>6, RunFacts DEF RowOK
  <2>9. Types'
    BY <1>0, <2>1, <2>3, <2>4, <2>5 DEF IInv, Types, authorityVars, historyVars, worldVars
  <2>10. Untouched(i)
    BY <1>0, <2>3, <2>5 DEF Untouched, historyVars, worldVars
  <2>11. RowOK(records'[i], prompts'[i], effects'[i], i \in wire')
    BY <1>0, <2>4, <2>5, <2>7, <2>8, RunFacts DEF RowOK, historyVars, worldVars
  <2>12. RunOK(x, records'[i], prompts'[i], effects'[i], i \in wire')
    BY <1>0, <1>1, <2>1, <2>2, <2>4, <2>5, <2>8, RunFacts
       DEF RunOK, SameCall, Working, Uncharged, Unsent, Returning, historyVars, worldVars
  <2>13. AuthorityOK(x, reviewed'[i], audit'[i])
    BY <1>0, <1>1, <2>1, <2>2, RunFacts
       DEF AuthorityOK, SameCall, Working, Approved, Unsent, historyVars, worldVars
  <2>14. policy' = policy /\ gate' = gate /\ requester' = requester /\ open' = open
    BY <1>0 DEF authorityVars
  <2> QED
    BY <1>0, <2>1, <2>2, <2>3, <2>9, <2>10, <2>11, <2>12, <2>13, <2>14, LocalStep DEF Working
<1> QED
  BY <1>2, <1>3 DEF Reserve, Fail

(* The outcome is written over the charge. *)
LEMMA FinishStep ==
    ASSUME IInv, NEW w \in Run, Finish(w)
    PROVE  IInv'
<1> DEFINE i == run[w].id
           o == run[w].outcome
           pinned == Pinned(records[i].action)
           projected == Projected(records[i].action)
           q == [records[i] EXCEPT
                   !.state = IF o = "tool_error" THEN "rejected" ELSE o,
                   !.response = run[w].output = "hash",
                   !.projection_validated =
                      IF ~projected THEN @ ELSE IF run[w].output = "fields" THEN "yes" ELSE "no",
                   !.dispatch_status =
                      IF ~pinned THEN @
                      ELSE IF o = "rejected" THEN "not_attempted" ELSE "attempted"]
<1>0. /\ UNCHANGED <<registry, open, authorityVars, historyVars, worldVars>>
      /\ run[w].pc = "settle" /\ Working(run[w]) /\ registry \in Bundle
  BY DEF Finish, Working, IInv, Types
<1>1. ~run[w].held
  BY <1>0, RunFacts DEF RunOK, Fences
<1>2. CASE Goto(w, "seal") /\ UNCHANGED records
  BY <1>0, <1>1, <1>2, GotoStep DEF RunPc
<1>3. ASSUME NEW pc \in {"outcome", "screen"}, Goto(w, pc), Save(i, q), Load(i)
      PROVE  IInv'
  <2> DEFINE x == [run[w] EXCEPT !.pc = pc]
  <2>1. /\ run' = [run EXCEPT ![w] = x]
        /\ x \in RunRecord /\ x.pc = pc /\ SameCall(x, w)
        /\ x.held = run[w].held /\ x.outcome = run[w].outcome /\ x.output = run[w].output
    BY <1>3, GotoFacts DEF RunPc, Returning
  <2> HIDE DEF x
  <2>2. Working(x)
    BY <1>3, <2>1 DEF Working
  <2>3. /\ i \in Invocation /\ x.id = i /\ records \in [Invocation -> Record]
        /\ records[i] \in Record
    BY <2>1, RunFacts DEF SameCall, IInv, Types
  <2>4. /\ o \in Outcome /\ records[i].action = run[w].action /\ records[i].state = "reserved"
        /\ o = "rejected" => effects[i] = 0 /\ i \notin wire
        /\ run[w].output = "fields" => o = "accepted" /\ projected
        /\ run[w].output = "hash" => ~pinned
        /\ Shaped(records[i])
    BY <1>0, <1>3, RunFacts, DecodeFacts DEF RunOK, Working, Load
  <2>5. /\ q \in Record
        /\ q.state = (IF o = "tool_error" THEN "rejected" ELSE o)
        /\ q.attempt_charged = records[i].attempt_charged
        /\ q.action = records[i].action
        /\ q.response = (run[w].output = "hash")
        /\ q.projection_validated = (IF ~projected THEN records[i].projection_validated
                                     ELSE IF run[w].output = "fields" THEN "yes" ELSE "no")
        /\ q.dispatch_status = (IF ~pinned THEN records[i].dispatch_status
                                ELSE IF o = "rejected" THEN "not_attempted" ELSE "attempted")
    <3>1. PICK st, pv, ds, rs :
             /\ st = (IF o = "tool_error" THEN "rejected" ELSE o)
             /\ pv = (IF ~projected THEN records[i].projection_validated
                      ELSE IF run[w].output = "fields" THEN "yes" ELSE "no")
             /\ ds = (IF ~pinned THEN records[i].dispatch_status
                      ELSE IF o = "rejected" THEN "not_attempted" ELSE "attempted")
             /\ rs = (run[w].output = "hash")
      OBVIOUS
    <3>2. /\ st \in {"accepted", "rejected", "unknown"} /\ rs \in BOOLEAN
          /\ pv \in {"none", "no", "yes"}
          /\ ds \in {"none", "not_attempted", "attempt_uncertain", "attempted"}
      BY <2>3, <2>4, <3>1 DEF Record, Outcome
    <3>3. q = [records[i] EXCEPT !.state = st, !.response = rs, !.projection_validated = pv,
                                 !.dispatch_status = ds]
      BY <2>3, <3>1 DEF Record
    <3> HIDE DEF q
    <3>4. PICK r \in Record : r = records[i]
      BY <2>3
    <3>5. q = [r EXCEPT !.state = st, !.response = rs, !.projection_validated = pv,
                        !.dispatch_status = ds]
      BY <3>3, <3>4
    <3>6. /\ q.state = st /\ q.attempt_charged = r.attempt_charged /\ q.action = r.action
          /\ q.response = rs /\ q.projection_validated = pv /\ q.dispatch_status = ds
      BY <3>5 DEF Record
    <3>7. q \in Record
      BY <3>2, <3>5 DEF Record
    <3> QED
      BY <3>1, <3>4, <3>6, <3>7
  <2> HIDE DEF q
  <2>6. records' = [records EXCEPT ![i] = q] /\ records'[i] = q
    BY <1>3, <2>3 DEF Save
  <2>7. records[i].attempt_charged = TRUE
    BY <2>4 DEF Shaped, ChargedState
  <2>8. Shaped(q) /\ q.state \in Final
    BY <2>4, <2>5, <2>7 DEF Shaped, ChargedState, Final, Outcome
  <2>9. Types'
    BY <1>0, <2>1, <2>3, <2>5, <2>6 DEF IInv, Types, authorityVars, historyVars, worldVars
  <2>10. Untouched(i)
    BY <1>0, <2>3, <2>6 DEF Untouched, historyVars, worldVars
  <2>11. q.dispatch_status = "not_attempted" => effects[i] = 0 /\ i \notin wire
    BY <2>4, <2>5, RunFacts DEF RowOK
  <2>12. RowOK(records'[i], prompts'[i], effects'[i], i \in wire')
    BY <1>0, <2>4, <2>5, <2>6, <2>7, <2>8, <2>11, RunFacts
       DEF RowOK, historyVars, worldVars, Outcome, Final
  <2>13. RunOK(x, records'[i], prompts'[i], effects'[i], i \in wire')
    BY <1>0, <1>1, <1>3, <2>1, <2>2, <2>4, <2>5, <2>6, <2>8
       DEF RunOK, SameCall, Working, Uncharged, Unsent, Returning, Final
  <2>14. AuthorityOK(x, reviewed'[i], audit'[i])
    BY <1>0, <1>1, <1>3, <2>1, <2>2, RunFacts
       DEF AuthorityOK, SameCall, Working, Approved, Unsent, historyVars, worldVars
  <2>15. policy' = policy /\ gate' = gate /\ requester' = requester /\ open' = open
    BY <1>0 DEF authorityVars
  <2> QED
    BY <1>0, <2>1, <2>2, <2>3, <2>9, <2>10, <2>12, <2>13, <2>14, <2>15, LocalStep DEF Working
<1> QED
  BY <1>2, <1>3 DEF Finish, Fail

(* The guards of a call settle what it leaves. *)
LEMMA SealStep ==
    ASSUME IInv, NEW w \in Run, Seal(w)
    PROVE  IInv'
<1> DEFINE i == run[w].id
           q == Interrupted(records[i])
<1>0. /\ UNCHANGED <<registry, open, authorityVars, historyVars, worldVars>>
      /\ Working(run[w]) /\ run' = [run EXCEPT ![w] = Idle]
  BY DEF Seal, Working
<1>1. /\ i \in Invocation /\ records \in [Invocation -> Record] /\ records[i] \in Record
      /\ RowOK(records[i], prompts[i], effects[i], i \in wire)
      /\ prompts[i] \in Nat /\ effects[i] \in Nat
  BY RunFacts DEF IInv, Types
<1>2. /\ Untouched(i) /\ records' \in [Invocation -> Record]
      /\ RowOK(records'[i], prompts'[i], effects'[i], i \in wire')
  <2>1. CASE Load(i)
    <3>1. /\ q \in Record /\ Shaped(q)
          /\ q.state = "absent" <=> records[i].state = "absent"
          /\ q.attempt_charged = records[i].attempt_charged
          /\ q.dispatch_status = records[i].dispatch_status
          /\ q.state # "reserved"
      BY <1>1, <2>1, InterruptedFacts, DecodeFacts DEF Load
    <3> HIDE DEF q
    <3>2. records' = [records EXCEPT ![i] = q]
      BY <2>1 DEF Seal, Save, q
    <3>3. records' \in [Invocation -> Record] /\ records'[i] = q /\ Untouched(i)
      BY <1>0, <1>1, <3>1, <3>2 DEF Untouched, historyVars, worldVars
    <3> QED
      BY <1>0, <1>1, <3>1, <3>3 DEF RowOK, historyVars, worldVars
  <2>2. CASE ~Load(i)
    BY <1>0, <1>1, <2>2 DEF Seal, Untouched, historyVars, worldVars
  <2> QED
    BY <2>1, <2>2
<1>3. Types'
  BY <1>0, <1>2, IdleType DEF IInv, Types, authorityVars, historyVars, worldVars
<1>4. policy' = policy /\ gate' = gate /\ requester' = requester /\ open' = open
  BY <1>0 DEF authorityVars
<1> QED
  BY <1>0, <1>1, <1>2, <1>3, <1>4, IdleType, LocalStep

(* The registry, the bundle file and the clock are not in the invariant. *)
LEMMA StillStep ==
    ASSUME IInv, registry' \in Bundle, bundle' \in Bundle, clock' \in Nat,
           UNCHANGED <<records, open, policy, gate, requester, run, prompts, reviewed,
                       audit, wire, effects>>
    PROVE  IInv'
<1>1. Types' /\ Rows' /\ Runs' /\ Owners'
  BY DEF IInv, Types, Rows, Runs, Owners
<1>2. Authority'
  BY DEF IInv, Authority, AuthorityOK, PolicyAllows, GateHolds
<1> QED
  BY <1>1, <1>2 DEF IInv

(* A call that has claimed nothing changes nothing for the others. *)
LEMMA RestStep ==
    ASSUME IInv, NEW w \in Run, NEW x \in RunRecord, ~Working(x), ~x.held,
           x.gen <= policy.gen, open, run' = [run EXCEPT ![w] = x], registry' \in Bundle,
           UNCHANGED <<records, open, authorityVars, historyVars, worldVars>>
    PROVE  IInv'
<1>0. /\ run \in [Run -> RunRecord] /\ run'[w] = x
      /\ \A v \in Run \ {w} : run'[v] = run[v]
  BY DEF IInv, Types
<1>1. Types' /\ Rows'
  BY DEF IInv, Types, Rows, authorityVars, historyVars, worldVars
<1>2. Runs'
  <2>1. ASSUME NEW v \in Run
        PROVE  LET j == run'[v].id
               IN  RunOK(run'[v], records[j], prompts[j], effects[j], j \in wire)
    <3>1. CASE v = w
      BY <1>0, <3>1 DEF RunOK, Working, Uncharged, Unsent, Returning
    <3>2. CASE v # w
      BY <1>0, <3>2 DEF IInv, Runs
    <3> QED
      BY <3>1, <3>2
  <2> QED
    BY <2>1 DEF Runs, historyVars, worldVars
<1>3. Authority'
  <2>1. ASSUME NEW v \in Run
        PROVE  AuthorityOK(run'[v], reviewed[run'[v].id], audit[run'[v].id])
    <3>1. CASE v = w
      BY <1>0, <3>1 DEF AuthorityOK, Working, Approved, Unsent
    <3>2. CASE v # w
      BY <1>0, <3>2 DEF IInv, Authority
    <3> QED
      BY <3>1, <3>2
  <2>2. \A v \in Run : AuthorityOK(run[v], reviewed[run[v].id], audit[run[v].id])'
    BY <2>1 DEF AuthorityOK, PolicyAllows, GateHolds, authorityVars, historyVars, worldVars
  <2> QED
    BY <2>2 DEF Authority
<1>4. Owners'
  BY <1>0 DEF IInv, Owners
<1> QED
  BY <1>1, <1>2, <1>3, <1>4 DEF IInv

(* A call prepares its action, or finds no registry. *)
LEMMA StartStep ==
    ASSUME IInv, NEW w \in Run, NEW i \in Invocation, NEW kind \in Kind,
           NEW size \in Size \cup {0}, Start(w, i, kind, size)
    PROVE  IInv'
<1> DEFINE a == [contract |-> bundle, rule |-> NoAction.rule, expires_at |-> Expiry,
                 kind |-> kind, size |-> size]
           x == [Idle EXCEPT !.pc = "claim", !.id = i, !.gen = policy.gen, !.action = a]
<1>0. /\ open /\ run[w].pc = "idle" /\ registry' \in Bundle
      /\ UNCHANGED <<records, open, authorityVars, historyVars, worldVars>>
      /\ run' = run \/ run' = [run EXCEPT ![w] = x]
  BY AppliedType DEF IInv, Start
<1>1. Expiry \in Nat /\ bundle \in Bundle /\ policy.gen \in Nat
  <2>1. bundle \in Bundle /\ clock \in Nat /\ policy.gen \in Nat
    BY DEF IInv, Types
  <2>2. bundle.expires_at \in Nat /\ Ttl \in Nat
    BY <2>1, BundleAssumption, LimitAssumption
  <2> QED
    BY <2>1, <2>2 DEF Expiry
<1>2. a \in Action
  BY <1>1, NoActionType DEF Action
<1> HIDE DEF a
<1>3. x \in RunRecord /\ x.pc = "claim" /\ x.gen = policy.gen /\ ~x.held
  BY <1>1, <1>2, IdleType DEF RunRecord, RunPc
<1> HIDE DEF x
<1>4. CASE run' = [run EXCEPT ![w] = x]
  <2>1. ~Working(x) /\ x.gen <= policy.gen
    BY <1>1, <1>3 DEF Working
  <2> QED
    BY <1>0, <1>3, <1>4, <2>1, RestStep
<1>5. CASE run' = run
  BY <1>0, <1>5, StillStep DEF IInv, Types, authorityVars, historyVars, worldVars
<1> QED
  BY <1>0, <1>4, <1>5

(* An invocation is claimed, once and for all. *)
LEMMA ClaimStep ==
    ASSUME IInv, NEW w \in Run, Claim(w)
    PROVE  IInv'
<1> DEFINE i == run[w].id
           a == [run[w].action EXCEPT !.rule = policy.rule]
           q == [NoRecord EXCEPT !.state = "reviewing", !.action = a,
                   !.projection_validated = IF Projected(a) THEN "no" ELSE "none",
                   !.dispatch_status = IF Pinned(a) THEN "not_attempted" ELSE "none"]
           x == [run[w] EXCEPT !.pc = "review", !.action = a]
<1>0. /\ UNCHANGED <<registry, open, authorityVars, historyVars, worldVars>>
      /\ run[w].pc = "claim" /\ registry \in Bundle /\ open
  BY DEF Claim, IInv, Types, Owners
<1>1. /\ run \in [Run -> RunRecord] /\ run[w] \in RunRecord /\ i \in Invocation
      /\ policy.rule \in Rule /\ policy.gen \in Nat
      /\ records \in [Invocation -> Record] /\ ~run[w].held /\ run[w].gen \in Nat
      /\ run[w].gen <= policy.gen
  BY <1>0, RunFacts DEF IInv, Types, RunRecord, RunOK, AuthorityOK, Fences
<1>2. CASE run' = [run EXCEPT ![w] = Idle] /\ UNCHANGED records
  <2>1. Idle.gen = 0
    BY DEF Idle
  <2>2. ~Working(Idle) /\ Idle.gen <= policy.gen
    BY <1>1, <2>1, IdleType DEF Working
  <2> QED
    BY <1>0, <1>2, <2>2, IdleType, RestStep
<1>3. CASE /\ ~Claimed(i) /\ Save(i, q)
           /\ run' = [run EXCEPT ![w].pc = "review", ![w].action = a]
  <2>1. a \in Action /\ a.rule = policy.rule
    BY <1>1 DEF RunRecord, Action
  <2> HIDE DEF a
  <2>2. run' = [run EXCEPT ![w] = x]
    BY <1>1, <1>3
  <2>3. /\ x \in RunRecord /\ x.pc = "review" /\ x.action = a /\ x.id = i /\ ~x.held
        /\ x.gen = run[w].gen
    BY <1>1, <2>1 DEF RunRecord, RunPc, Uncharged
  <2> HIDE DEF x
  <2>4. /\ q \in Record /\ q.state = "reviewing" /\ q.action = a /\ ~q.attempt_charged
        /\ q.attempt_charged = FALSE
        /\ q.projection_validated = (IF Projected(a) THEN "no" ELSE "none")
        /\ q.dispatch_status = (IF Pinned(a) THEN "not_attempted" ELSE "none")
        /\ q.response = FALSE
    BY <2>1, NoRecordType DEF Record, NoRecord
  <2> HIDE DEF q
  <2>5. records' = [records EXCEPT ![i] = q] /\ records'[i] = q
    BY <1>1, <1>3 DEF Save
  <2>6. /\ effects[i] = 0 /\ i \notin wire /\ prompts[i] = 0
    BY <1>3, RunFacts DEF RowOK, Claimed
  <2>7. \A v \in Run \ {w} : Working(run[v]) => run[v].id # i
    BY <1>3, RunFacts DEF RunOK, Claimed
  <2>8. Types'
    BY <1>0, <1>1, <2>2, <2>3, <2>4, <2>5 DEF IInv, Types, authorityVars, historyVars, worldVars
  <2>9. Untouched(i)
    BY <1>0, <1>1, <2>5 DEF Untouched, historyVars, worldVars
  <2>10. Shaped(q)
    <3>1. /\ (q.dispatch_status # "none") = Pinned(q.action)
          /\ (q.projection_validated # "none") = Projected(q.action)
          /\ q.projection_validated # "yes"
      BY <2>4 DEF Pinned, Projected
    <3>2. q.attempt_charged = (q.state \in ChargedState)
      <4>1. q.state \notin ChargedState
        BY <2>4 DEF ChargedState, Final
      <4>2. (q.state \in ChargedState) = FALSE
        BY <4>1
      <4>3. q.attempt_charged = FALSE
        BY <2>4
      <4> QED
        BY <4>2, <4>3
    <3> QED
      BY <2>4, <3>1, <3>2 DEF Shaped
  <2>11. RowOK(records'[i], prompts'[i], effects'[i], i \in wire')
    BY <1>0, <2>4, <2>5, <2>6, <2>10 DEF RowOK, historyVars, worldVars
  <2>12. RunOK(x, records'[i], prompts'[i], effects'[i], i \in wire')
    BY <1>0, <2>3, <2>4, <2>5, <2>6
       DEF RunOK, Working, Uncharged, Unsent, Returning, historyVars, worldVars
  <2>13. AuthorityOK(x, reviewed'[i], audit'[i])
    BY <1>1, <2>1, <2>3 DEF AuthorityOK, Approved, Unsent
  <2>14. policy' = policy /\ gate' = gate /\ requester' = requester /\ open' = open
    BY <1>0 DEF authorityVars
  <2> QED
    BY <1>0, <1>1, <2>2, <2>3, <2>7, <2>8, <2>9, <2>11, <2>12, <2>13, <2>14, OwnStep DEF Working
<1> QED
  BY <1>2, <1>3 DEF Claim

-----------------------------------------------------------------------------
(* Steps of the world. *)

(* The row of an invocation is revoked, whoever works on it. *)
LEMMA RevokeStep ==
    ASSUME IInv, NEW i \in Invocation, Revoke(i)
    PROVE  IInv'
<1> DEFINE r == records[i]
           q == [r EXCEPT !.revoked = TRUE, !.state = IF @ = "reviewing" THEN "revoked" ELSE @]
<1>0. /\ UNCHANGED <<open, authorityVars, run, historyVars, worldVars>>
      /\ registry' \in Bundle /\ records' = [records EXCEPT ![i] = q] /\ Shaped(r)
  BY AppliedType, DecodeFacts DEF Revoke, Load, Save, IInv, Types
<1>1. records \in [Invocation -> Record] /\ r \in Record
  BY DEF IInv, Types
<1>2. /\ q \in Record /\ q.action = r.action /\ q.attempt_charged = r.attempt_charged
      /\ q.dispatch_status = r.dispatch_status /\ q.response = r.response
      /\ q.projection_validated = r.projection_validated
      /\ q.state = r.state \/ (r.state = "reviewing" /\ q.state = "revoked")
  BY <1>1 DEF Record
<1> HIDE DEF q
<1>3. /\ records'[i] = q /\ \A j \in Invocation \ {i} : records'[j] = records[j]
      /\ records' \in [Invocation -> Record]
  BY <1>0, <1>1, <1>2
<1>4. Types'
  BY <1>0, <1>3 DEF IInv, Types, authorityVars, historyVars, worldVars
<1>5. Shaped(q)
  BY <1>0, <1>2 DEF Shaped, ChargedState, Final
<1>6. RowOK(q, prompts[i], effects[i], i \in wire)
  <2>1. RowOK(r, prompts[i], effects[i], i \in wire)
    BY DEF IInv, Rows
  <2> QED
    BY <1>2, <1>5, <2>1 DEF RowOK
<1>7. Rows'
  BY <1>0, <1>3, <1>6 DEF IInv, Rows, historyVars, worldVars
<1>8. Runs'
  <2>1. ASSUME NEW w \in Run
        PROVE  LET j == run[w].id
               IN  RunOK(run[w], records'[j], prompts[j], effects[j], j \in wire)
    <3>1. CASE run[w].id = i
      <4>1. RunOK(run[w], r, prompts[i], effects[i], i \in wire)
        BY <3>1 DEF IInv, Runs
      <4> QED
        BY <1>2, <1>3, <3>1, <4>1 DEF RunOK, Final
    <3>2. CASE run[w].id # i
      BY <1>3, <3>2, RunFacts
    <3> QED
      BY <3>1, <3>2
  <2> QED
    BY <1>0, <2>1 DEF Runs, historyVars, worldVars
<1>9. Authority' /\ Owners'
  BY <1>0 DEF IInv, Authority, AuthorityOK, PolicyAllows, GateHolds, Owners, authorityVars,
              historyVars, worldVars
<1> QED
  BY <1>4, <1>7, <1>8, <1>9 DEF IInv

(* The server performs a call that was sent, or drops it. *)
LEMMA ServerStep ==
    ASSUME IInv, NEW i \in Invocation, Server(i)
    PROVE  IInv'
<1>0. /\ UNCHANGED <<records, registry, open, authorityVars, run, historyVars, audit>>
      /\ i \in wire /\ wire' = wire \ {i}
      /\ effects' = [effects EXCEPT ![i] = @ + 1] \/ effects' = effects
  BY DEF Server, ledgerVars
<1>1. /\ effects \in [Invocation -> Nat] /\ prompts[i] \in Nat
      /\ RowOK(records[i], prompts[i], effects[i], TRUE)
  BY <1>0 DEF IInv, Types, Rows
<1>2. effects[i] = 0
  BY <1>1 DEF RowOK
<1>3. /\ effects' \in [Invocation -> Nat] /\ effects'[i] \in {0, 1} /\ i \notin wire'
      /\ \A j \in Invocation \ {i} : effects'[j] = effects[j] /\ (j \in wire' <=> j \in wire)
  BY <1>0, <1>1, <1>2
<1>4. Types'
  BY <1>0, <1>3 DEF IInv, Types, authorityVars, historyVars
<1>5. RowOK(records[i], prompts[i], effects'[i], FALSE)
  BY <1>1, <1>2, <1>3 DEF RowOK
<1>6. Rows'
  <2>1. ASSUME NEW j \in Invocation
        PROVE  RowOK(records[j], prompts[j], effects'[j], j \in wire')
    <3>1. CASE j = i
      BY <1>3, <1>5, <3>1 DEF RowOK
    <3>2. CASE j # i
      BY <1>3, <3>2 DEF IInv, Rows, RowOK
    <3> QED
      BY <3>1, <3>2
  <2> QED
    BY <1>0, <2>1 DEF Rows, historyVars
<1>7. Runs'
  <2>1. ASSUME NEW w \in Run
        PROVE  LET j == run[w].id
               IN  RunOK(run[w], records[j], prompts[j], effects'[j], j \in wire')
    <3>1. CASE run[w].id = i
      <4>1. RunOK(run[w], records[i], prompts[i], effects[i], TRUE)
        BY <1>0, <3>1 DEF IInv, Runs, RunOK
      <4> QED
        BY <1>2, <1>3, <3>1, <4>1 DEF RunOK
    <3>2. CASE run[w].id # i
      BY <1>3, <3>2, RunFacts DEF RunOK
    <3> QED
      BY <3>1, <3>2
  <2> QED
    BY <1>0, <2>1 DEF Runs, historyVars
<1>8. Authority' /\ Owners'
  BY <1>0 DEF IInv, Authority, AuthorityOK, PolicyAllows, GateHolds, Owners, authorityVars,
              historyVars
<1> QED
  BY <1>4, <1>6, <1>7, <1>8 DEF IInv

(* The policy and the requester change only while no call holds a fence. *)
LEMMA AuthorityStep ==
    ASSUME IInv, SwapPolicy \/ RequesterChanges
    PROVE  IInv'
<1>0. UNCHANGED <<records, registry, open, bundle, clock, gate, run, prompts, reviewed,
                  audit, wire, effects>>
  BY DEF SwapPolicy, RequesterChanges, ledgerVars, historyVars, worldVars
<1>1. Rows' /\ Runs' /\ Owners'
  BY <1>0 DEF IInv, Rows, Runs, Owners
<1>2. CASE SwapPolicy
  <2>1. /\ \A w \in Run : ~run[w].held
        /\ policy'.gen = policy.gen + 1 /\ policy' \in [rule : Rule, gen : Nat]
        /\ policy.gen \in Nat /\ requester' = requester
    BY <1>2 DEF SwapPolicy, IInv, Types
  <2>2. ASSUME NEW w \in Run
        PROVE  AuthorityOK(run[w], reviewed[run[w].id], audit[run[w].id])'
    <3>1. AuthorityOK(run[w], reviewed[run[w].id], audit[run[w].id])
      BY RunFacts
    <3>2. run[w].gen \in Nat /\ run[w] \in RunRecord
      BY RunFacts DEF RunRecord
    <3>3. run[w].pc # "idle" => run[w].gen <= policy'.gen /\ run[w].gen # policy'.gen
      BY <2>1, <3>1, <3>2 DEF AuthorityOK
    <3> QED
      BY <1>0, <2>1, <3>1, <3>3 DEF AuthorityOK, Working
  <2> QED
    BY <1>0, <1>1, <2>1, <2>2 DEF IInv, Types, Authority
<1>3. CASE RequesterChanges
  <2>1. /\ policy' = policy /\ requester' \in BOOLEAN
        /\ gate = "guarded" => \A w \in Run : ~run[w].held
    BY <1>3 DEF RequesterChanges, IInv, Types
  <2>2. ASSUME NEW w \in Run
        PROVE  AuthorityOK(run[w], reviewed[run[w].id], audit[run[w].id])'
    <3>1. AuthorityOK(run[w], reviewed[run[w].id], audit[run[w].id])
      BY RunFacts
    <3> QED
      BY <1>0, <2>1, <3>1 DEF AuthorityOK, PolicyAllows, GateHolds
  <2> QED
    BY <1>0, <1>1, <2>1, <2>2 DEF IInv, Types, Authority
<1> QED
  BY <1>2, <1>3

(* Where no call is under way, only the rows count. *)
LEMMA RestingStep ==
    ASSUME Types', Rows', \A w \in Run : run'[w].pc = "idle" /\ ~run'[w].held
    PROVE  IInv'
<1>1. \A w \in Run : LET i == run'[w].id
                     IN  RunOK(run'[w], records'[i], prompts'[i], effects'[i], i \in wire')
  BY DEF RunOK, Working, Uncharged, Unsent, Returning
<1>2. \A w \in Run : AuthorityOK(run[w], reviewed[run[w].id], audit[run[w].id])'
  BY DEF AuthorityOK, Working, Approved, Unsent
<1>3. Owners'
  BY DEF Owners, Working
<1> QED
  BY <1>1, <1>2, <1>3 DEF IInv, Runs, Authority

(* A crash loses the calls and what the audit had only queued. *)
LEMMA CrashStep ==
    ASSUME IInv, Crash
    PROVE  IInv'
<1>1. Types'
  <2>1. audit' \in [Invocation -> {"none", "queued", "durable"}]
    BY DEF IInv, Types, Crash
  <2>2. run' \in [Run -> RunRecord]
    BY IdleType DEF Crash
  <2> QED
    BY <2>1, <2>2 DEF IInv, Types, Crash, authorityVars, historyVars
<1>2. Rows'
  BY DEF IInv, Rows, Crash, historyVars
<1>3. \A w \in Run : run'[w].pc = "idle" /\ ~run'[w].held
  BY IdleType DEF Crash
<1> QED
  BY <1>1, <1>2, <1>3, RestingStep

(* Opening the ledger settles the rows it gets to. *)
LEMMA RecoverStep ==
    ASSUME IInv, RestartCut \/ Restart
    PROVE  IInv'
<1>0. PICK rows \in SUBSET Invocation : Recover(rows)
  BY DEF RestartCut, Restart
<1>1. /\ UNCHANGED <<bundle, clock, gate, requester, run, prompts, audit, wire, effects>>
      /\ registry' \in Bundle /\ open' \in BOOLEAN /\ ~open
      /\ policy' \in [rule : Rule, gen : Nat]
      /\ reviewed' \in [Invocation -> SUBSET Nat]
  <2>1. CASE RestartCut
    BY <2>1 DEF IInv, Types, RestartCut, authorityVars, historyVars, worldVars
  <2>2. CASE Restart
    <3>1. open' \in BOOLEAN
      BY <2>2 DEF Restart, RegistryLoads
    <3> QED
      BY <2>2, <3>1, AppliedType DEF IInv, Types, Restart, worldVars
  <2> QED
    BY <2>1, <2>2
<1>2. /\ records \in [Invocation -> Record]
      /\ \A i \in Invocation : records[i].state # "absent" => Shaped(records[i])
      /\ records' = [i \in Invocation |-> IF i \in rows THEN Interrupted(records[i])
                                          ELSE records[i]]
  BY <1>0, DecodeFacts DEF IInv, Types, Recover, Claimed
<1>3. ASSUME NEW i \in Invocation
      PROVE  /\ records'[i] \in Record
             /\ RowOK(records'[i], prompts[i], effects[i], i \in wire)
  <2> DEFINE r == records[i]
             q == Interrupted(r)
  <2>0. r \in Record /\ RowOK(r, prompts[i], effects[i], i \in wire)
    BY <1>2 DEF IInv, Rows
  <2>1. CASE records'[i] = r
    BY <2>0, <2>1
  <2>2. CASE records'[i] = q /\ r.state # "absent"
    <3>1. /\ q \in Record /\ Shaped(q)
          /\ q.state = "absent" <=> r.state = "absent"
          /\ q.attempt_charged = r.attempt_charged
          /\ q.dispatch_status = r.dispatch_status
          /\ q.state # "reserved"
      BY <1>2, <2>0, <2>2, InterruptedFacts
    <3> HIDE DEF q
    <3> QED
      BY <2>0, <2>2, <3>1 DEF RowOK
  <2>3. CASE records'[i] = q /\ r.state = "absent"
    <3>1. q = r
      BY <2>3 DEF Interrupted
    <3> QED
      BY <2>0, <2>3, <3>1
  <2> QED
    BY <1>2, <2>1, <2>2, <2>3
<1>4. records' \in [Invocation -> Record]
  BY <1>2, <1>3
<1>5. Types'
  BY <1>1, <1>4 DEF IInv, Types
<1>6. Rows'
  BY <1>1, <1>3 DEF Rows
<1>7. \A w \in Run : run'[w].pc = "idle" /\ ~run'[w].held
  <2>1. ASSUME NEW w \in Run
        PROVE  run[w].pc = "idle" /\ ~run[w].held
    BY <1>1, RunFacts DEF IInv, Owners, RunOK, Fences
  <2> QED
    BY <1>1, <2>1
<1> QED
  BY <1>5, <1>6, <1>7, RestingStep

-----------------------------------------------------------------------------
(* The invariant. *)

(* The gateway starts with no row and no call. *)
LEMMA InitInvariant == Init => IInv
<1> SUFFICES ASSUME Init PROVE IInv
  OBVIOUS
<1>1. Types
  <2>1. records \in [Invocation -> Record] /\ run \in [Run -> RunRecord]
    BY NoRecordType, IdleType DEF Init
  <2>2. clock \in Nat
    BY BundleAssumption DEF Init
  <2> QED
    BY <2>1, <2>2 DEF Init, Types
<1>2. Rows
  BY NoRecordType DEF Init, Rows, RowOK
<1>3. \A w \in Run : run[w].pc = "idle" /\ ~run[w].held
  BY IdleType DEF Init
<1>4. Runs
  BY <1>3 DEF Runs, RunOK, Working, Uncharged, Unsent, Returning
<1>5. Authority
  BY <1>3 DEF Authority, AuthorityOK, Working, Approved, Unsent
<1>6. Owners
  BY <1>3 DEF Owners, Working
<1> QED
  BY <1>1, <1>2, <1>4, <1>5, <1>6 DEF IInv

(* Every step keeps the invariant. *)
LEMMA NextInvariant == IInv /\ [Next]_vars => IInv'
<1> SUFFICES ASSUME IInv, [Next]_vars PROVE IInv'
  OBVIOUS
<1>0. registry \in Bundle /\ bundle \in Bundle /\ clock \in Nat /\ Applied \in Bundle
  BY AppliedType DEF IInv, Types
<1>1. CASE UNCHANGED vars
  BY <1>0, <1>1, StillStep DEF vars, ledgerVars, authorityVars, historyVars, worldVars
<1>2. ASSUME NEW w \in Run, RunStep(w) \/ Cancel(w)
      PROVE  IInv'
  BY <1>2, QuietRunStep, LockStep, AnswerStep, HistoryStep, FenceStep, ReserveStep,
     FinishStep, SealStep, ClaimStep DEF RunStep
<1>3. ASSUME NEW w \in Run, NEW i \in Invocation, NEW kind \in Kind,
             NEW size \in Size \cup {0}, Start(w, i, kind, size)
      PROVE  IInv'
  BY <1>3, StartStep
<1>4. ASSUME NEW i \in Invocation, Revoke(i) \/ Server(i)
      PROVE  IInv'
  BY <1>4, RevokeStep, ServerStep
<1>5. ASSUME NEW i \in Invocation, Get(i)
      PROVE  IInv'
  BY <1>0, <1>5, StillStep DEF Get, authorityVars, historyVars, worldVars
<1>6. CASE Catalog \/ ReplaceBundle \/ SetClock
  <2>1. clock' \in Nat
    BY <1>0, <1>6, LimitAssumption DEF Catalog, ReplaceBundle, SetClock, authorityVars
  <2> QED
    BY <1>0, <1>6, <2>1, StillStep
       DEF Catalog, ReplaceBundle, SetClock, ledgerVars, authorityVars, historyVars, worldVars
<1>7. CASE SwapPolicy \/ RequesterChanges \/ Crash \/ RestartCut \/ Restart
  BY <1>7, AuthorityStep, CrashStep, RecoverStep
<1> QED
  BY <1>1, <1>2, <1>3, <1>4, <1>5, <1>6, <1>7 DEF Next

-----------------------------------------------------------------------------
(* Theorems. *)

(* Whatever is revoked, cancelled, answered late or cut off, the ledger     *)
(* reads again every row it wrote within the limit of decode.               *)
THEOREM RowsReadable == Spec => []LedgerReadable
<1>1. IInv => LedgerReadable
  BY DecodeFacts DEF IInv, Rows, RowOK, LedgerReadable, Claimed
<1> QED
  BY <1>1, InitInvariant, NextInvariant, PTL DEF Spec

(* A bound on the rows of claim that leaves room for an answer is enough    *)
(* for the comment on receipts (mcp/mod.rs): none becomes unavailable.      *)
THEOREM BoundedReceiptsAvailable ==
    ASSUME \A n \in Size : n < RecordLimit
    PROVE  Spec => []ReceiptAvailable
<1>1. IInv => ReceiptAvailable
  <2> SUFFICES ASSUME IInv, open, NEW i \in Invocation, Claimed(i)
               PROVE  Load(i)
    BY DEF ReceiptAvailable
  <2>1. records[i] \in Record /\ Shaped(records[i])
    BY DEF IInv, Types, Rows, RowOK, Claimed
  <2>2. records[i].action.size \in Nat /\ records[i].action.size < RecordLimit
    <3>1. records[i].action.size \in Size \cup {0}
      BY <2>1 DEF Record, Action
    <3>2. \A n \in Size \cup {0} : n \in Nat /\ n < RecordLimit
      <4>1. 0 \in Nat /\ 0 < RecordLimit
        BY SizeAssumption
      <4> QED
        BY <4>1, SizeAssumption
    <3> QED
      BY <3>1, <3>2
  <2>3. Fits(records[i])
    BY <2>2, SizeAssumption DEF Fits, Length
  <2> QED
    BY <2>1, <2>3, DecodeFacts DEF Load
<1> QED
  BY <1>1, InitInvariant, NextInvariant, PTL DEF Spec

(* One invocation id buys one review and one call (claim, reserve).         *)
THEOREM SingleUse == Spec => []CalledAtMostOnce
<1>1. IInv => CalledAtMostOnce
  BY DEF IInv, Rows, RowOK, CalledAtMostOnce
<1> QED
  BY <1>1, InitInvariant, NextInvariant, PTL DEF Spec

(* A receipt never denies a call that was or may be performed (finish,      *)
(* interrupt, open).                                                        *)
THEOREM HonestReceipts == Spec => []ReceiptHonest
<1>1. IInv => ReceiptHonest
  BY DEF IInv, Rows, RowOK, ReceiptHonest
<1> QED
  BY <1>1, InitInvariant, NextInvariant, PTL DEF Spec

(* Only the fence of a call puts something on the wire.                     *)
LEMMA SendStep ==
    ASSUME Next, NEW i \in wire' \ wire
    PROVE  \E w \in Run : Fence(w) /\ run[w].id = i /\ AuthorizeDispatch(w)
<1>1. ASSUME NEW w \in Run, RunStep(w)
      PROVE  Fence(w)
  BY <1>1 DEF RunStep, Claim, Present, Answered, Witness, Context, Admit, Reserve, Lock,
              Admission, Connect, Precheck, Barrier, Recheck, Timeout, Answer, Finish,
              Screen, Audited, Current, Disclose, Seal, worldVars
<1>2. \E w \in Run : Fence(w)
  BY <1>1 DEF Next, Cancel, Start, Revoke, Get, Server, Catalog, ReplaceBundle, SetClock,
              SwapPolicy, RequesterChanges, Crash, RestartCut, Restart, worldVars
<1> QED
  BY <1>2 DEF Fence

(* Authority is whole when a call is sent (final_authority): the ledger's   *)
(* word is fresh, and what the first half of the fence found still holds.   *)
THEOREM DispatchesCovered == Spec => DispatchCovered
<1>1. IInv /\ [Next]_vars => [\A i \in wire' \ wire :
          /\ records[i].state = "reserved"
          /\ ~records[i].revoked
          /\ clock < records[i].action.expires_at
          /\ policy.gen \in reviewed[i]
          /\ PolicyAllows
          /\ GateHolds
          /\ audit[i] = "durable"]_vars
  <2> SUFFICES ASSUME IInv, Next, NEW i \in wire' \ wire
               PROVE  /\ records[i].state = "reserved"
                      /\ ~records[i].revoked
                      /\ clock < records[i].action.expires_at
                      /\ policy.gen \in reviewed[i]
                      /\ PolicyAllows
                      /\ GateHolds
                      /\ audit[i] = "durable"
    BY DEF vars, worldVars
  <2>1. PICK w \in Run : Fence(w) /\ run[w].id = i /\ AuthorizeDispatch(w)
    BY SendStep
  <2>2. run[w].pc = "fence" /\ run[w].held
    BY <2>1 DEF Fence
  <2>3. AuthorityOK(run[w], reviewed[i], audit[i])
    BY <2>1, RunFacts
  <2> QED
    BY <2>1, <2>2, <2>3 DEF AuthorizeDispatch, Active, AuthorityOK, Approved, Unsent
<1> QED
  BY <1>1, InitInvariant, NextInvariant, PTL DEF Spec, DispatchCovered

(* A result leaves by the last fence of its call or by mcp_get.             *)
LEMMA DiscloseStep ==
    ASSUME Next, NEW x \in disclosed' \ disclosed
    PROVE  \/ \E w \in Run : /\ Disclose(w) /\ AuthorizeResult(w)
                            /\ x = <<run[w].id, run[w].output>>
           \/ \E i \in Invocation :
                 /\ x = <<i, "hash">> /\ records[i].response
                 /\ ReadAuthority(records[i]) /\ Active(i, records[i].action)
<1>1. ASSUME NEW w \in Run, RunStep(w)
      PROVE  Disclose(w)
  BY <1>1 DEF RunStep, Claim, Present, Answered, Witness, Context, Admit, Reserve, Lock,
              Admission, Connect, Precheck, Barrier, Recheck, Timeout, Fence, Answer, Finish,
              Screen, Audited, Current, Seal
<1>2. (\E w \in Run : Disclose(w)) \/ (\E i \in Invocation : Get(i))
  BY <1>1 DEF Next, Cancel, Start, Revoke, Server, Catalog, ReplaceBundle, SetClock,
              SwapPolicy, RequesterChanges, Crash, RestartCut, Restart
<1>3. ASSUME NEW w \in Run, Disclose(w)
      PROVE  AuthorizeResult(w) /\ x = <<run[w].id, run[w].output>>
  BY <1>3 DEF Disclose
<1>4. ASSUME NEW i \in Invocation, Get(i)
      PROVE  /\ x = <<i, "hash">> /\ records[i].response
             /\ ReadAuthority(records[i]) /\ Active(i, records[i].action)
  BY <1>4 DEF Get
<1> QED
  BY <1>2, <1>3, <1>4

(* Authority is whole again when a result leaves (execute_mcp, mcp_get).    *)
THEOREM DisclosuresCovered == Spec => DisclosureCovered
<1>1. IInv /\ [Next]_vars => [\A x \in disclosed' \ disclosed :
          LET r == records[x[1]]
          IN  /\ ~r.revoked
              /\ clock < r.action.expires_at
              /\ PolicyAllows /\ policy.rule = r.action.rule
              /\ GateHolds
              /\ x[2] = "fields" => r.state = "accepted" /\ r.projection_validated = "yes"
              /\ x[2] = "hash" => r.response]_vars
  <2> SUFFICES ASSUME IInv, Next, NEW x \in disclosed' \ disclosed
               PROVE  LET r == records[x[1]]
                      IN  /\ ~r.revoked
                          /\ clock < r.action.expires_at
                          /\ PolicyAllows /\ policy.rule = r.action.rule
                          /\ GateHolds
                          /\ x[2] = "fields" => r.state = "accepted" /\ r.projection_validated = "yes"
                          /\ x[2] = "hash" => r.response
    BY DEF vars
  <2>1. ASSUME NEW w \in Run, Disclose(w), AuthorizeResult(w), x = <<run[w].id, run[w].output>>
        PROVE  LET r == records[x[1]]
               IN  /\ ~r.revoked
                   /\ clock < r.action.expires_at
                   /\ PolicyAllows /\ policy.rule = r.action.rule
                   /\ GateHolds
                   /\ x[2] = "fields" => r.state = "accepted" /\ r.projection_validated = "yes"
                   /\ x[2] = "hash" => r.response
    <3>1. x[1] = run[w].id /\ x[2] = run[w].output
      BY <2>1
    <3>2. run[w].pc = "disclose" /\ run[w].held /\ Working(run[w])
      BY <2>1 DEF Disclose, Working
    <3>3. /\ AuthorityOK(run[w], reviewed[x[1]], audit[x[1]])
          /\ RunOK(run[w], records[x[1]], prompts[x[1]], effects[x[1]], x[1] \in wire)
      BY <3>1, RunFacts
    <3>4. /\ PolicyAllows /\ GateHolds /\ policy.rule = records[x[1]].action.rule
          /\ x[2] = "hash" => records[x[1]].response
      BY <3>1, <3>2, <3>3 DEF AuthorityOK, RunOK, Returning
    <3> QED
      BY <2>1, <3>1, <3>4 DEF AuthorizeResult, Active
  <2>2. ASSUME NEW i \in Invocation, x = <<i, "hash">>, records[i].response,
               ReadAuthority(records[i]), Active(i, records[i].action)
        PROVE  LET r == records[x[1]]
               IN  /\ ~r.revoked
                   /\ clock < r.action.expires_at
                   /\ PolicyAllows /\ policy.rule = r.action.rule
                   /\ GateHolds
                   /\ x[2] = "fields" => r.state = "accepted" /\ r.projection_validated = "yes"
                   /\ x[2] = "hash" => r.response
    <3>1. x[1] = i /\ x[2] = "hash"
      BY <2>2
    <3> QED
      BY <2>2, <3>1 DEF ReadAuthority, Active
  <2> QED
    BY <2>1, <2>2, DiscloseStep
<1> QED
  BY <1>1, InitInvariant, NextInvariant, PTL DEF Spec, DisclosureCovered

(* Reading the registry keeps it or applies a later version.                *)
LEMMA AppliedAdvances ==
    ASSUME IInv
    PROVE  Applied # registry => Applied.version > registry.version
BY DEF Applied, RegistryLoads, CheckRollback

(* The applied contract only advances (check_rollback), whoever reads it.   *)
THEOREM ContractAdvances == Spec => RegistryAdvances
<1>1. IInv /\ [Next]_vars =>
        [registry' # registry => registry'.version > registry.version]_vars
  <2> SUFFICES ASSUME IInv, Next
               PROVE  registry' # registry => registry'.version > registry.version
    BY DEF vars, ledgerVars
  <2>1. ASSUME NEW w \in Run, RunStep(w) \/ Cancel(w)
        PROVE  registry' = registry \/ registry' = Applied
    BY <2>1 DEF RunStep, Cancel, Claim, Present, Answered, Witness, Context, Admit, Reserve,
                Lock, Admission, Connect, Precheck, Barrier, Recheck, Timeout, Fence, Answer,
                Finish, Screen, Audited, Current, Disclose, Seal, ledgerVars
  <2>2. registry' = registry \/ registry' = Applied
    BY <2>1 DEF Next, Start, Revoke, Get, Server, Catalog, ReplaceBundle, SetClock,
                SwapPolicy, RequesterChanges, Crash, RestartCut, Restart, ledgerVars
  <2> QED
    BY <2>2, AppliedAdvances
<1> QED
  BY <1>1, InitInvariant, NextInvariant, PTL DEF Spec, RegistryAdvances
=============================================================================
