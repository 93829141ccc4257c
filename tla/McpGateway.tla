------------------------------ MODULE McpGateway ------------------------------
(***************************************************************************)
(* Qualified MCP calls: the single-use invocation ledger                   *)
(* (crates/opaque-bounded-work/src/mcp/store.rs), the gateway over it      *)
(* (mcp/mod.rs, mcp/transport.rs) and Enclave::execute_mcp                 *)
(* (crates/opaqued/src/enclave/mcp.rs), which reviews a call, charges it,  *)
(* sends it once and discloses its result under authority looked at again  *)
(* after every await.                                                      *)
(*                                                                         *)
(* A contract is the signed registry bundle; its digest stands for it.     *)
(* A fence is two steps, because the registry file and the ledger are read *)
(* one after the other; the policy lock and the identity lock are held     *)
(* across both.  The wall clock is a variable that jumps both ways.        *)
(***************************************************************************)
EXTENDS Naturals, FiniteSets

CONSTANTS
    Invocation, \* invocation ids chosen by callers
    Run,        \* concurrent calls of execute_mcp
    Bundle,     \* signed registry bundles: version, issued_at, expires_at, body
    Rule,       \* policy contents
    Allowing,   \* those that allow the call
    Kind,       \* routes: "typed" projects fields, "withheld" shows nothing,
                \* "legacy" (registry version 1) shows hash and size
    Size,       \* sizes of the rows of legacy routes, whose schemas are not bounded
    Gate,       \* "guarded": delegated identity held across a fence; "fixture"
    Ttl,        \* expires_in_secs
    Capacity,   \* rows the ledger may hold, 10000 in the code
    RecordLimit, \* the largest row decode reads, 256 KiB in the code
    MaxTime,    \* bound on the clock
    MaxGen      \* bound on policy replacements

ASSUME BundleAssumption ==
    \A b \in Bundle : /\ b.version \in Nat
                      /\ b.issued_at \in Nat
                      /\ b.expires_at \in 0 .. MaxTime
ASSUME KindAssumption == Kind \subseteq {"typed", "withheld", "legacy"}
ASSUME SizeAssumption == Size \subseteq Nat /\ RecordLimit \in Nat \ {0}
ASSUME GateAssumption == Gate \subseteq {"guarded", "fixture"}
ASSUME LimitAssumption == {Ttl, Capacity, MaxTime, MaxGen} \subseteq Nat /\ Allowing \subseteq Rule
ASSUME NonEmptyAssumption == {} \notin {Invocation, Bundle, Rule, Kind}

VARIABLES
    records,    \* mcp_invocations
    registry,   \* mcp_registry: the bundle last applied
    open,       \* the gateway serves
    bundle,     \* the bundle file
    clock,      \* wall clock
    policy,     \* the rule in force and policy_generation
    gate,
    requester,  \* the requester's context still verifies
    run,        \* the local state of each call
    prompts,    \* how often each invocation was put to a reviewer
    reviewed,   \* the policy generations under which its review approved
    audit,      \* OperationStarted: "none", "queued" or "durable"
    wire,       \* calls sent and not yet decided by the server
    effects,    \* how often the server performed each invocation
    disclosed   \* results that left the broker: <<invocation, what>>

ledgerVars == <<records, registry, open>>
authorityVars == <<bundle, clock, policy, gate, requester>>
historyVars == <<prompts, reviewed>>
worldVars == <<audit, wire, effects>>
vars == <<ledgerVars, authorityVars, run, historyVars, worldVars, disclosed>>

-----------------------------------------------------------------------------
(* The ledger. *)

Final == {"accepted", "rejected", "unknown"}
ChargedState == Final \cup {"reserved"}

NoAction == [contract |-> CHOOSE b \in Bundle : TRUE, rule |-> CHOOSE p \in Rule : TRUE,
             expires_at |-> 0, kind |-> CHOOSE k \in Kind : TRUE, size |-> 0]

NoRecord == [state |-> "absent", attempt_charged |-> FALSE, revoked |-> FALSE,
             projection_validated |-> "none", dispatch_status |-> "none",
             response |-> FALSE, action |-> NoAction]

Claimed(i) == records[i].state # "absent"

(* Registry version 2: upstream_input_schema, and perhaps output_projection. *)
Pinned(a) == a.kind \in {"typed", "withheld"}
Projected(a) == a.kind = "typed"

(* The row holds the route with its schemas, which only version 2 bounds so *)
(* that every row fits.  An answer makes it longer: hash, size and code.    *)
Length(r) == r.action.size + (IF r.state \in {"accepted", "rejected"} THEN 1 ELSE 0)

Fits(r) == Length(r) <= RecordLimit

(* decode: the check of every row that is read. *)
Decode(r) ==
    /\ Fits(r)
    /\ (r.dispatch_status # "none") = Pinned(r.action)
    /\ (r.projection_validated # "none") = Projected(r.action)
    /\ r.projection_validated = "yes" => r.state = "accepted"
    /\ Pinned(r.action) => ~r.response
    /\ r.attempt_charged = (r.state \in ChargedState)

Load(i) == open /\ Claimed(i) /\ Decode(records[i])

Save(i, r) == records' = [records EXCEPT ![i] = r]

(* active: the row is this action's, and it is neither revoked nor expired. *)
Active(i, a) ==
    /\ Load(i)
    /\ records[i].action = a
    /\ ~records[i].revoked
    /\ clock < a.expires_at

(* Mutants: an interrupted charge is forgotten; it is said not to be sent. *)
InterruptedUncharged(r) ==
    IF r.state \in {"reviewing", "reserved"}
    THEN [r EXCEPT !.state = "cancelled"] ELSE r

InterruptedUnsent(r) ==
    IF r.state \in {"reviewing", "reserved"}
    THEN [r EXCEPT !.state = IF r.attempt_charged THEN "unknown" ELSE "cancelled",
                   !.dispatch_status = IF @ = "none" THEN @ ELSE "not_attempted"]
    ELSE r

(* interrupt, and the recovery of a row in open. *)
Interrupted(r) ==
    IF r.state \in {"reviewing", "reserved"}
    THEN [r EXCEPT !.state = IF r.attempt_charged THEN "unknown" ELSE "cancelled"]
    ELSE r

-----------------------------------------------------------------------------
(* The registry.  Mutant: one version may be signed twice. *)

CheckRollbackOnly == bundle.version >= registry.version

(* check_rollback: a later version, or the applied bundle again. *)
CheckRollback == bundle.version > registry.version \/ bundle = registry

(* Gateway::registry: the file verifies now and does not roll back. *)
RegistryLoads == bundle.issued_at <= clock /\ clock < bundle.expires_at /\ CheckRollback

(* Reading the registry applies it, also when the caller then refuses it. *)
Applied == IF RegistryLoads THEN bundle ELSE registry

Revalidates(a) ==
    /\ RegistryLoads
    /\ clock < a.expires_at
    /\ a.contract = bundle

-----------------------------------------------------------------------------
(* The local state of a call. *)

Idle == [pc |-> "idle", id |-> CHOOSE i \in Invocation : TRUE, action |-> NoAction,
         gen |-> 0, held |-> FALSE, outcome |-> "none", output |-> "none"]

Goto(w, pc) == run' = [run EXCEPT ![w].pc = pc]

Fail(w) == Goto(w, "seal")

(* The call was not sent: transport::Outcome::rejected. *)
Rejected(w) == [run EXCEPT ![w].pc = "settle", ![w].held = FALSE,
                           ![w].outcome = "rejected", ![w].output = "none"]

Awaiting == {"review", "prompt", "witness", "context", "connect", "precheck",
             "barrier", "recheck", "sent", "outcome", "current"}

SameGeneration(w) == policy.gen = run[w].gen
PolicyAllows == policy.rule \in Allowing
GateHolds == gate = "guarded" => requester

(* An action expires with its contract at the latest. *)
Expiry == IF bundle.expires_at < clock + Ttl THEN bundle.expires_at ELSE clock + Ttl

(* Gateway::prepare and the policy generation; no await between them. *)
Start(w, i, kind, size) ==
    /\ run[w].pc = "idle"
    /\ open
    /\ registry' = Applied
    /\ run' = IF RegistryLoads
              THEN [run EXCEPT ![w] =
                [Idle EXCEPT !.pc = "claim", !.id = i, !.gen = policy.gen,
                   !.action = [contract |-> bundle, rule |-> NoAction.rule,
                               expires_at |-> Expiry, kind |-> kind, size |-> size]]]
              ELSE run
    /\ UNCHANGED <<records, open, authorityVars, historyVars, worldVars, disclosed>>

(* Mutant: a caller may use an invocation id again. *)
ClaimReusing(w) ==
    LET i == run[w].id
        a == [run[w].action EXCEPT !.rule = policy.rule]
    IN  /\ run[w].pc = "claim"
        /\ IF PolicyAllows /\ clock < a.expires_at
           THEN /\ Save(i, [NoRecord EXCEPT !.state = "reviewing", !.action = a,
                     !.projection_validated = IF Projected(a) THEN "no" ELSE "none",
                     !.dispatch_status = IF Pinned(a) THEN "not_attempted" ELSE "none"])
                /\ run' = [run EXCEPT ![w].pc = "review", ![w].action = a]
           ELSE run' = [run EXCEPT ![w] = Idle] /\ UNCHANGED records
        /\ UNCHANGED <<registry, open, authorityVars, historyVars, worldVars, disclosed>>

(* The policy digest and decision, then the row: an id is used once, ever.  *)
(* Digest and decision are read under separate locks; a swap between them   *)
(* moves the generation, and the review refuses, as after one before them.  *)
Claim(w) ==
    LET i == run[w].id
        a == [run[w].action EXCEPT !.rule = policy.rule]
    IN  /\ run[w].pc = "claim"
        /\ IF /\ PolicyAllows
              /\ clock < a.expires_at
              /\ ~Claimed(i)
              /\ Cardinality({j \in Invocation : Claimed(j)}) < Capacity
           THEN /\ Save(i, [NoRecord EXCEPT !.state = "reviewing", !.action = a,
                     !.projection_validated = IF Projected(a) THEN "no" ELSE "none",
                     !.dispatch_status = IF Pinned(a) THEN "not_attempted" ELSE "none"])
                /\ run' = [run EXCEPT ![w].pc = "review", ![w].action = a]
           ELSE run' = [run EXCEPT ![w] = Idle] /\ UNCHANGED records
        /\ UNCHANGED <<registry, open, authorityVars, historyVars, worldVars, disclosed>>

(* handle_approval: one permit, the generation before and after the prompt. *)
Present(w) ==
    /\ run[w].pc = "review"
    /\ \A v \in Run : run[v].pc # "prompt"
    /\ \/ /\ SameGeneration(w)
          /\ Goto(w, "prompt")
          /\ prompts' = [prompts EXCEPT ![run[w].id] = @ + 1]
       \/ Fail(w) /\ UNCHANGED prompts
    /\ UNCHANGED <<ledgerVars, authorityVars, reviewed, worldVars, disclosed>>

Answered(w) ==
    /\ run[w].pc = "prompt"
    /\ \/ /\ SameGeneration(w)
          /\ Goto(w, "witness")
          /\ reviewed' = [reviewed EXCEPT ![run[w].id] = @ \cup {policy.gen}]
       \/ Fail(w) /\ UNCHANGED reviewed
    /\ UNCHANGED <<ledgerVars, authorityVars, prompts, worldVars, disclosed>>

(* confirm_audit(false): the approval is durable. *)
Witness(w) ==
    /\ run[w].pc = "witness"
    /\ Goto(w, "context") \/ Fail(w)
    /\ UNCHANGED <<ledgerVars, authorityVars, historyVars, worldVars, disclosed>>

Context(w) ==
    /\ run[w].pc = "context"
    /\ IF requester /\ SameGeneration(w) THEN Goto(w, "admit") ELSE Fail(w)
    /\ UNCHANGED <<ledgerVars, authorityVars, historyVars, worldVars, disclosed>>

(* Gateway::execute: revalidate, then charge the only attempt. *)
Admit(w) ==
    /\ run[w].pc = "admit"
    /\ registry' = Applied
    /\ IF Revalidates(run[w].action) THEN Goto(w, "reserve") ELSE Fail(w)
    /\ UNCHANGED <<records, open, authorityVars, historyVars, worldVars, disclosed>>

Reserve(w) ==
    LET i == run[w].id
    IN  /\ run[w].pc = "reserve"
        /\ IF Active(i, run[w].action) /\ records[i].state = "reviewing"
           THEN /\ Save(i, [records[i] EXCEPT !.state = "reserved", !.attempt_charged = TRUE,
                              !.dispatch_status = IF @ = "none" THEN @ ELSE "attempt_uncertain"])
                /\ Goto(w, "admission")
           ELSE Fail(w) /\ UNCHANGED records
        /\ UNCHANGED <<registry, open, authorityVars, historyVars, worldVars, disclosed>>

(* What a refused fence leaves: before the send the call is rejected, after *)
(* it the result is withheld.                                               *)
Refusal(w) ==
    CASE run[w].pc \in {"admission", "fence"} -> Rejected(w)
      [] run[w].pc = "screen"   -> [run EXCEPT ![w].pc = "outcome", ![w].held = FALSE,
                                               ![w].output = "none"]
      [] run[w].pc = "disclose" -> [run EXCEPT ![w].pc = "seal", ![w].held = FALSE,
                                               ![w].output = "none"]

(* First half of a fence: policy, identity and registry. *)
Lock(w) ==
    LET held == SameGeneration(w) /\ PolicyAllows /\ GateHolds
    IN  /\ run[w].pc \in {"admission", "fence", "screen", "disclose"}
        /\ ~run[w].held
        /\ registry' = IF held THEN Applied ELSE registry
        /\ run' = IF held /\ Revalidates(run[w].action)
                  THEN [run EXCEPT ![w].held = TRUE] ELSE Refusal(w)
        /\ UNCHANGED <<records, open, authorityVars, historyVars, worldVars, disclosed>>

Unlock(w, pc) == run' = [run EXCEPT ![w].pc = pc, ![w].held = FALSE]

(* authorize_dispatch, authorize_disclosure and authorize_result. *)
AuthorizeDispatch(w) ==
    Active(run[w].id, run[w].action) /\ records[run[w].id].state = "reserved"

AuthorizeResult(w) ==
    LET r == records[run[w].id]
    IN  /\ Active(run[w].id, run[w].action)
        /\ IF run[w].output = "fields"
           THEN r.state = "accepted" /\ r.projection_validated = "yes"
           ELSE r.state \in Final

(* Second half: the ledger.  Before the credential is read. *)
Admission(w) ==
    /\ run[w].pc = "admission" /\ run[w].held
    /\ IF AuthorizeDispatch(w) THEN Unlock(w, "connect") ELSE run' = Refusal(w)
    /\ UNCHANGED <<ledgerVars, authorityVars, historyVars, worldVars, disclosed>>

(* The session is set up and the tool's schema compared, or it fails. *)
Connect(w) ==
    /\ run[w].pc = "connect"
    /\ Goto(w, "precheck") \/ run' = Rejected(w)
    /\ UNCHANGED <<ledgerVars, authorityVars, historyVars, worldVars, disclosed>>

(* before_call: authority again, OperationStarted, its barrier, and again. *)
Precheck(w) ==
    /\ run[w].pc = "precheck"
    /\ IF requester /\ SameGeneration(w) /\ PolicyAllows
       THEN /\ Goto(w, "barrier")
            /\ audit' = [audit EXCEPT ![run[w].id] = "queued"]
       ELSE run' = Rejected(w) /\ UNCHANGED audit
    /\ UNCHANGED <<ledgerVars, authorityVars, historyVars, wire, effects, disclosed>>

(* confirm_audit(false): OperationStarted is durable, or the call is not sent. *)
Barrier(w) ==
    /\ run[w].pc = "barrier"
    /\ \/ Goto(w, "recheck") /\ audit' = [audit EXCEPT ![run[w].id] = "durable"]
       \/ run' = Rejected(w) /\ UNCHANGED audit
    /\ UNCHANGED <<ledgerVars, authorityVars, historyVars, wire, effects, disclosed>>

Recheck(w) ==
    /\ run[w].pc = "recheck"
    /\ IF requester /\ SameGeneration(w) THEN Goto(w, "fence") ELSE run' = Rejected(w)
    /\ UNCHANGED <<ledgerVars, authorityVars, historyVars, worldVars, disclosed>>

(* The transport's time-out before anything was sent. *)
Timeout(w) ==
    /\ run[w].pc \in {"precheck", "barrier", "recheck"}
    /\ run' = Rejected(w)
    /\ UNCHANGED <<ledgerVars, authorityVars, historyVars, worldVars, disclosed>>

(* Mutant: the ledger is not asked again before the send. *)
FenceUnchecked(w) ==
    /\ run[w].pc = "fence" /\ run[w].held
    /\ Unlock(w, "sent")
    /\ wire' = wire \cup {run[w].id}
    /\ UNCHANGED <<ledgerVars, authorityVars, historyVars, audit, effects, disclosed>>

(* No await between this fence and the send. *)
Fence(w) ==
    /\ run[w].pc = "fence" /\ run[w].held
    /\ IF AuthorizeDispatch(w)
       THEN Unlock(w, "sent") /\ wire' = wire \cup {run[w].id}
       ELSE run' = Refusal(w) /\ UNCHANGED wire
    /\ UNCHANGED <<ledgerVars, authorityVars, historyVars, audit, effects, disclosed>>

(* Accepted is any valid result of the server, which may have done nothing, *)
(* or not yet; a tool error may follow an effect; a lost or malformed       *)
(* answer and a time-out tell nothing.                                      *)
Answer(w) ==
    LET settle(outcome, output) ==
            run' = [run EXCEPT ![w].pc = "settle", ![w].outcome = outcome, ![w].output = output]
        metadata == IF Pinned(run[w].action) THEN "none" ELSE "hash"
    IN  /\ run[w].pc = "sent"
        /\ \/ settle("accepted", metadata)
           \/ Projected(run[w].action) /\ settle("accepted", "fields")
           \/ settle("tool_error", metadata)
           \/ settle("unknown", "none")
        /\ UNCHANGED <<ledgerVars, authorityVars, historyVars, worldVars, disclosed>>

(* finish: revocation and expiry do not erase the outcome. *)
Finish(w) ==
    LET i == run[w].id
        o == run[w].outcome
        r == records[i]
    IN  /\ run[w].pc = "settle"
        /\ IF Load(i) /\ r.action = run[w].action /\ r.state = "reserved"
           THEN /\ Save(i, [r EXCEPT
                     !.state = IF o = "tool_error" THEN "rejected" ELSE o,
                     !.response = run[w].output = "hash",
                     !.projection_validated =
                        IF ~Projected(r.action) THEN @
                        ELSE IF run[w].output = "fields" THEN "yes" ELSE "no",
                     !.dispatch_status =
                        IF ~Pinned(r.action) THEN @
                        ELSE IF o = "rejected" THEN "not_attempted" ELSE "attempted"])
                /\ Goto(w, IF run[w].output = "none" THEN "outcome" ELSE "screen")
           ELSE Fail(w) /\ UNCHANGED records
        /\ UNCHANGED <<registry, open, authorityVars, historyVars, worldVars, disclosed>>

(* The result is screened once before the final audit, *)
Screen(w) ==
    /\ run[w].pc = "screen" /\ run[w].held
    /\ IF AuthorizeResult(w) THEN Unlock(w, "outcome") ELSE run' = Refusal(w)
    /\ UNCHANGED <<ledgerVars, authorityVars, historyVars, worldVars, disclosed>>

(* which must be durable, *)
Audited(w) ==
    /\ run[w].pc = "outcome"
    /\ Fail(w) \/ (run[w].output # "none" /\ Goto(w, "current"))
    /\ UNCHANGED <<ledgerVars, authorityVars, historyVars, worldVars, disclosed>>

Current(w) ==
    /\ run[w].pc = "current"
    /\ IF requester THEN Goto(w, "disclose") ELSE Fail(w)
    /\ UNCHANGED <<ledgerVars, authorityVars, historyVars, worldVars, disclosed>>

(* Mutant: the screening before the last awaits is enough. *)
DiscloseScreened(w) ==
    /\ run[w].pc = "disclose" /\ run[w].held
    /\ Unlock(w, "seal")
    /\ disclosed' = disclosed \cup {<<run[w].id, run[w].output>>}
    /\ UNCHANGED <<ledgerVars, authorityVars, historyVars, worldVars>>

(* and is fenced again before it is returned. *)
Disclose(w) ==
    /\ run[w].pc = "disclose" /\ run[w].held
    /\ IF AuthorizeResult(w)
       THEN /\ Unlock(w, "seal")
            /\ disclosed' = disclosed \cup {<<run[w].id, run[w].output>>}
       ELSE run' = Refusal(w) /\ UNCHANGED disclosed
    /\ UNCHANGED <<ledgerVars, authorityVars, historyVars, worldVars>>

(* Mutant: no guard. *)
SealForgotten(w) ==
    /\ run[w].pc = "seal"
    /\ run' = [run EXCEPT ![w] = Idle]
    /\ UNCHANGED <<ledgerVars, authorityVars, historyVars, worldVars, disclosed>>

(* The guards are dropped on every way out. *)
Seal(w) ==
    /\ run[w].pc = "seal"
    /\ IF Load(run[w].id) THEN Save(run[w].id, Interrupted(records[run[w].id]))
       ELSE UNCHANGED records
    /\ run' = [run EXCEPT ![w] = Idle]
    /\ UNCHANGED <<registry, open, authorityVars, historyVars, worldVars, disclosed>>

(* The caller goes away while the call awaits. *)
Cancel(w) ==
    /\ run[w].pc \in Awaiting
    /\ Fail(w)
    /\ UNCHANGED <<ledgerVars, authorityVars, historyVars, worldVars, disclosed>>

-----------------------------------------------------------------------------
(* Other calls, and the world. *)

(* filter_mcp_receipt_metadata: policy content and identity, before the     *)
(* registry and the ledger.                                                 *)
ReadAuthority(r) == PolicyAllows /\ policy.rule = r.action.rule /\ GateHolds

(* mcp_revoke.  The receipt it returns is filtered like that of mcp_get;    *)
(* hash and size are never shown, for the row is revoked by then.           *)
Revoke(i) ==
    LET r == records[i]
    IN  /\ Load(i)
        /\ Save(i, [r EXCEPT !.revoked = TRUE,
                       !.state = IF @ = "reviewing" THEN "revoked" ELSE @])
        /\ registry' = IF r.response /\ ReadAuthority(r) THEN Applied ELSE registry
        /\ UNCHANGED <<open, authorityVars, run, historyVars, worldVars, disclosed>>

(* mcp_get: hash and size are shown under the authority of now. *)
Get(i) ==
    LET r == records[i]
    IN  /\ Load(i)
        /\ r.response
        /\ registry' = IF ReadAuthority(r) THEN Applied ELSE registry
        /\ IF ReadAuthority(r) /\ Revalidates(r.action) /\ Active(i, r.action) /\ r.state \in Final
           THEN disclosed' = disclosed \cup {<<i, "hash">>}
           ELSE UNCHANGED disclosed
        /\ UNCHANGED <<records, open, authorityVars, run, historyVars, worldVars>>

Catalog ==
    /\ open
    /\ registry' = Applied
    /\ UNCHANGED <<records, open, authorityVars, run, historyVars, worldVars, disclosed>>

(* The operator replaces the file, also by an older or a reissued bundle. *)
ReplaceBundle ==
    /\ bundle' \in Bundle
    /\ UNCHANGED <<ledgerVars, clock, policy, gate, requester, run, historyVars,
                   worldVars, disclosed>>

SetClock ==
    /\ clock' \in 0 .. MaxTime
    /\ UNCHANGED <<ledgerVars, bundle, policy, gate, requester, run, historyVars,
                   worldVars, disclosed>>

SwapPolicy ==
    /\ policy.gen < MaxGen
    /\ \A w \in Run : ~run[w].held
    /\ \E rule \in Rule : policy' = [rule |-> rule, gen |-> policy.gen + 1]
    /\ UNCHANGED <<ledgerVars, bundle, clock, gate, requester, run, historyVars,
                   worldVars, disclosed>>

(* The identity lock excludes this while a guarded fence is held. *)
RequesterChanges ==
    /\ gate = "guarded" => \A w \in Run : ~run[w].held
    /\ requester' = ~requester
    /\ UNCHANGED <<ledgerVars, bundle, clock, policy, gate, run, historyVars,
                   worldVars, disclosed>>

(* The server performs the call, or does not. *)
Server(i) ==
    /\ i \in wire
    /\ wire' = wire \ {i}
    /\ \/ effects' = [effects EXCEPT ![i] = @ + 1]
       \/ UNCHANGED effects
    /\ UNCHANGED <<ledgerVars, authorityVars, run, historyVars, audit, disclosed>>

Crash ==
    /\ open
    /\ open' = FALSE
    /\ run' = [w \in Run |-> Idle]
    /\ audit' = [i \in Invocation |-> IF audit[i] = "queued" THEN "none" ELSE audit[i]]
    /\ UNCHANGED <<records, registry, authorityVars, historyVars, wire, effects, disclosed>>

Recover(rows) ==
    /\ \A i \in Invocation : Claimed(i) => Decode(records[i])
    /\ records' = [i \in Invocation |-> IF i \in rows THEN Interrupted(records[i])
                                        ELSE records[i]]

(* Ledger::open saves row by row: it may be cut off after some of them. *)
RestartCut ==
    /\ ~open
    /\ \E rows \in SUBSET Invocation : Recover(rows)
    /\ UNCHANGED <<registry, open, authorityVars, run, historyVars, worldVars, disclosed>>

(* Gateway::new: all rows, then the registry, without which nothing serves. *)
Restart ==
    /\ ~open
    /\ Recover(Invocation)
    /\ registry' = Applied
    /\ open' = RegistryLoads
    /\ \E rule \in Rule : policy' = [rule |-> rule, gen |-> 0]
    /\ reviewed' = [i \in Invocation |-> {}]
    /\ UNCHANGED <<bundle, clock, gate, requester, run, prompts, worldVars, disclosed>>

-----------------------------------------------------------------------------
Init ==
    /\ records = [i \in Invocation |-> NoRecord]
    /\ bundle \in Bundle
    /\ registry = bundle
    /\ open = TRUE
    /\ clock = bundle.issued_at /\ clock < bundle.expires_at
    /\ \E rule \in Rule : policy = [rule |-> rule, gen |-> 0]
    /\ gate \in Gate
    /\ requester = TRUE
    /\ run = [w \in Run |-> Idle]
    /\ prompts = [i \in Invocation |-> 0]
    /\ reviewed = [i \in Invocation |-> {}]
    /\ audit = [i \in Invocation |-> "none"]
    /\ wire = {}
    /\ effects = [i \in Invocation |-> 0]
    /\ disclosed = {}

RunStep(w) ==
    \/ Claim(w) \/ Present(w) \/ Answered(w) \/ Witness(w) \/ Context(w)
    \/ Admit(w) \/ Reserve(w) \/ Lock(w) \/ Admission(w) \/ Connect(w)
    \/ Precheck(w) \/ Barrier(w) \/ Recheck(w) \/ Timeout(w) \/ Fence(w)
    \/ Answer(w) \/ Finish(w) \/ Screen(w) \/ Audited(w) \/ Current(w)
    \/ Disclose(w) \/ Seal(w)

Next ==
    \/ \E w \in Run : RunStep(w) \/ Cancel(w)
    \/ \E w \in Run, i \in Invocation, kind \in Kind :
          \E size \in IF kind = "legacy" THEN Size ELSE {0} : Start(w, i, kind, size)
    \/ \E i \in Invocation : Revoke(i) \/ Get(i) \/ Server(i)
    \/ Catalog \/ ReplaceBundle \/ SetClock \/ SwapPolicy \/ RequesterChanges
    \/ Crash \/ RestartCut \/ Restart

Spec == Init /\ [][Next]_vars

(* The executor polls a call that can proceed; reviews and exchanges end by *)
(* an answer or a time-out; a stopped daemon is started again.              *)
FairSpec == Spec /\ (\A w \in Run : WF_vars(RunStep(w))) /\ WF_vars(Restart)

-----------------------------------------------------------------------------
(* Properties. *)

(* Its size is the only reason for which the ledger cannot read a row it    *)
(* wrote (decode): whatever is revoked, cancelled, answered late or cut off,*)
(* open refuses no row within the limit.                                    *)
LedgerReadable ==
    \A i \in Invocation : Claimed(i) /\ Fits(records[i]) => Decode(records[i])

(* "The durable receipt is always available to its owner" (mcp/mod.rs): as  *)
(* long as the gateway serves, get finds every claimed invocation.          *)
ReceiptAvailable == \A i \in Invocation : open /\ Claimed(i) => Load(i)

(* An invocation id buys one review and one call (claim, reserve): retries, *)
(* concurrent calls with one id, crashes and restarts never send it twice.  *)
CalledAtMostOnce ==
    \A i \in Invocation :
       /\ effects[i] + (IF i \in wire THEN 1 ELSE 0) <= 1
       /\ prompts[i] <= 1

(* A receipt never denies a call (finish, interrupt, open): one that was    *)
(* not charged, or of which the receipt says not_attempted, neither was     *)
(* performed nor can still be.                                              *)
ReceiptHonest ==
    \A i \in Invocation :
       LET r == records[i]
       IN  ~r.attempt_charged \/ r.dispatch_status = "not_attempted"
           => effects[i] = 0 /\ i \notin wire

(* Authority is whole when the call is sent (final_authority): charged, not *)
(* revoked, not expired, reviewed under the policy generation in force,     *)
(* which still allows it, its start durably audited, and the requester, if  *)
(* an identity gate is configured, still authorized.                        *)
DispatchCovered ==
    [][\A i \in wire' \ wire :
          /\ records[i].state = "reserved"
          /\ ~records[i].revoked
          /\ clock < records[i].action.expires_at
          /\ policy.gen \in reviewed[i]
          /\ PolicyAllows
          /\ GateHolds
          /\ audit[i] = "durable"]_vars

(* And whole again when a result leaves (execute_mcp, mcp_get): a receipt   *)
(* or output that was accepted before the owner revoked, the call expired,  *)
(* the policy content changed or the requester lost authority is withheld,  *)
(* and fields leave only as a validated projection of an accepted call.     *)
DisclosureCovered ==
    [][\A x \in disclosed' \ disclosed :
          LET r == records[x[1]]
          IN  /\ ~r.revoked
              /\ clock < r.action.expires_at
              /\ PolicyAllows /\ policy.rule = r.action.rule
              /\ GateHolds
              /\ x[2] = "fields" => r.state = "accepted" /\ r.projection_validated = "yes"
              /\ x[2] = "hash" => r.response]_vars

(* The applied contract only advances (check_rollback): no file, restart or *)
(* interleaving of readers brings back an older or a reissued version.      *)
RegistryAdvances ==
    [][registry' # registry => registry'.version > registry.version]_vars

=============================================================================
