-------------------------------- MODULE Stages --------------------------------
\* The phases of one root work item: Engine.step and the handlers of Engine.drive,
\* with the decisions of the operator between two commands. A model call or a
\* local check is an operation that may fail, be of unknown outcome, be cut off by a
\* crash and be replayed. The source of the owned checkout changes under it, and
\* with it the worth of every proof the item has collected.
\* Delegation to children is in WorkTree, the delivery itself in Delivery.
EXTENDS Integers, Sequences, FiniteSets
CONSTANTS
  Contracts,       \* what an item may be started with
  NoProgressLimit, \* config.execution.supervision.no_progress_limit
  MaxScore,        \* bound: the best score a failing verification can have
  MaxFailures      \* bound: crashes, interrupts, exceptions and unknown outcomes

\* outputs: what the artifact checks of the contract produce. "own" outputs are
\* declared by no other check and were there before the verification. checks: bound
\* by the command line. auto: --auto-approve. limit: the model calls it may make.
ASSUME StagesAssumption ==
  /\ Contracts \subseteq [mode : {"run", "fix", "collab"}, outputs : {"none", "shared", "own"},
                          checks : BOOLEAN, auto : BOOLEAN, limit : Nat]
  /\ NoProgressLimit \in Nat \ {0} /\ MaxScore \in Nat /\ MaxFailures \in Nat

VARIABLES
  contract, \* what the item was started with
  item,     \* its row: status, phase, category of the failure, result
  ctx,      \* its context: decisions, counters and approvals
  proof,    \* the proofs in its context, against the source as it is now
  op,       \* the unconsumed operation of its phase: a model call, a local effect
  run,      \* the process that drives it, if any
  calls,    \* model calls made
  repairs,  \* times a failed verification sent it back to implement
  failures  \* failures so far (a bound)

vars == <<contract, item, ctx, proof, op, run, calls, repairs, failures>>

Proofs == {"verification", "review", "visual", "artifact", "acceptance"}
Freshness == {"none", "stale", "current"}
Gates == {"requirements", "prototype", "architecture", "release", "reset"}
RunPhases == <<"clarify", "prototype", "design", "plan", "provider_research", "implement">>
ModelPhases == {"clarify", "prototype", "design", "plan", "provider_research", "readme",
  "classify", "implement", "finalize", "review", "visual_judge", "acceptance_review",
  "diagnose", "acceptance"}
\* readonly=False: the worker may write into the checkout.
Writers == {"clarify", "prototype", "design", "plan", "provider_research", "readme",
  "implement", "finalize", "acceptance"}
LocalPhases == {"persistence", "verify", "artifact_verify", "deliver"}
Phases == ModelPhases \cup LocalPhases
FirstPhase(mode) == CASE mode = "run" -> "clarify" [] mode = "fix" -> "classify" [] mode = "collab" -> "diagnose"

\* What a reply can ask for, besides "bad": one that the phase refuses.
Asks(p) ==
  CASE p = "clarify" -> {"done", "frontend", "questions"} [] p = "classify" -> {"fix", "not_bug", "questions"}
    [] p = "implement" -> {"done", "migrate", "rebuild"} [] p = "review" -> {"pass", "fail", "finalize"}
    [] p \in {"visual_judge", "acceptance_review", "acceptance"} -> {"pass", "fail"}
    [] p = "diagnose" -> {"acceptance", "questions"} [] p = "finalize" -> {"done"}
    [] OTHER -> {"done", "questions"}
Replies(p) == Asks(p) \cup {"bad"}

\* The category of every error; a code that is not here is its own category.
OfVerification == {"tests_failed", "proof_source_changed", "verification_missing", "review_failed", "no_progress"}
OfModel == {"model_output", "stage_scope", "finalizer_changed"}
Codes == OfVerification \cup OfModel \cup
  {"source_changed", "outcome_unknown", "provider", "quota", "environment", "budget", "state", "engine"}
CategoryOf(code) ==
  CASE code \in OfVerification -> "verification" [] code \in OfModel -> "model"
    [] code = "outcome_unknown" -> "reconciliation" [] code = "quota" -> "provider"
    [] code = "source_changed" -> "state" [] OTHER -> code

\* score: what a failing verification had passed, -1 without executed checks.
NoScore == -1
Scores == 0 .. MaxScore
\* fresh: no file of the checkout has changed since the operation was registered.
\* sealed: the result carries the seal of the checkout (an operator's does not).
NoOp == [state |-> "absent", answer |-> "none", score |-> NoScore,
         fresh |-> TRUE, sealed |-> FALSE]
Kinds == {"call", "local"}
NoRun == [at |-> "idle", code |-> "none", score |-> NoScore, trespass |-> FALSE]

At(place) == run.at = place
Goto(place) == run' = [NoRun EXCEPT !.at = place]
\* A ControlError on its way to the handlers of drive.
Raise(code) == run' = [NoRun EXCEPT !.at = "failed", !.code = code]

Init ==
  /\ contract \in Contracts
  /\ item = [status |-> "READY", phase |-> FirstPhase(contract.mode), failure |-> "none",
             waiting |-> "none", result |-> "none"]
  /\ ctx = [frontend |-> FALSE, notBug |-> FALSE,
            changed |-> FALSE, bound |-> contract.checks \/ contract.mode # "fix",
            finalizeReturn |-> "review",
            corrections |-> 0, protocol |-> 0, best |-> NoScore, stagnant |-> 0,
            manifest |-> "none", fallback |-> FALSE, gatePhase |-> "none",
            approvals |-> [g \in Gates |-> "none"]]
  /\ proof = [k \in Proofs |-> "none"] /\ op = [k \in Kinds |-> NoOp]
  /\ run = NoRun /\ calls = 0 /\ repairs = 0 /\ failures = 0

Unchecked == UNCHANGED <<contract, failures>>
Quiet == Unchecked /\ UNCHANGED <<calls, repairs>>

Decided(context, gate, how) == [context EXCEPT !.approvals = [context.approvals EXCEPT ![gate] = how]]

-----------------------------------------------------------------------------
\* The transitions of step: the new phase, the new context and the consumption of
\* the operation are one transaction.

Consumed(o, kinds) == [k \in Kinds |-> IF k \in kinds THEN NoOp ELSE o[k]]

Advance(phase, context, collected) ==
  /\ item' = [item EXCEPT !.status = "READY", !.phase = phase, !.failure = "none"]
  /\ ctx' = context /\ proof' = collected
  /\ op' = Consumed(op, Kinds)
  /\ Goto("drive") /\ Quiet

\* wait_user keeps the phase, an approval is asked in the phase that follows.
Wait(phase, waiting, context) ==
  /\ item' = [item EXCEPT !.status = "WAITING", !.phase = phase, !.waiting = waiting]
  /\ ctx' = context /\ op' = Consumed(op, Kinds)
  /\ Goto("drive") /\ Quiet /\ UNCHANGED proof

Finish(result) ==
  /\ item' = [item EXCEPT !.status = "COMPLETED", !.result = result, !.failure = "none"]
  /\ op' = Consumed(op, Kinds)
  /\ run' = NoRun /\ Quiet /\ UNCHANGED <<ctx, proof>>

Fail(code) == Raise(code) /\ Quiet /\ UNCHANGED <<item, ctx, proof, op>>

\* A proof in hand is worth what the checkout still shows of it.
Collected(kind, o) == [proof EXCEPT ![kind] = IF o.fresh THEN "current" ELSE "stale"]

Enter ==
  /\ At("drive") /\ item.status = "READY"
  /\ item' = [item EXCEPT !.status = "RUNNING"]
  /\ Goto("step") /\ Quiet /\ UNCHANGED <<ctx, proof, op>>

Return ==
  /\ At("drive") /\ item.status # "READY"
  /\ run' = NoRun /\ Quiet /\ UNCHANGED <<item, ctx, proof, op>>

In(phase) == At("step") /\ item.phase = phase

-----------------------------------------------------------------------------
\* Model calls: Engine.model inside Engine.effect.

SkipPrototype ==
  /\ In("prototype") /\ ~ctx.frontend
  /\ Advance("design", ctx, proof)

\* The tasks of a plan are done by children, whose candidates are adopted.
Integrate ==
  /\ In("implement") /\ contract.mode = "run"
  /\ item' = [item EXCEPT !.status = "READY", !.phase = "readme", !.failure = "none"]
  /\ proof' = [k \in Proofs |-> IF proof[k] = "none" THEN "none" ELSE "stale"]
  /\ Goto("drive") /\ Quiet /\ UNCHANGED <<ctx, op>>

\* source_seal leaves out the outputs that the seal's own checks declare: those of
\* all checks here, those of the checks that ran when the verification was sealed.
SealAny == TRUE
SealKept == proof["verification"] = "current" /\ contract.outputs # "own"
Sealed == item.phase \in {"finalize", "artifact_verify"} => SealKept

ModelStep ==
  /\ At("step") /\ item.phase \in ModelPhases
  /\ ~(item.phase = "prototype" /\ ~ctx.frontend)
  /\ ~(item.phase = "implement" /\ contract.mode = "run")

BrokenSeal ==
  /\ ModelStep /\ ~Sealed
  /\ Fail("proof_source_changed")

\* Every call is charged: a verified improvement refunds none.
ChargeNone == 0
Charge == 1
CanCall == calls < contract.limit

Register ==
  /\ ModelStep /\ Sealed /\ op["call"].state = "absent"
  /\ IF CanCall
     THEN /\ op' = [op EXCEPT !["call"] = [NoOp EXCEPT !.state = "DISPATCHED"]]
          /\ calls' = calls + Charge /\ Goto("calling")
     ELSE Raise("budget") /\ UNCHANGED <<op, calls>>
  /\ Unchecked /\ UNCHANGED <<item, ctx, proof, repairs>>

\* A retained answer is used again if the checkout still is what it was sealed on.
Retained ==
  /\ ModelStep /\ Sealed
  /\ \/ op["call"].state = "CONFIRMED" /\ (op["call"].sealed => op["call"].fresh) /\ Goto("answered")
     \/ op["call"].state = "CONFIRMED" /\ op["call"].sealed /\ ~op["call"].fresh /\ Raise("source_changed")
     \/ op["call"].state = "UNKNOWN" /\ Raise("outcome_unknown")
     \/ op["call"].state = "FAILED" /\ Raise(op["call"].answer)
  /\ Quiet /\ UNCHANGED <<item, ctx, proof, op>>

\* A write that the phase does not allow is a trespass. It is seen when the worker
\* ends; until then the checkout has it.
Touched(o) == [k \in Kinds |-> [o[k] EXCEPT !.fresh = FALSE]]
Writing ==
  /\ proof' = [k \in Proofs |-> IF proof[k] = "none" THEN "none" ELSE "stale"]
  /\ op' = Touched(op)

WriteSource ==
  /\ At("calling") /\ item.phase \in Writers
  /\ Writing
  /\ run' = [run EXCEPT !.trespass = @ \/ item.phase = "finalize"]
  \* another tree, so another fingerprint than the one a reset was approved for
  /\ ctx' = [Decided(ctx, "reset", IF item.phase = "implement" THEN "none" ELSE ctx.approvals["reset"])
               EXCEPT !.changed = TRUE]
  /\ Quiet /\ UNCHANGED item

\* The reports that finalize may write are outputs, as are those of acceptance.
WriteReports ==
  /\ At("calling") /\ item.phase \in {"finalize", "acceptance"} /\ contract.outputs # "none"
  /\ op' = Touched(op)
  /\ proof' = [proof EXCEPT !["artifact"] = IF @ = "none" THEN "none" ELSE "stale"]
  /\ Quiet /\ UNCHANGED <<item, ctx, run>>

Settled(kind, state, answer, score) ==
  op' = [op EXCEPT ![kind] = [state |-> state, answer |-> answer, score |-> score,
                              fresh |-> TRUE, sealed |-> state = "CONFIRMED"]]

Answered ==
  /\ At("calling")
  /\ IF ~run.trespass
     THEN \E r \in Replies(item.phase) : Settled("call", "CONFIRMED", r, NoScore) /\ Goto("answered")
     ELSE Settled("call", "FAILED", "stage_scope", NoScore) /\ Raise("stage_scope")
  /\ Quiet /\ UNCHANGED <<item, ctx, proof>>

CallFails ==
  /\ At("calling")
  /\ \E code \in {"provider", "quota"} :
       Settled("call", "FAILED", code, NoScore) /\ Raise(code)
  /\ Quiet /\ UNCHANGED <<item, ctx, proof>>

-----------------------------------------------------------------------------
\* What step makes of an answer.

Reply(phase, r) == At("answered") /\ item.phase = phase /\ op["call"].answer = r

\* The outputs of checks that no classification has bound are not declared.
Reports == contract.outputs # "none" /\ ctx.bound

\* A reply of the wrong shape, and a finalization that names no declared report.
Refused ==
  /\ At("answered")
  /\ \/ op["call"].answer = "bad"
     \/ Reply("review", "finalize") /\ ~Reports
  /\ Fail("model_output")

Asked ==
  /\ At("answered") /\ op["call"].answer = "questions"
  /\ Wait(item.phase, "user", ctx)

Gated == {"clarify", "prototype", "design"}
GateAfter(p) == CASE p = "clarify" -> "requirements" [] p = "prototype" -> "prototype" [] p = "design" -> "architecture"
NextRunPhase(p) ==
  IF p = "readme" THEN "verify"
  ELSE RunPhases[1 + CHOOSE i \in DOMAIN RunPhases : RunPhases[i] = p]

\* The prototype gate waits for a human whatever the authorization says.
GateWaitsIfAsked(gate) == ~contract.auto
GateWaits(gate) == gate = "prototype" \/ ~contract.auto

Documented ==
  LET p == item.phase
      described == [ctx EXCEPT !.frontend = IF p = "clarify" THEN op["call"].answer = "frontend" ELSE @]
  IN /\ At("answered") /\ p \in {"clarify", "prototype", "design", "plan", "provider_research", "readme"}
     /\ op["call"].answer \in {"done", "frontend"}
     /\ IF p \notin Gated THEN Advance(NextRunPhase(p), described, proof)
        ELSE IF GateWaits(GateAfter(p))
        THEN Wait(NextRunPhase(p), GateAfter(p), [described EXCEPT !.gatePhase = p])
        ELSE Advance(NextRunPhase(p), Decided(described, GateAfter(p), "automatic"), proof)

Classified ==
  \/ Reply("classify", "fix") /\ Advance("implement", [ctx EXCEPT !.bound = TRUE], proof)
  \/ /\ Reply("classify", "not_bug")
     /\ Advance(IF contract.checks THEN "verify" ELSE "review", [ctx EXCEPT !.notBug = TRUE], proof)

Diagnosed == Reply("diagnose", "acceptance") /\ Advance("acceptance", ctx, proof)

\* changed: the checkout differs from the source the item was admitted on.
\* A candidate without a path is an error of category verification; a declared
\* storage change goes through the persistence phase.
Implemented ==
  /\ At("answered") /\ item.phase = "implement" /\ op["call"].answer # "bad"
  /\ IF ~ctx.changed THEN Fail("no_progress")
     ELSE IF op["call"].answer = "done" THEN Advance("verify", [ctx EXCEPT !.manifest = "none"], proof)
     ELSE Advance("persistence", [ctx EXCEPT !.manifest = op["call"].answer], proof)

\* The checkout must still be what was verified, unless only reports were written.
Finalized ==
  /\ Reply("finalize", "done")
  /\ IF SealKept THEN Advance(ctx.finalizeReturn, ctx, proof) ELSE Fail("finalizer_changed")

Reviews == {"review", "visual_judge", "acceptance_review"}
AfterReview(p) == IF p = "acceptance_review" THEN "deliver" ELSE "artifact_verify"
ProofOf(p) == CASE p = "review" -> "review" [] p = "visual_judge" -> "visual" [] p = "acceptance_review" -> "acceptance"

Reviewed ==
  /\ At("answered") /\ item.phase \in Reviews
  /\ CASE op["call"].answer = "pass" /\ ctx.notBug -> Finish("not_bug")
       [] op["call"].answer = "pass" /\ ~ctx.notBug ->
            Advance(AfterReview(item.phase), ctx, Collected(ProofOf(item.phase), op["call"]))
       [] op["call"].answer = "fail" -> Fail("review_failed")
       [] op["call"].answer = "finalize" /\ Reports -> Advance("finalize", ctx, proof)
       [] OTHER -> FALSE

\* An accepted goal is verified within the same step, on the contract's checks.
Accepted ==
  \/ Reply("acceptance", "fail") /\ Fail("review_failed")
  \/ /\ Reply("acceptance", "pass")
     /\ Goto("effect") /\ Quiet /\ UNCHANGED <<item, ctx, proof, op>>

Interpret ==
  \/ Refused \/ Asked \/ Documented \/ Classified \/ Diagnosed \/ Implemented \/ Finalized
  \/ Reviewed \/ Accepted

-----------------------------------------------------------------------------
\* Local effects: persistence action, verification, artifact checks, delivery.

Checks == {"verify", "artifact_verify", "acceptance"}

AskReset ==
  /\ In("persistence") /\ ctx.manifest = "rebuild" /\ ctx.approvals["reset"] # "human"
  /\ Wait("persistence", "reset", [ctx EXCEPT !.gatePhase = "persistence"])

\* deliver insists on the proofs its contract asks for.
Missing ==
  \/ contract.mode = "run" /\ proof["verification"] = "none"
  \/ contract.mode = "collab" /\ proof["acceptance"] = "none"
  \/ contract.outputs # "none" /\ proof["artifact"] = "none"
Incomplete == In("deliver") /\ Missing /\ Fail("state")

AskRelease ==
  /\ In("deliver") /\ ~Missing /\ contract.mode = "run" /\ ~contract.auto
  /\ ctx.approvals["release"] = "none"
  /\ Wait("deliver", "release", [ctx EXCEPT !.gatePhase = "verify"])

NoArtifacts ==
  /\ In("artifact_verify") /\ contract.outputs = "none"
  /\ Advance("deliver", ctx, proof)

ArtifactSeal ==
  /\ In("artifact_verify") /\ contract.outputs # "none" /\ ~Sealed
  /\ Fail("proof_source_changed")

Prepared ==
  \/ At("step") /\ item.phase = "verify"
  \/ In("persistence") /\ ~(ctx.manifest = "rebuild" /\ ctx.approvals["reset"] # "human")
  \/ In("artifact_verify") /\ contract.outputs # "none" /\ Sealed
  \/ In("deliver") /\ ~Missing /\ ~(contract.mode = "run" /\ ~contract.auto /\ ctx.approvals["release"] = "none")
  \/ At("effect")

RegisterLocal ==
  /\ Prepared /\ op["local"].state = "absent"
  /\ op' = [op EXCEPT !["local"] = [NoOp EXCEPT !.state = "DISPATCHED"]]
  /\ Goto("checking") /\ Quiet /\ UNCHANGED <<item, ctx, proof>>

EffectRaises(code, score) ==
  run' = [NoRun EXCEPT !.at = "effect failed", !.code = code, !.score = score]

RetainedLocal ==
  /\ Prepared
  /\ \/ op["local"].state = "CONFIRMED" /\ Goto("checked")
     \/ op["local"].state = "UNKNOWN" /\ Raise("outcome_unknown")
     \/ op["local"].state = "FAILED" /\ EffectRaises(op["local"].answer, op["local"].score)
  /\ Quiet /\ UNCHANGED <<item, ctx, proof, op>>

\* Checks write their declared outputs; a persistence action and a test may write
\* more, which the verification notices and refuses.
CheckWrites ==
  /\ At("checking") /\ item.phase # "deliver"
  /\ \/ /\ Writing /\ ctx' = [ctx EXCEPT !.changed = TRUE]
        /\ run' = [run EXCEPT !.trespass = item.phase \in Checks]
     \/ op' = [op EXCEPT !["call"] = [@ EXCEPT !.fresh = FALSE]] /\ UNCHANGED <<ctx, proof, run>>
  /\ Quiet /\ UNCHANGED item

CheckPasses ==
  /\ At("checking") /\ ~run.trespass /\ (item.phase \in Checks => ctx.bound)
  /\ op' = [op EXCEPT !["local"] = [@ EXCEPT !.state = "CONFIRMED", !.fresh = TRUE]]
  /\ Goto("checked") /\ Quiet /\ UNCHANGED <<item, ctx, proof>>

\* The errors an effect of the phase can end with.
ErrorsOf(p) ==
  IF p \in Checks /\ ~ctx.bound THEN {"verification_missing"}
  ELSE IF run.trespass THEN {"proof_source_changed"}
  ELSE IF p \in Checks THEN {"tests_failed", "environment"} ELSE {"state"}

CheckFails ==
  /\ At("checking")
  /\ \E code \in ErrorsOf(item.phase) :
     \E score \in IF code = "tests_failed" THEN Scores ELSE {NoScore} :
       /\ Settled("local", "FAILED", code, score)
       /\ EffectRaises(code, score)
  /\ Quiet /\ UNCHANGED <<item, ctx, proof>>

\* artifact_verify catches the failure of its own effect: the reports are corrected
\* twice at most, and the artifacts checked again without another review.
CorrectableEver ==
  item.phase = "artifact_verify" /\ CategoryOf(run.code) = "verification"
Correctable ==
  item.phase = "artifact_verify" /\ CategoryOf(run.code) = "verification" /\ ctx.corrections < 2

Correct ==
  /\ At("effect failed") /\ Correctable
  /\ Advance("finalize",
       [ctx EXCEPT !.finalizeReturn = "artifact_verify", !.corrections = @ + 1], proof)

Uncorrected ==
  /\ At("effect failed") /\ ~Correctable
  /\ run' = [run EXCEPT !.at = "failed"]
  /\ Quiet /\ UNCHANGED <<item, ctx, proof, op>>

AfterVerify ==
  IF contract.mode # "run" THEN "review"
  ELSE IF ctx.frontend THEN "visual_judge" ELSE "artifact_verify"

Checked ==
  /\ At("checked")
  /\ \/ item.phase = "persistence" /\ Advance("verify", ctx, proof)
     \/ item.phase = "verify" /\ Advance(AfterVerify, ctx, Collected("verification", op["local"]))
     \/ item.phase = "artifact_verify" /\ Advance("deliver", ctx, Collected("artifact", op["local"]))
     \/ item.phase = "deliver" /\ Finish("delivered")
     \* consume(verify_op) is a transaction of its own
     \/ /\ item.phase = "acceptance"
        /\ op' = Consumed(op, {"local"})
        /\ run' = [NoRun EXCEPT !.at = "accepted", !.trespass = ~op["local"].fresh]
        /\ Quiet /\ UNCHANGED <<item, ctx, proof>>

AcceptedVerified ==
  /\ At("accepted")
  /\ Advance("acceptance_review", ctx,
       Collected("verification", [fresh |-> ~run.trespass]))

-----------------------------------------------------------------------------
\* The handlers of drive, in their order.

CanFallBack == run.code = "quota" /\ ~ctx.fallback

\* progress.observe: repeats never exceeds stagnant, so it decides nothing.
Improved == run.score > ctx.best
StagnantForgotten == 0
Stagnant == IF Improved THEN 0 ELSE ctx.stagnant + 1
CanRepair ==
  /\ ~CanFallBack /\ CategoryOf(run.code) = "verification"
  /\ contract.mode = "fix" /\ item.phase \in {"verify", "review"}
  /\ Stagnant < NoProgressLimit

CanAskAgain ==
  /\ ~CanFallBack /\ ~CanRepair /\ run.code = "model_output" /\ ctx.protocol < 2

Repair ==
  /\ At("failed") /\ CanRepair
  /\ run' = [run EXCEPT !.at = "repairing"]
  /\ Quiet /\ UNCHANGED <<item, ctx, proof, op>>

Ended == {"CONFIRMED", "FAILED"}
ConsumeForRepair ==
  /\ At("repairing")
  /\ \E k \in Kinds : op[k].state \in Ended /\ op' = Consumed(op, {k})
  /\ Quiet /\ UNCHANGED <<item, ctx, proof, run>>

BackToImplement ==
  /\ At("repairing") /\ \A k \in Kinds : op[k].state \notin Ended
  /\ item' = [item EXCEPT !.status = "READY", !.phase = "implement"]
  /\ ctx' = [ctx EXCEPT !.notBug = FALSE, !.best = IF Improved THEN run.score ELSE @,
                        !.stagnant = Stagnant]
  /\ repairs' = repairs + 1 /\ Goto("drive")
  /\ Unchecked /\ UNCHANGED <<proof, op, calls>>

FallBack ==
  /\ At("failed") /\ CanFallBack
  /\ op' = Consumed(op, {k \in Kinds : op[k].state = "FAILED"})
  /\ run' = [run EXCEPT !.at = "falling back"]
  /\ Quiet /\ UNCHANGED <<item, ctx, proof>>

FellBack ==
  /\ At("falling back")
  /\ item' = [item EXCEPT !.status = "READY"]
  /\ ctx' = [ctx EXCEPT !.fallback = TRUE]
  /\ Goto("drive") /\ Quiet /\ UNCHANGED <<proof, op>>

AskAgain ==
  /\ At("failed") /\ CanAskAgain
  /\ item' = [item EXCEPT !.status = "READY"]
  /\ ctx' = [ctx EXCEPT !.protocol = @ + 1]
  /\ op' = Consumed(op, {k \in {"call"} : op[k].state \in Ended})
  /\ Goto("drive") /\ Quiet /\ UNCHANGED proof

Block ==
  /\ At("failed") /\ ~CanFallBack /\ ~CanRepair /\ ~CanAskAgain
  /\ item' = [item EXCEPT !.status = "BLOCKED", !.failure = CategoryOf(run.code)]
  /\ run' = NoRun /\ Quiet /\ UNCHANGED <<ctx, proof, op>>

-----------------------------------------------------------------------------
\* Commands of the operator.

\* orphan_calls, and finish_delivery when the delivery left a journal.
Orphaned(finished) ==
  [k \in Kinds |->
     CASE k = "call" /\ op[k].state = "DISPATCHED" -> [op[k] EXCEPT !.state = "UNKNOWN"]
       [] k = "local" /\ op[k].state = "DISPATCHED" /\ item.phase \in Checks -> NoOp
       [] k = "local" /\ op[k].state \in {"DISPATCHED", "UNKNOWN"} /\ item.phase \notin Checks ->
            [op[k] EXCEPT !.state = IF finished THEN "CONFIRMED" ELSE "UNKNOWN"]
       [] OTHER -> op[k]]

Resume ==
  /\ At("idle") /\ item.status \in {"READY", "RUNNING", "BLOCKED"}
  /\ \E finished \in {item.phase = "deliver", FALSE} :
     LET o == Orphaned(finished)
         freed == finished /\ op["local"].state \in {"DISPATCHED", "UNKNOWN"}
     IN IF item.status = "BLOCKED" /\ item.failure \in {"reconciliation", "budget"} /\ ~freed
        THEN op' = o /\ UNCHANGED <<item, run>>
        ELSE /\ op' = IF item.status = "BLOCKED" /\ item.failure \in {"provider", "environment"}
                      THEN Consumed(o, {k \in Kinds : o[k].state = "FAILED"}) ELSE o
             /\ item' = [item EXCEPT !.status = "READY",
                  !.failure = IF item.status = "BLOCKED" THEN "none" ELSE @]
             /\ Goto("drive")
  /\ Quiet /\ UNCHANGED <<ctx, proof>>

Answer ==
  /\ At("idle") /\ item.status = "WAITING" /\ item.waiting = "user"
  /\ item' = [item EXCEPT !.status = "READY", !.waiting = "none"]
  /\ Goto("drive") /\ Quiet /\ UNCHANGED <<ctx, proof, op>>

Approve ==
  /\ At("idle") /\ item.status = "WAITING" /\ item.waiting \in Gates
  /\ item' = [item EXCEPT !.status = "READY", !.waiting = "none"]
  /\ ctx' = Decided(ctx, item.waiting, "human")
  /\ Quiet /\ UNCHANGED <<proof, op, run>>

\* A rejection leads back to the phase that asked; a refused reset asks again.
Reject ==
  /\ At("idle") /\ item.status = "WAITING" /\ item.waiting \in Gates
  /\ item' = [item EXCEPT !.status = "READY", !.waiting = "none", !.phase = ctx.gatePhase]
  /\ ctx' = Decided(ctx, item.waiting, "none")
  /\ Quiet /\ UNCHANGED <<proof, op, run>>

Cancel ==
  /\ At("idle") /\ item.status \in {"READY", "RUNNING", "WAITING", "BLOCKED"}
  /\ item' = [item EXCEPT !.status = "CANCELLED"]
  /\ Quiet /\ UNCHANGED <<ctx, proof, op, run>>

\* reconcile-call settles, consumes what was cancelled and wakes the item in three
\* transactions. The operator is truthful: he confirms the result of a local effect
\* only if nothing of the checkout has changed under it.
Cancelling(k) == IF k = "call" THEN "cancelling the call" ELSE "cancelling the effect"
ReconcileSettle(k) ==
  /\ At("idle") /\ op[k].state \in {"DISPATCHED", "UNKNOWN"}
  /\ \/ /\ k = "call"
        /\ \E r \in Replies(item.phase) :
             op' = [op EXCEPT ![k] = [@ EXCEPT !.state = "CONFIRMED", !.answer = r, !.sealed = FALSE, !.fresh = TRUE]]
        /\ Goto("waking")
     \/ /\ k = "local" /\ (item.phase \in Checks => op["local"].fresh)
        /\ op' = [op EXCEPT ![k] = [@ EXCEPT !.state = "CONFIRMED"]]
        /\ Goto("waking")
     \/ /\ op' = [op EXCEPT ![k] = [@ EXCEPT !.state = "FAILED", !.answer = "provider"]]
        /\ Goto(Cancelling(k))
  /\ Quiet /\ UNCHANGED <<item, ctx, proof>>

ReconcileConsume(k) ==
  /\ At(Cancelling(k))
  /\ op' = Consumed(op, {k})
  /\ Goto("waking") /\ Quiet /\ UNCHANGED <<item, ctx, proof>>

ReconcileWake ==
  /\ At("waking")
  /\ item' = IF /\ item.status = "BLOCKED" /\ item.failure = "reconciliation"
                /\ \A k \in Kinds : op[k].state \notin {"DISPATCHED", "UNKNOWN"}
             THEN [item EXCEPT !.status = "READY", !.failure = "none"] ELSE item
  /\ run' = NoRun /\ Quiet /\ UNCHANGED <<ctx, proof, op>>

-----------------------------------------------------------------------------
\* Failures of the environment.

Failing ==
  /\ failures < MaxFailures /\ failures' = failures + 1
  /\ UNCHANGED <<contract, ctx, proof, calls, repairs>>

Crash == ~At("idle") /\ Failing /\ run' = NoRun /\ UNCHANGED <<item, op>>

\* A provider that ended without a confirmed outcome, or check processes that
\* outlive their check.
Unconfirmed ==
  /\ Failing
  /\ \/ At("calling") /\ op' = [op EXCEPT !["call"] = [@ EXCEPT !.state = "UNKNOWN"]]
     \/ At("checking") /\ item.phase \in Checks /\ op' = [op EXCEPT !["local"] = [@ EXCEPT !.state = "UNKNOWN"]]
  /\ Raise("outcome_unknown") /\ UNCHANGED item

\* Any other exception, or Ctrl-C, inside the effect: the operation is settled with
\* an error of category reconciliation, but only a call, a delivery and a
\* persistence action become UNKNOWN.
Interrupted ==
  [k \in Kinds |->
     IF op[k].state # "DISPATCHED" THEN op[k]
     ELSE IF k = "call" \/ item.phase \notin Checks THEN [op[k] EXCEPT !.state = "UNKNOWN"]
     ELSE [op[k] EXCEPT !.state = "FAILED", !.answer = "outcome_unknown"]]

Interrupt ==
  /\ run.at \in {"calling", "checking"} /\ Failing
  /\ op' = Interrupted
  /\ \/ run' = NoRun /\ UNCHANGED item
     \/ Raise("engine") /\ UNCHANGED item

-----------------------------------------------------------------------------
Operator ==
  \/ Resume \/ Answer \/ Approve \/ Reject \/ Cancel
  \/ \E k \in Kinds : ReconcileSettle(k)

Program ==
  \/ Enter \/ Return \/ SkipPrototype \/ Integrate \/ BrokenSeal \/ Register \/ Retained
  \/ Answered \/ CallFails \/ Interpret
  \/ AskReset \/ Incomplete \/ AskRelease \/ NoArtifacts \/ ArtifactSeal \/ RegisterLocal \/ RetainedLocal
  \/ CheckPasses \/ CheckFails \/ Correct \/ Uncorrected \/ Checked \/ AcceptedVerified
  \/ Repair \/ ConsumeForRepair \/ BackToImplement \/ FallBack \/ FellBack \/ AskAgain \/ Block
  \/ ReconcileWake \/ \E k \in Kinds : ReconcileConsume(k)

Worker == WriteSource \/ WriteReports \/ CheckWrites

Failure == Crash \/ Unconfirmed \/ Interrupt

Next == Operator \/ Program \/ Worker \/ Failure

Spec == Init /\ [][Next]_vars
\* A live process takes its next step; the worker it waits for ends.
LiveSpec == Spec /\ WF_vars(Program)

-----------------------------------------------------------------------------
\* The shape of the state: the row, its context and the operations of its phase.
TypeOK ==
  /\ item \in [status : {"READY", "RUNNING", "WAITING", "BLOCKED", "COMPLETED", "CANCELLED"},
               phase : Phases, failure : {CategoryOf(c) : c \in Codes} \cup {"none"},
               waiting : Gates \cup {"none", "user"}, result : {"none", "delivered", "not_bug"}]
  /\ ctx.corrections \in 0 .. 2 /\ ctx.protocol \in 0 .. 2
  /\ ctx.best \in Scores \cup {NoScore} /\ ctx.stagnant \in 0 .. NoProgressLimit - 1
  /\ ctx.approvals \in [Gates -> {"none", "automatic", "human"}]
  /\ proof \in [Proofs -> Freshness]
  /\ \A k \in Kinds :
       op[k].state \in {"absent", "DISPATCHED", "UNKNOWN", "CONFIRMED", "FAILED"}
  /\ calls \in 0 .. contract.limit /\ failures \in 0 .. MaxFailures

\* README.md, "Independent review, real executed tests, source identity, and
\* artifact integrity are required before local Git delivery": whatever was repaired,
\* finalized, cut off, replayed or reconciled, the proofs a delivered item was
\* accepted on were taken of the source that is delivered.
Needed ==
  {"verification"}
  \cup (IF contract.outputs # "none" THEN {"artifact"} ELSE {})
  \cup (IF contract.mode = "fix" THEN {"review"} ELSE {})
  \cup (IF contract.mode = "collab" THEN {"acceptance"} ELSE {})
  \cup (IF ctx.frontend THEN {"visual"} ELSE {})
DeliveredVerified ==
  item.result = "delivered" => \A k \in Needed : proof[k] = "current"

\* "Frontend prototype approval always requires a human decision": no work that
\* follows the prototype starts on an automatic or a withdrawn approval, whatever the
\* authorization and however often the item was resumed.
Later == {"design", "plan", "provider_research", "implement", "readme", "verify",
          "visual_judge", "artifact_verify", "finalize", "deliver"}
HumanPrototype ==
  ctx.frontend /\ item.status \notin {"WAITING", "CANCELLED"} /\ item.phase \in Later =>
    ctx.approvals["prototype"] = "human"

\* docs/control-v2.md, repair goes on by verified improvement and stops without
\* progress: over all commands, crashes and reconciliations together an item is sent
\* back to implement only so often.
RepairsBounded == repairs <= (MaxScore + 2) * NoProgressLimit - 1

\* Every command ends: replays, corrections, finalizations, repairs and retries of a
\* reply cannot keep drive in its loop, because each round is charged a call.
CommandEnds == ~At("idle") ~> At("idle")

\* engine.py raises "Source changed after verification" from artifact_verify: only a
\* checkout that was written to since its verification is refused with it.
RefusedIfChanged ==
  At("failed") /\ item.phase = "artifact_verify" /\ run.code = "proof_source_changed"
    /\ op["local"].state = "absent"
  => proof["verification"] # "current"
===============================================================================
