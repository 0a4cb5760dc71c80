------------------------------ MODULE StagesProofs -----------------------------
\* What Stages keeps for every set of contracts, every limit and every number of
\* failures: what is delivered was verified, a prototype is approved by a human, and
\* repairs come to an end.
EXTENDS Stages, TLAPS

-----------------------------------------------------------------------------
\* The inductive invariant.

Statuses == {"READY", "RUNNING", "WAITING", "BLOCKED", "COMPLETED", "CANCELLED"}
Categories == {"verification", "model", "reconciliation", "provider", "environment", "budget", "state", "engine"}
Marks == Scores \cup {NoScore}
Words == Codes \cup {"none", "bad", "done", "frontend", "questions", "fix", "not_bug", "migrate", "rebuild", "pass",
                     "fail", "finalize", "acceptance"}
OpStates == {"absent", "DISPATCHED", "UNKNOWN", "CONFIRMED", "FAILED"}
Asking == {"clarify", "prototype", "design", "persistence", "verify"}

\* Where the process is inside of step, and where the operator's commands are.
Working == {"step", "calling", "answered", "effect", "checking", "checked", "accepted", "effect failed", "failed",
            "repairing", "falling back"}
Commanding == {"idle", "waking", "cancelling the call", "cancelling the effect"}

Rows == [status : Statuses, phase : Phases, failure : Categories \cup {"none"},
         waiting : Gates \cup {"none", "user"}, result : {"none", "delivered", "not_bug"}]
Contexts == [frontend : BOOLEAN, notBug : BOOLEAN, changed : BOOLEAN, bound : BOOLEAN,
             finalizeReturn : {"review", "artifact_verify"},
             corrections : 0..2, protocol : 0..2, best : Marks, stagnant : 0..(NoProgressLimit - 1),
             manifest : Words, fallback : BOOLEAN, gatePhase : Asking \cup {"none"},
             approvals : [Gates -> {"none", "automatic", "human"}]]
Operations == [state : OpStates, answer : Words, score : Marks, fresh : BOOLEAN, sealed : BOOLEAN]
Runs == [at : Working \cup Commanding \cup {"drive"}, code : Codes \cup {"none"}, score : Marks, trespass : BOOLEAN]

Shape ==
  /\ contract \in Contracts /\ item \in Rows /\ ctx \in Contexts /\ proof \in [Proofs -> Freshness]
  /\ op \in [Kinds -> Operations] /\ run \in Runs
  /\ calls \in 0..contract.limit /\ repairs \in Nat /\ failures \in 0..MaxFailures

\* The phases of each mode. Only a run describes a frontend, only a fix is no bug. A
\* fix has corrected nothing before it reaches its artifacts; collab has none to check.
RunMode == {"clarify", "prototype", "design", "plan", "provider_research", "implement", "readme", "verify",
            "visual_judge", "artifact_verify", "finalize", "deliver"}
FixMode == {"classify", "implement", "persistence", "verify", "review", "finalize", "artifact_verify", "deliver"}
CollabMode == {"diagnose", "acceptance", "acceptance_review", "deliver"}
BeforeArtifacts == {"classify", "implement", "persistence", "verify", "review"}
Placed(p, c, pr) ==
  /\ contract.mode = "run" => p \in RunMode /\ ~c.notBug /\ (p = "finalize" => c.finalizeReturn = "artifact_verify")
  /\ contract.mode = "fix" => p \in FixMode /\ ~c.frontend /\ (p \in BeforeArtifacts => c.finalizeReturn = "review")
  /\ contract.mode = "collab" => p \in CollabMode /\ ~c.frontend /\ pr["artifact"] = "none"

\* A gate is asked in the phase behind it and leads back to the one before it.
GateOpen(w, p, c) ==
  \/ w = "requirements" /\ p = "prototype" /\ c.gatePhase = "clarify"
  \/ w = "prototype" /\ p = "design" /\ c.gatePhase = "prototype"
  \/ w = "architecture" /\ p = "plan" /\ c.gatePhase = "design"
  \/ w = "reset" /\ p = "persistence" /\ c.gatePhase = "persistence"
  \/ w = "release" /\ p = "deliver" /\ c.gatePhase = "verify" /\ contract.mode = "run"
  \/ w = "user"
Approved(p, c) == c.frontend /\ p \in Later => c.approvals["prototype"] = "human"
Gating ==
  /\ item.status = "WAITING" => GateOpen(item.waiting, item.phase, ctx)
  /\ item.status # "CANCELLED" => Approved(item.phase, ctx) \/ (item.status = "WAITING" /\ item.waiting = "prototype")

\* The repairs so far, by the best score they reached and what came after it.
Bounded == repairs <= (ctx.best + 1) * NoProgressLimit + ctx.stagnant

\* What the proofs of the phases behind a verification are worth.
Current(pr, k) == pr[k] = "current"
Examined(c, pr) == (contract.mode = "fix" => Current(pr, "review")) /\ (c.frontend => Current(pr, "visual"))
Worth(p, c, pr) ==
  /\ p = "review" /\ ~c.notBug => Current(pr, "verification")
  /\ p \in {"visual_judge", "acceptance_review"} => Current(pr, "verification")
  /\ p = "artifact_verify" /\ contract.outputs = "none" => Current(pr, "verification")
  /\ p = "artifact_verify" \/ (p = "finalize" /\ c.finalizeReturn = "artifact_verify") =>
       (Current(pr, "verification") => Examined(c, pr))
  /\ p = "deliver" =>
       /\ Current(pr, "verification") /\ Examined(c, pr)
       /\ contract.mode = "collab" => Current(pr, "acceptance")
       /\ contract.outputs # "none" => pr["artifact"] \in {"none", "current"}

\* The operations: only a review asks to finalize; no answer is stale where nothing may
\* be written; a check that is confirmed is of the checkout as it is; a local effect
\* follows its confirmed call.
NothingOpen == \A k \in Kinds : op[k].state = "absent"
Operating ==
  /\ \A k \in Kinds : op[k].state = "FAILED" => op[k].answer \in Codes \ {"model_output"}
  /\ op["call"].state = "CONFIRMED" /\ op["call"].answer = "finalize" => item.phase = "review"
  /\ item.phase \in Reviews => op["call"].fresh
  /\ op["local"].state = "CONFIRMED" /\ item.phase \in Checks => op["local"].fresh
  /\ item.phase = "artifact_verify" /\ op["local"].state \in {"DISPATCHED", "UNKNOWN", "CONFIRMED"} /\ op["local"].fresh =>
       proof["verification"] = "current"
  /\ item.phase = "acceptance" /\ op["local"].state # "absent" =>
       op["call"].state = "CONFIRMED" /\ op["call"].answer = "pass"
  /\ item.phase = "deliver" /\ op["local"].state # "absent" => ~Missing

\* The process: where it is says what the row and the operations are.
Effects == LocalPhases \cup {"acceptance"}
Standing ==
  /\ run.at \in Working => item.status = "RUNNING"
  /\ run.at = "drive" => item.status \in {"READY", "WAITING"}
  /\ run.at \in {"failed", "effect failed"} => run.code \in Codes
  /\ run.at = "effect failed" => run.code # "model_output"
  /\ run.at = "failed" /\ run.code = "model_output" => item.phase = "review" \/ op["call"].answer = "bad"
  /\ run.at \in {"calling", "answered"} =>
       item.phase \in ModelPhases /\ (item.phase = "implement" => contract.mode # "run")
  /\ run.at = "calling" => op["call"].state = "DISPATCHED"
  /\ run.at = "answered" => op["call"].state = "CONFIRMED"
  /\ run.at = "effect" => item.phase = "acceptance" /\ op["call"].state = "CONFIRMED" /\ op["call"].answer = "pass"
  /\ run.at \in {"checking", "checked", "effect failed"} =>
       item.phase \in Effects /\ (item.phase = "artifact_verify" => contract.outputs # "none")
  /\ run.at = "checking" => op["local"].state = "DISPATCHED" /\ (item.phase \in Checks /\ ~run.trespass => op["local"].fresh)
  /\ run.at = "checked" => op["local"].state = "CONFIRMED"
  /\ run.at = "accepted" => item.phase = "acceptance" /\ ~run.trespass
  /\ run.at = "repairing" => contract.mode = "fix" /\ item.phase \in {"verify", "review"} /\ Stagnant < NoProgressLimit
  /\ \A k \in Kinds : run.at = Cancelling(k) => op[k].state = "FAILED"

\* A row that waits or has ended has no operation; one that was delivered stays there.
Resting ==
  /\ item.status \in {"WAITING", "COMPLETED"} => NothingOpen
  /\ item.status = "COMPLETED" => run.at = "idle"
  /\ item.result = "delivered" => item.phase = "deliver" /\ item.status = "COMPLETED" /\ ~Missing

IInv ==
  /\ Shape /\ Placed(item.phase, ctx, proof) /\ Gating /\ Bounded /\ Worth(item.phase, ctx, proof)
  /\ Operating /\ Standing /\ Resting

-----------------------------------------------------------------------------
\* Values.

LEMMA Values ==
  /\ NoScore \in Marks /\ NoOp \in Operations /\ NoOp.state = "absent" /\ NoOp.fresh = TRUE
  /\ NoRun \in Runs /\ NoRun.at = "idle" /\ NoRun.trespass = FALSE /\ NoRun.code = "none" /\ NoRun.score = NoScore
BY DEF NoScore, Marks, NoOp, Operations, OpStates, Words, NoRun, Runs, Working, Commanding

\* Every error has one of the categories.
LEMMA Categorised == \A code \in Codes : CategoryOf(code) \in Categories
BY DEF Codes, OfVerification, OfModel, CategoryOf, Categories
LEMMA EveryCategory == Categories \subseteq {CategoryOf(code) : code \in Codes}
<1>1. /\ CategoryOf("tests_failed") = "verification" /\ CategoryOf("model_output") = "model"
      /\ CategoryOf("outcome_unknown") = "reconciliation" /\ CategoryOf("provider") = "provider"
      /\ CategoryOf("environment") = "environment" /\ CategoryOf("budget") = "budget"
      /\ CategoryOf("state") = "state" /\ CategoryOf("engine") = "engine"
  BY DEF OfVerification, OfModel, CategoryOf
<1>2. {"tests_failed", "model_output", "outcome_unknown", "provider", "environment", "budget", "state", "engine"} \subseteq Codes
  BY DEF Codes, OfVerification, OfModel
<1> QED
  BY <1>1, <1>2 DEF Categories

\* Whatever a phase may be answered is a word.
LEMMA RepliesAreWords == \A p : Replies(p) \subseteq Words
BY DEF Replies, Asks, Words, Codes

LEMMA OnlyReviewsFinalize == \A p : "finalize" \in Replies(p) => p = "review"
BY DEF Replies, Asks

LEMMA Moved ==
  ASSUME NEW place \in Working \cup Commanding \cup {"drive"}, Goto(place)
  PROVE  run' \in Runs /\ run'.at = place /\ run'.trespass = FALSE /\ run'.code = "none" /\ run'.score = NoScore
BY Values DEF Goto, Runs
LEMMA Raised ==
  ASSUME NEW code \in Codes, Raise(code)
  PROVE  run' \in Runs /\ run'.at = "failed" /\ run'.code = code /\ run'.trespass = FALSE /\ run'.score = NoScore
BY Values DEF Raise, Runs, Working
LEMMA EffectRaised ==
  ASSUME NEW code \in Codes, NEW score \in Marks, EffectRaises(code, score)
  PROVE  run' \in Runs /\ run'.at = "effect failed" /\ run'.code = code /\ run'.score = score
BY Values DEF EffectRaises, Runs, Working

\* transition consumes operations: they are gone.
LEMMA ConsumedAll ==
  ASSUME op' = Consumed(op, Kinds)
  PROVE  op' \in [Kinds -> Operations] /\ \A k \in Kinds : op'[k] = NoOp
BY Values DEF Consumed
LEMMA ConsumedSome ==
  ASSUME op \in [Kinds -> Operations], NEW kinds, op' = Consumed(op, kinds)
  PROVE  op' \in [Kinds -> Operations] /\ \A k \in Kinds : op'[k] = IF k \in kinds THEN NoOp ELSE op[k]
BY Values DEF Consumed

\* The type invariant follows from the shape.
LEMMA ShapeTyped == Shape => TypeOK
<1> SUFFICES ASSUME Shape PROVE TypeOK
  OBVIOUS
<1>1. item \in [status : Statuses, phase : Phases, failure : {CategoryOf(c) : c \in Codes} \cup {"none"},
               waiting : Gates \cup {"none", "user"}, result : {"none", "delivered", "not_bug"}]
  BY EveryCategory DEF Shape, Rows
<1>2. /\ ctx.corrections \in 0 .. 2 /\ ctx.protocol \in 0 .. 2
      /\ ctx.best \in Scores \cup {NoScore} /\ ctx.stagnant \in 0 .. NoProgressLimit - 1
      /\ ctx.approvals \in [Gates -> {"none", "automatic", "human"}]
  BY DEF Shape, Contexts, Marks
<1>3. \A k \in Kinds : op[k].state \in OpStates
  BY DEF Shape, Operations
<1> QED
  BY <1>1, <1>2, <1>3 DEF TypeOK, Shape, Statuses, OpStates

-----------------------------------------------------------------------------
\* Kinds of steps. step ends with a transaction that moves the row and consumes its
\* operations: what the new phase asks for has to be there.

LEMMA AdvanceStep ==
  ASSUME IInv, run.at \in Working, NEW phase \in Phases, NEW context \in Contexts, NEW collected \in [Proofs -> Freshness],
         Advance(phase, context, collected), context.best = ctx.best, context.stagnant = ctx.stagnant,
         Placed(phase, context, collected), Approved(phase, context), Worth(phase, context, collected)
  PROVE  IInv'
<1>1. /\ item' = [item EXCEPT !.status = "READY", !.phase = phase, !.failure = "none"]
      /\ ctx' = context /\ proof' = collected /\ op' = Consumed(op, Kinds) /\ Goto("drive")
      /\ UNCHANGED <<contract, failures, calls, repairs>>
  BY DEF Advance, Quiet, Unchecked
<1>2. Shape /\ item.status = "RUNNING" /\ item.result # "delivered"
  BY DEF IInv, Standing, Resting
<1>3. item' \in Rows /\ item'.status = "READY" /\ item'.phase = phase /\ item'.result # "delivered"
  BY <1>1, <1>2 DEF Shape, Rows, Statuses
<1>4. run' \in Runs /\ run'.at = "drive"
  BY <1>1, Moved
<1>5. op' \in [Kinds -> Operations] /\ \A k \in Kinds : op'[k] = NoOp
  BY <1>1, ConsumedAll
<1>6. Shape'
  BY <1>1, <1>2, <1>3, <1>4, <1>5 DEF Shape
<1>7. Placed(item.phase, ctx, proof)' /\ Worth(item.phase, ctx, proof)'
  BY <1>1, <1>3 DEF Placed, Worth, Examined, Current
<1>8. Gating'
  BY <1>1, <1>3 DEF Gating, Approved
<1>9. Bounded'
  BY <1>1 DEF IInv, Bounded
<1>10. Operating'
  BY <1>5, Values DEF Operating, Kinds
<1>11. Standing'
  BY <1>3, <1>4 DEF Standing, Working, Cancelling
<1>12. Resting'
  BY <1>3 DEF Resting
<1> QED
  BY <1>6, <1>7, <1>8, <1>9, <1>10, <1>11, <1>12 DEF IInv

\* The row waits: for an answer, or at a gate.
LEMMA WaitStep ==
  ASSUME IInv, run.at \in Working, NEW phase \in Phases, NEW waiting \in Gates \cup {"user"}, NEW context \in Contexts,
         Wait(phase, waiting, context), context.best = ctx.best, context.stagnant = ctx.stagnant,
         Placed(phase, context, proof), Worth(phase, context, proof), GateOpen(waiting, phase, context),
         Approved(phase, context) \/ waiting = "prototype"
  PROVE  IInv'
<1>1. /\ item' = [item EXCEPT !.status = "WAITING", !.phase = phase, !.waiting = waiting]
      /\ ctx' = context /\ op' = Consumed(op, Kinds) /\ Goto("drive")
      /\ UNCHANGED <<contract, failures, calls, repairs, proof>>
  BY DEF Wait, Quiet, Unchecked
<1>2. Shape /\ item.status = "RUNNING" /\ item.result # "delivered"
  BY DEF IInv, Standing, Resting
<1>3. item' \in Rows /\ item'.status = "WAITING" /\ item'.phase = phase /\ item'.waiting = waiting /\ item'.result # "delivered"
  BY <1>1, <1>2 DEF Shape, Rows, Statuses
<1>4. run' \in Runs /\ run'.at = "drive"
  BY <1>1, Moved
<1>5. op' \in [Kinds -> Operations] /\ \A k \in Kinds : op'[k] = NoOp
  BY <1>1, ConsumedAll
<1>6. Shape'
  BY <1>1, <1>2, <1>3, <1>4, <1>5 DEF Shape
<1>7. Placed(item.phase, ctx, proof)' /\ Worth(item.phase, ctx, proof)'
  BY <1>1, <1>3 DEF Placed, Worth, Examined, Current
<1>8. Gating'
  BY <1>1, <1>3 DEF Gating, Approved, GateOpen
<1>9. Bounded'
  BY <1>1 DEF IInv, Bounded
<1>10. Operating'
  BY <1>5, Values DEF Operating, Kinds
<1>11. Standing'
  BY <1>3, <1>4 DEF Standing, Working, Cancelling
<1>12. Resting'
  BY <1>3, <1>5, Values DEF Resting, NothingOpen
<1> QED
  BY <1>6, <1>7, <1>8, <1>9, <1>10, <1>11, <1>12 DEF IInv

\* A step inside of the process moves it and its operations, and leaves the row alone.
LEMMA InsideStep ==
  ASSUME IInv, run.at \in Working, UNCHANGED <<contract, item, ctx, proof, repairs>>,
         calls' \in 0..contract.limit, failures' \in 0..MaxFailures,
         op' \in [Kinds -> Operations], run' \in Runs, Operating', Standing'
  PROVE  IInv'
<1>1. item.status = "RUNNING"
  BY DEF IInv, Standing
<1>2. Shape'
  BY DEF IInv, Shape
<1>3. Placed(item.phase, ctx, proof)' /\ Worth(item.phase, ctx, proof)' /\ Bounded'
  BY DEF IInv, Placed, Worth, Examined, Current, Bounded
<1>4. Gating' /\ Resting'
  BY <1>1 DEF IInv, Gating, Approved, GateOpen, Resting, Missing
<1> QED
  BY <1>2, <1>3, <1>4 DEF IInv

\* A ControlError is raised, and nothing else happens.
LEMMA FailStep ==
  ASSUME IInv, run.at \in Working, NEW code \in Codes, Fail(code),
         code = "model_output" => item.phase = "review" \/ op["call"].answer = "bad"
  PROVE  IInv'
<1>1. Raise(code) /\ UNCHANGED <<contract, item, ctx, proof, op, repairs, calls, failures>>
  BY DEF Fail, Quiet, Unchecked
<1>2. run' \in Runs /\ run'.at = "failed" /\ run'.code = code
  BY <1>1, Raised
<1>3. Shape /\ item.status = "RUNNING"
  BY DEF IInv, Standing
<1>4. Operating'
  BY <1>1 DEF IInv, Operating, Missing
<1>5. Standing'
  BY <1>1, <1>2, <1>3 DEF Standing, Working, Cancelling
<1> QED
  BY <1>1, <1>2, <1>3, <1>4, <1>5, InsideStep DEF Shape

\* A step that leaves the row alone, of the process or of a command.
LEMMA KeepStep ==
  ASSUME IInv, UNCHANGED <<contract, item, ctx, proof, calls, repairs>>, failures' \in 0..MaxFailures,
         op' \in [Kinds -> Operations], run' \in Runs, Operating', Standing',
         item.status \in {"WAITING", "COMPLETED"} => UNCHANGED op, item.status = "COMPLETED" => run'.at = "idle"
  PROVE  IInv'
<1>1. Shape'
  BY DEF IInv, Shape
<1>2. Placed(item.phase, ctx, proof)' /\ Worth(item.phase, ctx, proof)' /\ Bounded'
  BY DEF IInv, Placed, Worth, Examined, Current, Bounded
<1>3. Gating'
  BY DEF IInv, Gating, Approved, GateOpen
<1>4. Resting'
  BY DEF IInv, Resting, NothingOpen, Missing
<1> QED
  BY <1>1, <1>2, <1>3, <1>4 DEF IInv

\* A step that changes the status of the row, not its phase.
LEMMA RowStep ==
  ASSUME IInv, item' \in Rows, item'.phase = item.phase, item'.result = item.result, item.result # "delivered",
         item'.status \in {"READY", "RUNNING", "BLOCKED", "CANCELLED"}, ctx' \in Contexts,
         ctx'.best = ctx.best, ctx'.stagnant = ctx.stagnant, ctx'.frontend = ctx.frontend,
         ctx'.notBug = ctx.notBug, ctx'.finalizeReturn = ctx.finalizeReturn,
         item'.status # "CANCELLED" => Approved(item.phase, ctx'),
         UNCHANGED <<contract, proof, repairs, calls, failures>>,
         op' \in [Kinds -> Operations], run' \in Runs, Operating', Standing'
  PROVE  IInv'
<1>1. Shape'
  BY DEF IInv, Shape
<1>2. Placed(item.phase, ctx, proof)'
  BY DEF IInv, Placed
<1>3. Worth(item.phase, ctx, proof)'
  BY DEF IInv, Worth, Examined, Current
<1>4. Bounded'
  BY DEF IInv, Bounded
<1>5. Gating'
  BY DEF Gating, Approved
<1>6. Resting'
  BY DEF Resting
<1> QED
  BY <1>1, <1>2, <1>3, <1>4, <1>5, <1>6 DEF IInv

\* What the row says of itself.
LEMMA RowFacts ==
  ASSUME IInv
  PROVE  /\ item.status # "COMPLETED" => item.result # "delivered"
         /\ item.status \in {"READY", "RUNNING", "BLOCKED"} => Approved(item.phase, ctx)
         /\ item.status = "WAITING" /\ item.waiting # "prototype" => Approved(item.phase, ctx)
BY DEF IInv, Resting, Gating

\* The phase says which mode the row is of.
LEMMA ModeFacts ==
  ASSUME IInv
  PROVE  /\ contract.mode \in {"run", "fix", "collab"} /\ contract.outputs \in {"none", "shared", "own"}
         /\ contract.limit \in Nat
         /\ item.phase \in {"clarify", "prototype", "design", "plan", "provider_research", "readme", "visual_judge"} =>
              contract.mode = "run"
         /\ item.phase \in {"classify", "persistence", "review"} => contract.mode = "fix"
         /\ item.phase \in {"diagnose", "acceptance", "acceptance_review"} => contract.mode = "collab"
<1>1. /\ contract.mode \in {"run", "fix", "collab"} /\ contract.outputs \in {"none", "shared", "own"}
      /\ contract.limit \in Nat
  BY StagesAssumption DEF IInv, Shape
<1>2. Placed(item.phase, ctx, proof)
  BY DEF IInv
<1> QED
  BY <1>1, <1>2 DEF Placed, RunMode, FixMode, CollabMode

\* Operations that are left alone stay what they are; so do those of a row whose
\* operations are consumed, unless a local effect would lose its call.
LEMMA SameOperations ==
  ASSUME IInv, UNCHANGED <<contract, op, proof>>, item'.phase = item.phase
  PROVE  Operating' /\ op' \in [Kinds -> Operations]
BY DEF IInv, Shape, Operating, Missing
LEMMA FewerOperations ==
  ASSUME IInv, NEW kinds, op' = Consumed(op, kinds), UNCHANGED <<contract, proof>>, item'.phase = item.phase,
         item.phase = "acceptance" /\ "call" \in kinds => op["local"].state = "absent" \/ "local" \in kinds
  PROVE  Operating' /\ op' \in [Kinds -> Operations] /\ \A k \in Kinds : op'[k] = IF k \in kinds THEN NoOp ELSE op[k]
<1>1. op' \in [Kinds -> Operations] /\ \A k \in Kinds : op'[k] = IF k \in kinds THEN NoOp ELSE op[k]
  BY ConsumedSome DEF IInv, Shape
<1>2. Operating'
  BY <1>1, Values DEF IInv, Operating, Missing, Kinds
<1> QED
  BY <1>1, <1>2

-----------------------------------------------------------------------------
\* drive.

LEMMA InitStep == Init => IInv
<1> SUFFICES ASSUME Init PROVE IInv
  OBVIOUS
<1>0. contract.mode \in {"run", "fix", "collab"} /\ contract.checks \in BOOLEAN /\ contract.limit \in Nat
  BY StagesAssumption DEF Init
<1>1. FirstPhase(contract.mode) \in {"clarify", "classify", "diagnose"}
      /\ (contract.mode = "run" => FirstPhase(contract.mode) = "clarify")
      /\ (contract.mode = "fix" => FirstPhase(contract.mode) = "classify")
      /\ (contract.mode = "collab" => FirstPhase(contract.mode) = "diagnose")
  BY <1>0 DEF FirstPhase
<1>2. item \in Rows /\ item.status = "READY" /\ item.phase = FirstPhase(contract.mode) /\ item.result = "none"
  BY <1>1 DEF Init, Rows, Statuses, Phases, ModelPhases
<1>3. /\ ctx \in Contexts /\ ctx.frontend = FALSE /\ ctx.notBug = FALSE /\ ctx.finalizeReturn = "review"
      /\ ctx.best = NoScore /\ ctx.stagnant = 0
  <2>1. NoScore \in Marks /\ 0 \in 0..2 /\ 0 \in 0..(NoProgressLimit - 1)
    BY Values, StagesAssumption
  <2>2. [g \in Gates |-> "none"] \in [Gates -> {"none", "automatic", "human"}]
    OBVIOUS
  <2>3. (contract.checks \/ contract.mode # "fix") \in BOOLEAN
    OBVIOUS
  <2> QED
    BY <2>1, <2>2, <2>3 DEF Init, Contexts, Words
<1>4. op \in [Kinds -> Operations] /\ \A k \in Kinds : op[k] = NoOp
  BY Values DEF Init
<1>5. Shape
  BY <1>0, <1>2, <1>3, <1>4, Values, StagesAssumption DEF Init, Shape, Freshness
<1>6. Placed(item.phase, ctx, proof) /\ Worth(item.phase, ctx, proof) /\ Gating
  BY <1>0, <1>1, <1>2, <1>3 DEF Init, Placed, RunMode, FixMode, CollabMode, Proofs, Worth, Gating, Approved
<1>7. Bounded
  BY <1>3, StagesAssumption DEF Init, Bounded, NoScore
<1>8. Operating
  BY <1>4, Values DEF Operating, Kinds
<1>9. Standing /\ Resting
  BY <1>2, Values DEF Init, Standing, Resting, Working, Cancelling
<1> QED
  BY <1>5, <1>6, <1>7, <1>8, <1>9 DEF IInv

LEMMA EnterStep == ASSUME IInv, Enter PROVE IInv'
<1>1. item.status = "READY" /\ item' = [item EXCEPT !.status = "RUNNING"] /\ Goto("step")
      /\ UNCHANGED <<contract, failures, calls, repairs, ctx, proof, op>>
  BY DEF Enter, Quiet, Unchecked
<1>2. Shape
  BY DEF IInv
<1>3. item' \in Rows /\ item'.status = "RUNNING" /\ item'.phase = item.phase /\ item'.result = item.result
  BY <1>1, <1>2 DEF Shape, Rows, Statuses
<1>4. run' \in Runs /\ run'.at = "step"
  BY <1>1, Moved DEF Working
<1>5. Standing'
  BY <1>3, <1>4 DEF Standing, Working, Cancelling
<1>6. Operating' /\ op' \in [Kinds -> Operations]
  BY <1>1, <1>3, SameOperations
<1>7. item.result # "delivered" /\ Approved(item.phase, ctx)
  BY <1>1, RowFacts
<1> QED
  BY <1>1, <1>2, <1>3, <1>4, <1>5, <1>6, <1>7, RowStep DEF Shape

LEMMA ReturnStep == ASSUME IInv, Return PROVE IInv'
<1>1. run' = NoRun /\ UNCHANGED <<contract, failures, calls, repairs, item, ctx, proof, op>>
  BY DEF Return, Quiet, Unchecked
<1>2. Standing'
  BY <1>1, Values DEF Standing, Working, Cancelling
<1>3. Operating' /\ op' \in [Kinds -> Operations]
  BY <1>1, SameOperations
<1>4. failures \in 0..MaxFailures
  BY DEF IInv, Shape
<1> QED
  BY <1>1, <1>2, <1>3, <1>4, Values, KeepStep

-----------------------------------------------------------------------------
\* Model calls.

LEMMA StepFacts ==
  ASSUME IInv, run.at \in Working
  PROVE  /\ Shape /\ item.status = "RUNNING" /\ Approved(item.phase, ctx) /\ Placed(item.phase, ctx, proof)
         /\ Worth(item.phase, ctx, proof) /\ item.phase \in Phases /\ ctx \in Contexts /\ proof \in [Proofs -> Freshness]
<1>1. Shape /\ item.status = "RUNNING" /\ Placed(item.phase, ctx, proof) /\ Worth(item.phase, ctx, proof)
  BY DEF IInv, Standing
<1>2. item.phase \in Phases
  BY <1>1 DEF Shape, Rows
<1> QED
  BY <1>1, <1>2, RowFacts DEF Shape

LEMMA SkipPrototypeStep == ASSUME IInv, SkipPrototype PROVE IInv'
<1>1. run.at = "step" /\ item.phase = "prototype" /\ ~ctx.frontend /\ Advance("design", ctx, proof)
  BY DEF SkipPrototype, In, At
<1>2. Placed(item.phase, ctx, proof) /\ ctx \in Contexts /\ proof \in [Proofs -> Freshness] /\ contract.mode = "run"
  BY <1>1, StepFacts, ModeFacts DEF Working
<1>3. Placed("design", ctx, proof) /\ Approved("design", ctx) /\ Worth("design", ctx, proof)
  BY <1>1, <1>2 DEF Placed, RunMode, Approved, Worth
<1> QED
  BY <1>1, <1>2, <1>3, AdvanceStep DEF Working, Phases, ModelPhases

LEMMA IntegrateStep == ASSUME IInv, Integrate PROVE IInv'
<1> DEFINE stale == [k \in Proofs |-> IF proof[k] = "none" THEN "none" ELSE "stale"]
<1>1. /\ run.at = "step" /\ item.phase = "implement" /\ contract.mode = "run" /\ proof' = stale /\ Goto("drive")
      /\ item' = [item EXCEPT !.status = "READY", !.phase = "readme", !.failure = "none"]
      /\ UNCHANGED <<contract, failures, calls, repairs, ctx, op>>
  BY DEF Integrate, In, At, Quiet, Unchecked
<1>2. Shape /\ item.status = "RUNNING" /\ Approved(item.phase, ctx) /\ Placed(item.phase, ctx, proof) /\ item.result # "delivered"
  BY <1>1, StepFacts, RowFacts DEF Working
<1>3. item' \in Rows /\ item'.status = "READY" /\ item'.phase = "readme" /\ item'.result = item.result
  BY <1>1, <1>2 DEF Shape, Rows, Statuses, Phases, ModelPhases
<1>4. run' \in Runs /\ run'.at = "drive"
  BY <1>1, Moved
<1>5. Shape'
  BY <1>1, <1>2, <1>3, <1>4 DEF Shape, Freshness
<1>6. Placed(item.phase, ctx, proof)' /\ Worth(item.phase, ctx, proof)'
  BY <1>1, <1>2, <1>3 DEF Placed, RunMode, Worth
<1>7. Gating'
  BY <1>1, <1>2, <1>3 DEF Gating, Approved, Later
<1>8. Operating'
  BY <1>1, <1>3 DEF IInv, Operating, Reviews, Checks
<1>9. Standing' /\ Resting' /\ Bounded'
  BY <1>1, <1>2, <1>3, <1>4 DEF IInv, Standing, Working, Cancelling, Resting, Bounded
<1> QED
  BY <1>5, <1>6, <1>7, <1>8, <1>9 DEF IInv

LEMMA BrokenSealStep == ASSUME IInv, BrokenSeal \/ ArtifactSeal \/ Incomplete PROVE IInv'
<1>1. run.at = "step" /\ \E code \in {"proof_source_changed", "state"} : Fail(code)
  BY DEF BrokenSeal, ModelStep, ArtifactSeal, Incomplete, In, At
<1> QED
  BY <1>1, FailStep DEF Working, Codes, OfVerification

LEMMA RegisterStep == ASSUME IInv, Register PROVE IInv'
<1>1. /\ run.at = "step" /\ item.phase \in ModelPhases /\ (item.phase = "implement" => contract.mode # "run")
      /\ op["call"].state = "absent" /\ UNCHANGED <<contract, failures, item, ctx, proof, repairs>>
  BY DEF Register, ModelStep, At, Unchecked
<1>2. Shape /\ item.status = "RUNNING"
  BY <1>1, StepFacts DEF Working
<1>3. CASE calls < contract.limit
  <2>1. op' = [op EXCEPT !["call"] = [NoOp EXCEPT !.state = "DISPATCHED"]] /\ calls' = calls + 1 /\ Goto("calling")
    BY <1>3 DEF Register, CanCall, Charge
  <2>2. [NoOp EXCEPT !.state = "DISPATCHED"] \in Operations
    BY Values DEF Operations, OpStates
  <2>3. /\ op' \in [Kinds -> Operations] /\ op'["local"] = op["local"]
        /\ op'["call"].state = "DISPATCHED" /\ op'["call"].fresh = TRUE
    BY <1>2, <2>1, <2>2, Values DEF Shape, Kinds, Operations
  <2>4. run' \in Runs /\ run'.at = "calling"
    BY <2>1, Moved DEF Working
  <2>5. Operating'
    BY <1>1, <2>3 DEF IInv, Operating, Missing, Kinds
  <2>6. Standing'
    BY <1>1, <1>2, <2>3, <2>4 DEF Standing, Working, Cancelling
  <2>7. calls' \in 0..contract.limit
    BY <1>2, <1>3, <2>1, ModeFacts DEF Shape
  <2> QED
    BY <1>1, <1>2, <2>3, <2>4, <2>5, <2>6, <2>7, InsideStep DEF Shape, Working
<1>4. CASE ~(calls < contract.limit)
  <2>1. Raise("budget") /\ UNCHANGED <<op, calls>>
    BY <1>4 DEF Register, CanCall
  <2>2. Fail("budget")
    BY <1>1, <2>1 DEF Fail, Quiet, Unchecked
  <2> QED
    BY <1>1, <2>2, FailStep DEF Working, Codes
<1> QED
  BY <1>3, <1>4

LEMMA RetainedStep == ASSUME IInv, Retained PROVE IInv'
<1>1. /\ run.at = "step" /\ item.phase \in ModelPhases /\ (item.phase = "implement" => contract.mode # "run")
      /\ UNCHANGED <<contract, failures, calls, repairs, item, ctx, proof, op>>
  BY DEF Retained, ModelStep, At, Quiet, Unchecked
<1>2. Shape /\ item.status = "RUNNING"
  BY <1>1, StepFacts DEF Working
<1>3. CASE op["call"].state = "CONFIRMED" /\ Goto("answered")
  <2>1. run' \in Runs /\ run'.at = "answered"
    BY <1>3, Moved DEF Working
  <2>2. Operating' /\ op' \in [Kinds -> Operations]
    BY <1>1, SameOperations
  <2>3. Standing'
    BY <1>1, <1>2, <1>3, <2>1 DEF Standing, Working, Cancelling
  <2> QED
    BY <1>1, <1>2, <2>1, <2>2, <2>3, InsideStep DEF Shape, Working
<1>4. CASE \E code \in Codes \ {"model_output"} : Raise(code)
  <2>1. PICK code \in Codes \ {"model_output"} : Raise(code)
    BY <1>4
  <2>2. Fail(code)
    BY <1>1, <2>1 DEF Fail, Quiet, Unchecked
  <2> QED
    BY <1>1, <2>1, <2>2, FailStep DEF Working
<1>5. op["call"].state = "FAILED" => op["call"].answer \in Codes \ {"model_output"}
  BY DEF IInv, Operating, Kinds
<1>6. {"source_changed", "outcome_unknown"} \subseteq Codes \ {"model_output"}
  BY DEF Codes, OfModel
<1>7. \/ op["call"].state = "CONFIRMED" /\ Goto("answered")
      \/ Raise("source_changed") \/ Raise("outcome_unknown")
      \/ op["call"].state = "FAILED" /\ Raise(op["call"].answer)
  BY DEF Retained
<1> QED
  BY <1>3, <1>4, <1>5, <1>6, <1>7

-----------------------------------------------------------------------------
\* Workers and checks write.

\* A write makes every proof stale and every operation that is open.
LEMMA Soiled ==
  ASSUME Shape, Writing
  PROVE  /\ op' \in [Kinds -> Operations]
         /\ \A k \in Kinds : op'[k].state = op[k].state /\ op'[k].answer = op[k].answer /\ op'[k].fresh = FALSE
         /\ proof' \in [Proofs -> Freshness] /\ \A k \in Proofs : proof'[k] # "current"
         /\ \A k \in Proofs : proof[k] = "none" => proof'[k] = "none"
<1>1. \A k \in Kinds : op'[k] = [op[k] EXCEPT !.fresh = FALSE] /\ op[k] \in Operations
  BY DEF Writing, Touched, Shape
<1>2. op' = Touched(op)
  BY DEF Writing
<1>3. \A k \in Kinds : [op[k] EXCEPT !.fresh = FALSE] \in Operations
  BY <1>1 DEF Operations
<1>4. op' \in [Kinds -> Operations]
  BY <1>2, <1>3 DEF Touched
<1>5. \A k \in Kinds : op'[k].state = op[k].state /\ op'[k].answer = op[k].answer /\ op'[k].fresh = FALSE
  BY <1>1 DEF Operations
<1> QED
  BY <1>4, <1>5 DEF Writing, Freshness

LEMMA WriteStep ==
  ASSUME IInv, run.at \in Working, UNCHANGED <<contract, item, calls, repairs, failures>>, ctx' \in Contexts,
         ctx'.best = ctx.best, ctx'.stagnant = ctx.stagnant, ctx'.frontend = ctx.frontend, ctx'.notBug = ctx.notBug,
         ctx'.finalizeReturn = ctx.finalizeReturn, ctx'.approvals["prototype"] = ctx.approvals["prototype"],
         proof' \in [Proofs -> Freshness], Placed(item.phase, ctx', proof'), Worth(item.phase, ctx', proof'),
         op' \in [Kinds -> Operations], run' \in Runs, Operating', Standing'
  PROVE  IInv'
<1>1. item.status = "RUNNING" /\ item.result # "delivered" /\ Approved(item.phase, ctx)
  BY StepFacts, RowFacts
<1>2. Shape'
  BY DEF IInv, Shape
<1>3. Placed(item.phase, ctx, proof)' /\ Worth(item.phase, ctx, proof)' /\ Bounded'
  BY DEF IInv, Placed, Worth, Examined, Current, Bounded
<1>4. Gating' /\ Resting'
  BY <1>1 DEF Gating, Approved, Resting
<1> QED
  BY <1>2, <1>3, <1>4 DEF IInv

\* A decision about a gate changes no other.
LEMMA DecisionTaken ==
  ASSUME NEW c \in Contexts, NEW gate \in Gates, NEW how \in {"none", "automatic", "human"}
  PROVE  /\ Decided(c, gate, how) \in Contexts
         /\ Decided(c, gate, how).best = c.best /\ Decided(c, gate, how).stagnant = c.stagnant
         /\ Decided(c, gate, how).frontend = c.frontend /\ Decided(c, gate, how).notBug = c.notBug
         /\ Decided(c, gate, how).finalizeReturn = c.finalizeReturn /\ Decided(c, gate, how).gatePhase = c.gatePhase
         /\ Decided(c, gate, how).approvals[gate] = how
         /\ \A g \in Gates \ {gate} : Decided(c, gate, how).approvals[g] = c.approvals[g]
BY DEF Decided, Contexts

LEMMA WriteSourceStep == ASSUME IInv, WriteSource PROVE IInv'
<1> DEFINE how == IF item.phase = "implement" THEN "none" ELSE ctx.approvals["reset"]
<1> DEFINE decided == Decided(ctx, "reset", how)
<1>1. /\ run.at = "calling" /\ item.phase \in Writers /\ Writing
      /\ run' = [run EXCEPT !.trespass = @ \/ item.phase = "finalize"]
      /\ ctx' = [decided EXCEPT !.changed = TRUE]
      /\ UNCHANGED <<contract, failures, calls, repairs, item>>
  BY DEF WriteSource, At, Quiet, Unchecked
<1>2. /\ Shape /\ item.status = "RUNNING" /\ Placed(item.phase, ctx, proof) /\ ctx \in Contexts
      /\ op["call"].state = "DISPATCHED" /\ (item.phase = "implement" => contract.mode # "run")
      /\ item.phase \in ModelPhases /\ Operating
  BY <1>1, StepFacts DEF IInv, Standing, Working
<1>3. how \in {"none", "automatic", "human"}
  BY <1>2 DEF Contexts, Gates
<1>4. /\ decided \in Contexts /\ decided.best = ctx.best /\ decided.stagnant = ctx.stagnant
      /\ decided.frontend = ctx.frontend /\ decided.notBug = ctx.notBug /\ decided.finalizeReturn = ctx.finalizeReturn
      /\ decided.approvals["prototype"] = ctx.approvals["prototype"]
  BY <1>2, <1>3, DecisionTaken DEF Gates
<1> HIDE DEF decided, how
<1>5. /\ ctx' \in Contexts /\ ctx'.best = ctx.best /\ ctx'.stagnant = ctx.stagnant
      /\ ctx'.frontend = ctx.frontend /\ ctx'.notBug = ctx.notBug /\ ctx'.finalizeReturn = ctx.finalizeReturn
      /\ ctx'.approvals["prototype"] = ctx.approvals["prototype"]
  BY <1>1, <1>4 DEF Contexts
<1>6. /\ op' \in [Kinds -> Operations]
      /\ \A k \in Kinds : op'[k].state = op[k].state /\ op'[k].answer = op[k].answer /\ op'[k].fresh = FALSE
      /\ proof' \in [Proofs -> Freshness] /\ \A k \in Proofs : proof'[k] # "current"
      /\ \A k \in Proofs : proof[k] = "none" => proof'[k] = "none"
  BY <1>1, <1>2, Soiled
<1>7. run' \in Runs /\ run'.at = "calling"
  <2>1. run \in Runs /\ (run.trespass \/ item.phase = "finalize") \in BOOLEAN
    BY <1>2 DEF Shape
  <2> QED
    BY <1>1, <2>1 DEF Runs
<1>8. Placed(item.phase, ctx', proof')
  BY <1>2, <1>5, <1>6 DEF Placed, Proofs
<1>9. Worth(item.phase, ctx', proof')
  BY <1>1, <1>6 DEF Worth, Writers, Current, Proofs
<1>10. Operating'
  <2>1. item.phase \notin Reviews /\ item.phase \notin {"artifact_verify", "deliver"} /\ (item.phase \in Checks => item.phase = "acceptance")
    BY <1>1 DEF Writers, Reviews, Checks
  <2>2. item.phase = "acceptance" => op["local"].state = "absent"
    BY <1>2 DEF Operating
  <2>3. \A k \in Kinds : op[k].state = "FAILED" => op[k].answer \in Codes \ {"model_output"}
    BY <1>2 DEF Operating
  <2>4. /\ op'["local"].state = op["local"].state /\ op'["call"].state = "DISPATCHED" /\ item' = item
        /\ \A k \in Kinds : op'[k].state = op[k].state /\ op'[k].answer = op[k].answer
    BY <1>1, <1>2, <1>6 DEF Kinds
  <2>5. \A k \in Kinds : op'[k].state = "FAILED" => op'[k].answer \in Codes \ {"model_output"}
    BY <2>3, <2>4
  <2> QED
    BY <2>1, <2>2, <2>4, <2>5 DEF Operating, Reviews, Checks, Kinds
<1>11. Standing'
  <2>1. op'["call"].state = "DISPATCHED" /\ UNCHANGED <<item, contract>>
    BY <1>1, <1>2, <1>6 DEF Kinds
  <2> QED
    BY <1>2, <1>7, <2>1 DEF Standing, Working, Cancelling
<1> QED
  BY <1>1, <1>5, <1>6, <1>7, <1>8, <1>9, <1>10, <1>11, WriteStep DEF Working

LEMMA WriteReportsStep == ASSUME IInv, WriteReports PROVE IInv'
<1>1. /\ run.at = "calling" /\ item.phase \in {"finalize", "acceptance"} /\ op' = Touched(op)
      /\ proof' = [proof EXCEPT !["artifact"] = IF @ = "none" THEN "none" ELSE "stale"]
      /\ UNCHANGED <<contract, failures, calls, repairs, item, ctx, run>>
  BY DEF WriteReports, At, Quiet, Unchecked
<1>2. /\ Shape /\ item.status = "RUNNING" /\ Placed(item.phase, ctx, proof) /\ Worth(item.phase, ctx, proof) /\ ctx \in Contexts
      /\ op["call"].state = "DISPATCHED" /\ item.phase \in ModelPhases /\ Operating
  BY <1>1, StepFacts DEF IInv, Standing, Working
<1>3. /\ op' \in [Kinds -> Operations]
      /\ \A k \in Kinds : op'[k].state = op[k].state /\ op'[k].answer = op[k].answer /\ op'[k].fresh = FALSE
  <2>1. \A k \in Kinds : op[k] \in Operations /\ op'[k] = [op[k] EXCEPT !.fresh = FALSE]
    BY <1>1, <1>2 DEF Touched, Shape
  <2>2. \A k \in Kinds : [op[k] EXCEPT !.fresh = FALSE] \in Operations
    BY <2>1 DEF Operations
  <2>3. op' \in [Kinds -> Operations]
    BY <1>1, <2>2 DEF Touched
  <2> QED
    BY <2>1, <2>3 DEF Operations
<1>4. /\ proof' \in [Proofs -> Freshness] /\ \A k \in Proofs \ {"artifact"} : proof'[k] = proof[k]
      /\ proof["artifact"] = "none" => proof'["artifact"] = "none"
  BY <1>1, <1>2 DEF Shape, Freshness, Proofs
<1>5. Placed(item.phase, ctx', proof')
  BY <1>1, <1>2, <1>4 DEF Placed
<1>6. Worth(item.phase, ctx', proof')
  BY <1>1, <1>2, <1>4 DEF Worth, Examined, Current, Proofs
<1>7. Operating'
  BY <1>1, <1>2, <1>3 DEF Operating, Reviews, Checks, Kinds
<1>8. Standing' /\ run' \in Runs
  BY <1>1, <1>2, <1>3 DEF Shape, Standing, Working, Cancelling, Kinds
<1> QED
  BY <1>1, <1>2, <1>3, <1>4, <1>5, <1>6, <1>7, <1>8, WriteStep DEF Working

LEMMA CheckWritesStep == ASSUME IInv, CheckWrites PROVE IInv'
<1>1. run.at = "checking" /\ item.phase # "deliver" /\ UNCHANGED <<contract, failures, calls, repairs, item>>
  BY DEF CheckWrites, At, Quiet, Unchecked
<1>2. /\ Shape /\ item.status = "RUNNING" /\ Placed(item.phase, ctx, proof) /\ Worth(item.phase, ctx, proof) /\ ctx \in Contexts
      /\ op["local"].state = "DISPATCHED" /\ item.phase \in Effects /\ Operating
      /\ (item.phase = "artifact_verify" => contract.outputs # "none") /\ Standing
  BY <1>1, StepFacts DEF IInv, Standing, Working
<1>3. CASE Writing /\ ctx' = [ctx EXCEPT !.changed = TRUE] /\ run' = [run EXCEPT !.trespass = item.phase \in Checks]
  <2>1. /\ ctx' \in Contexts /\ ctx'.best = ctx.best /\ ctx'.stagnant = ctx.stagnant
        /\ ctx'.frontend = ctx.frontend /\ ctx'.notBug = ctx.notBug /\ ctx'.finalizeReturn = ctx.finalizeReturn
        /\ ctx'.approvals = ctx.approvals
    BY <1>2, <1>3 DEF Contexts
  <2>2. /\ op' \in [Kinds -> Operations]
        /\ \A k \in Kinds : op'[k].state = op[k].state /\ op'[k].answer = op[k].answer /\ op'[k].fresh = FALSE
        /\ proof' \in [Proofs -> Freshness] /\ \A k \in Proofs : proof'[k] # "current"
        /\ \A k \in Proofs : proof[k] = "none" => proof'[k] = "none"
    BY <1>2, <1>3, Soiled
  <2>3. run' \in Runs /\ run'.at = "checking" /\ run'.trespass = (item.phase \in Checks)
    <3>1. run \in Runs /\ (item.phase \in Checks) \in BOOLEAN
      BY <1>2 DEF Shape
    <3> QED
      BY <1>1, <1>3, <3>1 DEF Runs
  <2>4. Placed(item.phase, ctx', proof')
    BY <1>2, <2>1, <2>2 DEF Placed, Proofs
  <2>5. Worth(item.phase, ctx', proof')
    BY <1>1, <1>2, <2>2 DEF Worth, Effects, LocalPhases, Current, Proofs
  <2>6. Operating'
    BY <1>1, <1>2, <2>2 DEF Operating, Effects, LocalPhases, Reviews, Kinds
  <2>7. Standing'
    BY <1>1, <1>2, <2>2, <2>3 DEF Standing, Working, Cancelling, Kinds
  <2> QED
    BY <1>1, <2>1, <2>2, <2>3, <2>4, <2>5, <2>6, <2>7, WriteStep DEF Working
<1>4. CASE op' = [op EXCEPT !["call"] = [@ EXCEPT !.fresh = FALSE]] /\ UNCHANGED <<ctx, proof, run>>
  <2>1. op["call"] \in Operations /\ [op["call"] EXCEPT !.fresh = FALSE] \in Operations
    BY <1>2 DEF Shape, Kinds, Operations
  <2>2. /\ op' \in [Kinds -> Operations] /\ op'["local"] = op["local"]
        /\ op'["call"].state = op["call"].state /\ op'["call"].answer = op["call"].answer
    BY <1>2, <1>4, <2>1 DEF Shape, Kinds, Operations
  <2>3. Operating'
    BY <1>1, <1>2, <1>4, <2>2 DEF Operating, Missing, Effects, LocalPhases, Reviews, Kinds
  <2>4. Standing'
    BY <1>1, <1>2, <1>4, <2>2 DEF Standing, Working, Cancelling, Kinds
  <2> QED
    BY <1>1, <1>2, <1>4, <2>2, <2>3, <2>4, InsideStep DEF Shape, Working
<1> QED
  BY <1>1, <1>3, <1>4 DEF CheckWrites

-----------------------------------------------------------------------------
\* A call ends.

LEMMA Settling ==
  ASSUME Shape, NEW kind \in Kinds, NEW state \in OpStates, NEW answer \in Words, NEW score \in Marks,
         Settled(kind, state, answer, score)
  PROVE  /\ op' \in [Kinds -> Operations] /\ \A k \in Kinds \ {kind} : op'[k] = op[k]
         /\ op'[kind].state = state /\ op'[kind].answer = answer /\ op'[kind].fresh = TRUE
<1> DEFINE new == [state |-> state, answer |-> answer, score |-> score, fresh |-> TRUE, sealed |-> state = "CONFIRMED"]
<1>1. (state = "CONFIRMED") \in BOOLEAN
  OBVIOUS
<1>2. new \in Operations /\ new.state = state /\ new.answer = answer /\ new.fresh = TRUE
  BY <1>1 DEF Operations
<1>3. op' = [op EXCEPT ![kind] = new]
  BY DEF Settled
<1> HIDE DEF new
<1> QED
  BY <1>2, <1>3 DEF Shape

\* The settled call: the local effect of the phase is not there yet.
LEMMA CallSettled ==
  ASSUME IInv, run.at = "calling", UNCHANGED <<contract, item, proof>>, op' \in [Kinds -> Operations],
         op'["local"] = op["local"], op'["call"].fresh = TRUE,
         op'["call"].state = "FAILED" => op'["call"].answer \in Codes \ {"model_output"},
         op'["call"].state = "CONFIRMED" => op'["call"].answer \in Replies(item.phase)
  PROVE  Operating'
<1>1. op["call"].state = "DISPATCHED" /\ Operating
  BY DEF IInv, Standing
<1>2. op'["call"].state = "CONFIRMED" /\ op'["call"].answer = "finalize" => item.phase = "review"
  BY OnlyReviewsFinalize
<1> QED
  BY <1>1, <1>2 DEF Operating, Missing, Kinds

LEMMA CallFailed ==
  ASSUME IInv, run.at = "calling", NEW code \in Codes \ {"model_output"},
         Settled("call", "FAILED", code, NoScore), Raise(code), Quiet, UNCHANGED <<item, ctx, proof>>
  PROVE  IInv'
<1>1. Shape /\ item.status = "RUNNING"
  BY StepFacts DEF Working
<1>2. /\ op' \in [Kinds -> Operations] /\ op'["local"] = op["local"]
      /\ op'["call"].state = "FAILED" /\ op'["call"].answer = code /\ op'["call"].fresh = TRUE
  BY <1>1, Settling, Values DEF Kinds, OpStates, Words
<1>3. Operating'
  BY <1>2, CallSettled DEF Quiet, Unchecked
<1>4. run' \in Runs /\ run'.at = "failed" /\ run'.code = code
  BY Raised
<1>5. Standing'
  BY <1>1, <1>4 DEF Standing, Working, Cancelling
<1> QED
  BY <1>1, <1>2, <1>3, <1>4, <1>5, InsideStep DEF Quiet, Unchecked, Shape, Working

LEMMA AnsweredStep == ASSUME IInv, Answered PROVE IInv'
<1>1. run.at = "calling" /\ Quiet /\ UNCHANGED <<item, ctx, proof>>
  BY DEF Answered, At
<1>2. /\ Shape /\ item.status = "RUNNING" /\ item.phase \in ModelPhases /\ (item.phase = "implement" => contract.mode # "run")
  BY <1>1, StepFacts DEF IInv, Standing, Working
<1>3. CASE ~run.trespass
  <2>1. PICK r \in Replies(item.phase) : Settled("call", "CONFIRMED", r, NoScore) /\ Goto("answered")
    BY <1>3 DEF Answered
  <2>2. r \in Words
    BY RepliesAreWords
  <2>3. /\ op' \in [Kinds -> Operations] /\ op'["local"] = op["local"]
        /\ op'["call"].state = "CONFIRMED" /\ op'["call"].answer = r /\ op'["call"].fresh = TRUE
    BY <1>2, <2>1, <2>2, Settling, Values DEF Kinds, OpStates
  <2>4. Operating'
    BY <1>1, <2>3, CallSettled DEF Quiet, Unchecked
  <2>5. run' \in Runs /\ run'.at = "answered"
    BY <2>1, Moved DEF Working
  <2>6. Standing'
    BY <1>1, <1>2, <2>3, <2>5 DEF Standing, Working, Cancelling, Quiet, Unchecked
  <2> QED
    BY <1>1, <1>2, <2>3, <2>4, <2>5, <2>6, InsideStep DEF Quiet, Unchecked, Shape, Working
<1>4. CASE run.trespass
  <2>1. Settled("call", "FAILED", "stage_scope", NoScore) /\ Raise("stage_scope")
    BY <1>4 DEF Answered
  <2> QED
    BY <1>1, <2>1, CallFailed DEF Codes, OfModel
<1> QED
  BY <1>3, <1>4

LEMMA CallFailsStep == ASSUME IInv, CallFails PROVE IInv'
<1>1. PICK code \in {"provider", "quota"} : Settled("call", "FAILED", code, NoScore) /\ Raise(code)
  BY DEF CallFails
<1> QED
  BY <1>1, CallFailed DEF CallFails, At, Codes

-----------------------------------------------------------------------------
\* What step makes of an answer.

LEMMA RefusedStep == ASSUME IInv, Refused PROVE IInv'
<1>1. run.at = "answered" /\ Fail("model_output") /\ (item.phase = "review" \/ op["call"].answer = "bad")
  BY DEF Refused, Reply, At
<1> QED
  BY <1>1, FailStep DEF Working, Codes, OfModel

LEMMA AskedStep == ASSUME IInv, Asked PROVE IInv'
<1>1. run.at = "answered" /\ Wait(item.phase, "user", ctx)
  BY DEF Asked, At
<1>2. run.at \in Working /\ GateOpen("user", item.phase, ctx)
  BY <1>1 DEF Working, GateOpen
<1> QED
  BY <1>1, <1>2, StepFacts, WaitStep

\* The phases of a run, one after the other.
LEMMA RunOrder ==
  /\ NextRunPhase("clarify") = "prototype" /\ NextRunPhase("prototype") = "design" /\ NextRunPhase("design") = "plan"
  /\ NextRunPhase("plan") = "provider_research" /\ NextRunPhase("provider_research") = "implement"
  /\ NextRunPhase("readme") = "verify"
<1>1. DOMAIN RunPhases = 1..6
  BY DEF RunPhases
<1>2. (CHOOSE i \in 1..6 : RunPhases[i] = "clarify") = 1
  <2>1. 1 \in 1..6 /\ RunPhases[1] = "clarify" /\ \A i \in 1..6 : RunPhases[i] = "clarify" => i = 1
    BY DEF RunPhases
  <2> QED
    BY <2>1
<1>3. (CHOOSE i \in 1..6 : RunPhases[i] = "prototype") = 2
  <2>1. 2 \in 1..6 /\ RunPhases[2] = "prototype" /\ \A i \in 1..6 : RunPhases[i] = "prototype" => i = 2
    BY DEF RunPhases
  <2> QED
    BY <2>1
<1>4. (CHOOSE i \in 1..6 : RunPhases[i] = "design") = 3
  <2>1. 3 \in 1..6 /\ RunPhases[3] = "design" /\ \A i \in 1..6 : RunPhases[i] = "design" => i = 3
    BY DEF RunPhases
  <2> QED
    BY <2>1
<1>5. (CHOOSE i \in 1..6 : RunPhases[i] = "plan") = 4
  <2>1. 4 \in 1..6 /\ RunPhases[4] = "plan" /\ \A i \in 1..6 : RunPhases[i] = "plan" => i = 4
    BY DEF RunPhases
  <2> QED
    BY <2>1
<1>6. (CHOOSE i \in 1..6 : RunPhases[i] = "provider_research") = 5
  <2>1. 5 \in 1..6 /\ RunPhases[5] = "provider_research" /\ \A i \in 1..6 : RunPhases[i] = "provider_research" => i = 5
    BY DEF RunPhases
  <2> QED
    BY <2>1
<1>7. /\ RunPhases[1 + 1] = "prototype" /\ RunPhases[1 + 2] = "design" /\ RunPhases[1 + 3] = "plan"
      /\ RunPhases[1 + 4] = "provider_research" /\ RunPhases[1 + 5] = "implement"
  BY DEF RunPhases
<1> HIDE DEF RunPhases
<1>8. \A p : p # "readme" => NextRunPhase(p) = RunPhases[1 + CHOOSE i \in 1..6 : RunPhases[i] = p]
  BY <1>1 DEF NextRunPhase
<1>9. NextRunPhase("readme") = "verify"
  BY DEF NextRunPhase
<1> QED
  BY <1>2, <1>3, <1>4, <1>5, <1>6, <1>7, <1>8, <1>9

LEMMA DocumentedStep == ASSUME IInv, Documented PROVE IInv'
<1> DEFINE p == item.phase
<1> DEFINE described == [ctx EXCEPT !.frontend = IF p = "clarify" THEN op["call"].answer = "frontend" ELSE @]
<1> DEFINE asked == [described EXCEPT !.gatePhase = p]
<1> DEFINE agreed == Decided(described, GateAfter(p), "automatic")
<1>1. /\ run.at = "answered" /\ p \in {"clarify", "prototype", "design", "plan", "provider_research", "readme"}
      /\ IF p \notin Gated THEN Advance(NextRunPhase(p), described, proof)
         ELSE IF GateWaits(GateAfter(p)) THEN Wait(NextRunPhase(p), GateAfter(p), asked)
         ELSE Advance(NextRunPhase(p), agreed, proof)
  BY DEF Documented, At
<1>2. run.at \in Working
  BY <1>1 DEF Working
<1>3. /\ Approved(p, ctx) /\ Placed(p, ctx, proof) /\ ctx \in Contexts /\ proof \in [Proofs -> Freshness]
      /\ contract.mode = "run"
  BY <1>1, <1>2, StepFacts, ModeFacts
<1>4. /\ described \in Contexts /\ described.best = ctx.best /\ described.stagnant = ctx.stagnant
      /\ described.notBug = ctx.notBug /\ described.approvals = ctx.approvals
      /\ (p # "clarify" => described.frontend = ctx.frontend)
  <2>1. (IF p = "clarify" THEN op["call"].answer = "frontend" ELSE ctx.frontend) \in BOOLEAN
    BY <1>3 DEF Contexts
  <2> QED
    BY <1>3, <2>1 DEF Contexts
<1> HIDE DEF described
<1>5. p \in Gated => p \in {"clarify", "prototype", "design"} /\ GateAfter(p) \in Gates
        /\ (p = "clarify" => GateAfter(p) = "requirements") /\ (p = "prototype" => GateAfter(p) = "prototype")
        /\ (p = "design" => GateAfter(p) = "architecture")
  BY DEF Gated, GateAfter, Gates
<1>6. NextRunPhase(p) \in {"prototype", "design", "plan", "provider_research", "implement", "verify"}
      /\ NextRunPhase(p) \in Phases /\ NextRunPhase(p) \in RunMode
  BY <1>1, RunOrder DEF Phases, ModelPhases, LocalPhases, RunMode
<1>7. \A c : c.notBug = ctx.notBug => Placed(NextRunPhase(p), c, proof) /\ Worth(NextRunPhase(p), c, proof)
  BY <1>3, <1>6 DEF Placed, Worth
<1>8. CASE p \notin Gated
  <2>1. Advance(NextRunPhase(p), described, proof)
    BY <1>1, <1>8
  <2>2. Approved(NextRunPhase(p), described)
    BY <1>1, <1>3, <1>4, <1>8, RunOrder DEF Approved, Later, Gated
  <2> QED
    BY <1>2, <1>3, <1>4, <1>6, <1>7, <2>1, <2>2, AdvanceStep
<1>9. CASE p \in Gated /\ GateWaits(GateAfter(p))
  <2>1. Wait(NextRunPhase(p), GateAfter(p), asked)
    BY <1>1, <1>9
  <2>2. /\ asked \in Contexts /\ asked.best = ctx.best /\ asked.stagnant = ctx.stagnant /\ asked.notBug = ctx.notBug
        /\ asked.gatePhase = p /\ asked.frontend = described.frontend /\ asked.approvals = ctx.approvals
    BY <1>4, <1>5, <1>9 DEF Contexts, Asking
  <2> HIDE DEF asked
  <2>3. GateOpen(GateAfter(p), NextRunPhase(p), asked)
    BY <1>5, <1>9, <2>2, RunOrder DEF GateOpen
  <2>4. Approved(NextRunPhase(p), asked) \/ GateAfter(p) = "prototype"
    BY <1>3, <1>4, <1>5, <1>9, <2>2, RunOrder DEF Approved, Later
  <2> QED
    BY <1>2, <1>5, <1>6, <1>7, <1>9, <2>1, <2>2, <2>3, <2>4, WaitStep
<1>10. CASE p \in Gated /\ ~GateWaits(GateAfter(p))
  <2>1. Advance(NextRunPhase(p), agreed, proof)
    BY <1>1, <1>10
  <2>2. GateAfter(p) \in Gates /\ GateAfter(p) # "prototype" /\ p \in {"clarify", "design"}
    BY <1>5, <1>10 DEF GateWaits
  <2>3. /\ agreed \in Contexts /\ agreed.best = ctx.best /\ agreed.stagnant = ctx.stagnant /\ agreed.notBug = ctx.notBug
        /\ agreed.frontend = described.frontend /\ agreed.approvals["prototype"] = ctx.approvals["prototype"]
    BY <1>4, <2>2, DecisionTaken DEF Gates
  <2> HIDE DEF agreed
  <2>4. Approved(NextRunPhase(p), agreed)
    BY <1>3, <1>4, <2>2, <2>3, RunOrder DEF Approved, Later
  <2> QED
    BY <1>2, <1>3, <1>6, <1>7, <2>1, <2>3, <2>4, AdvanceStep
<1> QED
  BY <1>8, <1>9, <1>10

LEMMA ClassifiedStep == ASSUME IInv, Classified PROVE IInv'
<1>1. run.at = "answered" /\ item.phase = "classify" /\ run.at \in Working
  BY DEF Classified, Reply, At, Working
<1>2. /\ Placed(item.phase, ctx, proof) /\ ctx \in Contexts /\ proof \in [Proofs -> Freshness] /\ contract.mode = "fix"
  BY <1>1, StepFacts, ModeFacts
<1>3. ~ctx.frontend /\ ctx.finalizeReturn = "review"
  BY <1>1, <1>2 DEF Placed, BeforeArtifacts
<1>4. CASE Advance("implement", [ctx EXCEPT !.bound = TRUE], proof)
  <2> DEFINE context == [ctx EXCEPT !.bound = TRUE]
  <2>1. /\ context \in Contexts /\ context.best = ctx.best /\ context.stagnant = ctx.stagnant
        /\ ~context.frontend /\ context.finalizeReturn = "review"
    BY <1>2, <1>3 DEF Contexts
  <2>2. Advance("implement", context, proof)
    BY <1>4
  <2> HIDE DEF context
  <2>3. Placed("implement", context, proof) /\ Approved("implement", context) /\ Worth("implement", context, proof)
    BY <1>2, <2>1 DEF Placed, FixMode, Approved, Worth
  <2> QED
    BY <1>1, <1>2, <2>1, <2>2, <2>3, AdvanceStep DEF Phases, ModelPhases
<1>5. CASE Advance(IF contract.checks THEN "verify" ELSE "review", [ctx EXCEPT !.notBug = TRUE], proof)
  <2> DEFINE context == [ctx EXCEPT !.notBug = TRUE]
  <2>1. /\ context \in Contexts /\ context.best = ctx.best /\ context.stagnant = ctx.stagnant
        /\ ~context.frontend /\ context.finalizeReturn = "review" /\ context.notBug
    BY <1>2, <1>3 DEF Contexts
  <2>2. PICK phase \in {"verify", "review"} : Advance(phase, context, proof)
    BY <1>5
  <2> HIDE DEF context
  <2>3. Placed(phase, context, proof) /\ Approved(phase, context) /\ Worth(phase, context, proof)
    BY <1>2, <2>1 DEF Placed, FixMode, Approved, Worth
  <2>4. phase \in Phases
    BY DEF Phases, ModelPhases, LocalPhases
  <2> QED
    BY <1>1, <1>2, <2>1, <2>2, <2>3, <2>4, AdvanceStep
<1> QED
  BY <1>4, <1>5 DEF Classified

LEMMA DiagnosedStep == ASSUME IInv, Diagnosed PROVE IInv'
<1>1. run.at = "answered" /\ item.phase = "diagnose" /\ run.at \in Working /\ Advance("acceptance", ctx, proof)
  BY DEF Diagnosed, Reply, At, Working
<1>2. /\ Placed(item.phase, ctx, proof) /\ ctx \in Contexts /\ proof \in [Proofs -> Freshness] /\ contract.mode = "collab"
  BY <1>1, StepFacts, ModeFacts
<1>3. Placed("acceptance", ctx, proof) /\ Approved("acceptance", ctx) /\ Worth("acceptance", ctx, proof)
  BY <1>2 DEF Placed, CollabMode, Approved, Worth
<1> QED
  BY <1>1, <1>2, <1>3, AdvanceStep DEF Phases, ModelPhases

LEMMA ImplementedStep == ASSUME IInv, Implemented PROVE IInv'
<1>1. /\ run.at = "answered" /\ item.phase = "implement" /\ run.at \in Working
      /\ \/ Fail("no_progress")
         \/ \E phase \in {"verify", "persistence"}, m \in {"none", op["call"].answer} :
              Advance(phase, [ctx EXCEPT !.manifest = m], proof)
  BY DEF Implemented, At, Working
<1>2. /\ Placed(item.phase, ctx, proof) /\ ctx \in Contexts /\ proof \in [Proofs -> Freshness] /\ contract.mode # "run"
      /\ Shape
  BY <1>1, StepFacts DEF IInv, Standing
<1>3. contract.mode = "fix" /\ ~ctx.frontend /\ ctx.finalizeReturn = "review"
  BY <1>1, <1>2, ModeFacts DEF Placed, CollabMode, BeforeArtifacts
<1>4. CASE Fail("no_progress")
  BY <1>1, <1>4, FailStep DEF Codes, OfVerification
<1>5. ASSUME NEW phase \in {"verify", "persistence"}, NEW m \in {"none", op["call"].answer},
             Advance(phase, [ctx EXCEPT !.manifest = m], proof)
      PROVE  IInv'
  <2> DEFINE context == [ctx EXCEPT !.manifest = m]
  <2>1. m \in Words
    BY <1>2 DEF Shape, Kinds, Operations, Words
  <2>2. /\ context \in Contexts /\ context.best = ctx.best /\ context.stagnant = ctx.stagnant
        /\ ~context.frontend /\ context.finalizeReturn = "review"
    BY <1>2, <1>3, <2>1 DEF Contexts
  <2>3. Advance(phase, context, proof)
    BY <1>5
  <2> HIDE DEF context
  <2>4. Placed(phase, context, proof) /\ Approved(phase, context) /\ Worth(phase, context, proof)
    BY <1>3, <2>2 DEF Placed, FixMode, Approved, Worth
  <2>5. phase \in Phases
    BY DEF Phases, LocalPhases
  <2> QED
    BY <1>1, <1>2, <2>2, <2>3, <2>4, <2>5, AdvanceStep
<1> QED
  BY <1>1, <1>4, <1>5

LEMMA FinalizedStep == ASSUME IInv, Finalized PROVE IInv'
<1>1. /\ run.at = "answered" /\ item.phase = "finalize" /\ run.at \in Working
      /\ IF SealKept THEN Advance(ctx.finalizeReturn, ctx, proof) ELSE Fail("finalizer_changed")
  BY DEF Finalized, Reply, At, Working
<1>2. /\ Placed(item.phase, ctx, proof) /\ ctx \in Contexts /\ proof \in [Proofs -> Freshness]
      /\ Worth(item.phase, ctx, proof) /\ Approved(item.phase, ctx)
  BY <1>1, StepFacts
<1>3. CASE SealKept
  <2>1. ctx.finalizeReturn \in {"review", "artifact_verify"} /\ Current(proof, "verification")
    BY <1>2, <1>3 DEF Contexts, SealKept, Current
  <2>2. Placed(ctx.finalizeReturn, ctx, proof)
    BY <1>1, <1>2, <2>1 DEF Placed, RunMode, FixMode, CollabMode, BeforeArtifacts
  <2>3. Approved(ctx.finalizeReturn, ctx)
    BY <1>1, <1>2 DEF Approved, Later
  <2>4. Worth(ctx.finalizeReturn, ctx, proof)
    BY <1>1, <1>2, <2>1 DEF Worth
  <2>5. ctx.finalizeReturn \in Phases
    BY <2>1 DEF Phases, ModelPhases, LocalPhases
  <2> QED
    BY <1>1, <1>2, <1>3, <2>2, <2>3, <2>4, <2>5, AdvanceStep
<1>4. CASE ~SealKept
  BY <1>1, <1>4, FailStep DEF Codes, OfModel
<1> QED
  BY <1>3, <1>4

\* The row is completed.
LEMMA FinishStep ==
  ASSUME IInv, run.at \in Working, NEW result \in {"delivered", "not_bug"}, Finish(result),
         result = "delivered" => item.phase = "deliver" /\ ~Missing
  PROVE  IInv'
<1>1. /\ item' = [item EXCEPT !.status = "COMPLETED", !.result = result, !.failure = "none"]
      /\ op' = Consumed(op, Kinds) /\ run' = NoRun /\ UNCHANGED <<contract, failures, calls, repairs, ctx, proof>>
  BY DEF Finish, Quiet, Unchecked
<1>2. Shape /\ item.status = "RUNNING" /\ Approved(item.phase, ctx)
  BY StepFacts
<1>3. item' \in Rows /\ item'.status = "COMPLETED" /\ item'.phase = item.phase /\ item'.result = result
  BY <1>1, <1>2 DEF Shape, Rows, Statuses
<1>4. op' \in [Kinds -> Operations] /\ \A k \in Kinds : op'[k] = NoOp
  BY <1>1, ConsumedAll
<1>5. Shape'
  BY <1>1, <1>2, <1>3, <1>4, Values DEF Shape
<1>6. Placed(item.phase, ctx, proof)' /\ Worth(item.phase, ctx, proof)' /\ Bounded'
  BY <1>1, <1>3 DEF IInv, Placed, Worth, Examined, Current, Bounded
<1>7. Gating'
  BY <1>1, <1>2, <1>3 DEF Gating, Approved
<1>8. Operating'
  BY <1>4, Values DEF Operating, Kinds
<1>9. Standing'
  BY <1>1, Values DEF Standing, Working, Cancelling
<1>10. Resting'
  BY <1>1, <1>3, <1>4, Values DEF Resting, NothingOpen, Missing
<1> QED
  BY <1>5, <1>6, <1>7, <1>8, <1>9, <1>10 DEF IInv

LEMMA Collecting ==
  ASSUME proof \in [Proofs -> Freshness], NEW kind \in Proofs, NEW o, o.fresh
  PROVE  /\ Collected(kind, o) \in [Proofs -> Freshness] /\ Collected(kind, o)[kind] = "current"
         /\ \A k \in Proofs \ {kind} : Collected(kind, o)[k] = proof[k]
BY DEF Collected, Freshness

\* A review passes: the proof it adds is of the checkout as it is, because nothing
\* may have been written since.
LEMMA PassedStep ==
  ASSUME IInv, run.at = "answered", item.phase \in Reviews, ~ctx.notBug,
         Advance(AfterReview(item.phase), ctx, Collected(ProofOf(item.phase), op["call"]))
  PROVE  IInv'
<1> DEFINE kind == ProofOf(item.phase)
<1> DEFINE pr == Collected(kind, op["call"])
<1>1. /\ Placed(item.phase, ctx, proof) /\ ctx \in Contexts /\ proof \in [Proofs -> Freshness]
      /\ Worth(item.phase, ctx, proof) /\ Approved(item.phase, ctx) /\ op["call"].fresh
  BY StepFacts DEF IInv, Operating, Working
<1>2. /\ item.phase \in {"review", "visual_judge", "acceptance_review"} /\ kind \in Proofs /\ kind # "verification" /\ kind # "artifact"
      /\ (item.phase = "review" => kind = "review" /\ AfterReview(item.phase) = "artifact_verify" /\ contract.mode = "fix")
      /\ (item.phase = "visual_judge" => kind = "visual" /\ AfterReview(item.phase) = "artifact_verify" /\ contract.mode = "run")
      /\ (item.phase = "acceptance_review" => kind = "acceptance" /\ AfterReview(item.phase) = "deliver" /\ contract.mode = "collab")
  BY ModeFacts DEF Reviews, ProofOf, AfterReview, Proofs
<1>3. pr \in [Proofs -> Freshness] /\ pr[kind] = "current" /\ \A k \in Proofs \ {kind} : pr[k] = proof[k]
  BY <1>1, <1>2, Collecting
<1> HIDE DEF pr, kind
<1>4. pr["verification"] = "current" /\ pr["artifact"] = proof["artifact"]
  BY <1>1, <1>2, <1>3 DEF Worth, Current, Proofs
<1>5. Placed(AfterReview(item.phase), ctx, pr)
  BY <1>1, <1>2, <1>4 DEF Placed, RunMode, FixMode, CollabMode, BeforeArtifacts
<1>6. Approved(AfterReview(item.phase), ctx)
  BY <1>1, <1>2 DEF Approved, Later, Placed
<1>7. Examined(ctx, pr)
  BY <1>1, <1>2, <1>3 DEF Examined, Current, Placed
<1>8. Worth(AfterReview(item.phase), ctx, pr)
  BY <1>1, <1>2, <1>3, <1>4, <1>7 DEF Worth, Current, Placed
<1>9. AfterReview(item.phase) \in Phases
  BY <1>2 DEF Phases, LocalPhases
<1> QED
  BY <1>1, <1>3, <1>5, <1>6, <1>8, <1>9, AdvanceStep DEF pr, kind, Working

LEMMA ReviewedStep == ASSUME IInv, Reviewed PROVE IInv'
<1>1. run.at = "answered" /\ item.phase \in Reviews /\ run.at \in Working
  BY DEF Reviewed, At, Working
<1>2. \/ Finish("not_bug")
      \/ ~ctx.notBug /\ Advance(AfterReview(item.phase), ctx, Collected(ProofOf(item.phase), op["call"]))
      \/ Fail("review_failed")
      \/ op["call"].answer = "finalize" /\ Advance("finalize", ctx, proof)
  BY DEF Reviewed
<1>3. CASE Finish("not_bug")
  BY <1>1, <1>3, FinishStep
<1>4. CASE ~ctx.notBug /\ Advance(AfterReview(item.phase), ctx, Collected(ProofOf(item.phase), op["call"]))
  BY <1>1, <1>4, PassedStep
<1>5. CASE Fail("review_failed")
  BY <1>1, <1>5, FailStep DEF Codes, OfVerification
<1>6. CASE op["call"].answer = "finalize" /\ Advance("finalize", ctx, proof)
  <2>1. item.phase = "review"
    BY <1>1, <1>6 DEF IInv, Standing, Operating
  <2>2. /\ Placed(item.phase, ctx, proof) /\ ctx \in Contexts /\ proof \in [Proofs -> Freshness] /\ contract.mode = "fix"
    BY <1>1, <2>1, StepFacts, ModeFacts
  <2>3. Placed("finalize", ctx, proof) /\ Approved("finalize", ctx) /\ Worth("finalize", ctx, proof)
    BY <2>1, <2>2 DEF Placed, FixMode, BeforeArtifacts, Approved, Worth
  <2> QED
    BY <1>1, <1>6, <2>2, <2>3, AdvanceStep DEF Phases, ModelPhases
<1> QED
  BY <1>2, <1>3, <1>4, <1>5, <1>6

LEMMA AcceptedStep == ASSUME IInv, Accepted PROVE IInv'
<1>1. run.at = "answered" /\ item.phase = "acceptance" /\ run.at \in Working
  BY DEF Accepted, Reply, At, Working
<1>2. CASE Fail("review_failed")
  BY <1>1, <1>2, FailStep DEF Codes, OfVerification
<1>3. CASE op["call"].answer = "pass" /\ Goto("effect") /\ Quiet /\ UNCHANGED <<item, ctx, proof, op>>
  <2>1. UNCHANGED <<contract, failures, calls, repairs, item, ctx, proof, op>>
    BY <1>3 DEF Quiet, Unchecked
  <2>2. Shape /\ item.status = "RUNNING" /\ op["call"].state = "CONFIRMED"
    BY <1>1, StepFacts DEF IInv, Standing
  <2>3. run' \in Runs /\ run'.at = "effect"
    BY <1>3, Moved DEF Working
  <2>4. Operating' /\ op' \in [Kinds -> Operations]
    BY <2>1, SameOperations
  <2>5. Standing'
    BY <1>1, <1>3, <2>1, <2>2, <2>3 DEF Standing, Working, Cancelling
  <2> QED
    BY <1>1, <2>1, <2>2, <2>3, <2>4, <2>5, InsideStep DEF Shape
<1> QED
  BY <1>2, <1>3 DEF Accepted, Reply

LEMMA InterpretStep == ASSUME IInv, Interpret PROVE IInv'
BY RefusedStep, AskedStep, DocumentedStep, ClassifiedStep, DiagnosedStep, ImplementedStep, FinalizedStep, ReviewedStep,
   AcceptedStep DEF Interpret

-----------------------------------------------------------------------------
\* Local effects.

LEMMA AskResetStep == ASSUME IInv, AskReset \/ AskRelease PROVE IInv'
<1>1. /\ run.at = "step" /\ run.at \in Working
      /\ \/ item.phase = "persistence" /\ Wait("persistence", "reset", [ctx EXCEPT !.gatePhase = "persistence"])
         \/ item.phase = "deliver" /\ contract.mode = "run" /\ Wait("deliver", "release", [ctx EXCEPT !.gatePhase = "verify"])
  BY DEF AskReset, AskRelease, In, At, Working
<1>2. /\ Placed(item.phase, ctx, proof) /\ ctx \in Contexts /\ Worth(item.phase, ctx, proof) /\ Approved(item.phase, ctx)
      /\ item.phase \in Phases
  BY <1>1, StepFacts
<1>3. ASSUME NEW back \in {"persistence", "verify"}, NEW gate \in {"reset", "release"},
             Wait(item.phase, gate, [ctx EXCEPT !.gatePhase = back]),
             \/ gate = "reset" /\ item.phase = "persistence" /\ back = "persistence"
             \/ gate = "release" /\ item.phase = "deliver" /\ back = "verify" /\ contract.mode = "run"
      PROVE  IInv'
  <2> DEFINE context == [ctx EXCEPT !.gatePhase = back]
  <2>1. /\ context \in Contexts /\ context.best = ctx.best /\ context.stagnant = ctx.stagnant /\ context.gatePhase = back
        /\ context.frontend = ctx.frontend /\ context.finalizeReturn = ctx.finalizeReturn /\ context.notBug = ctx.notBug
        /\ context.approvals = ctx.approvals
    BY <1>2 DEF Contexts, Asking
  <2>2. Wait(item.phase, gate, context)
    BY <1>3
  <2> HIDE DEF context
  <2>3. Placed(item.phase, context, proof) /\ Worth(item.phase, context, proof) /\ Approved(item.phase, context)
    BY <1>2, <2>1 DEF Placed, Worth, Examined, Approved
  <2>4. GateOpen(gate, item.phase, context)
    BY <1>3, <2>1 DEF GateOpen
  <2>5. gate \in Gates
    BY DEF Gates
  <2> QED
    BY <1>1, <1>2, <2>1, <2>2, <2>3, <2>4, <2>5, WaitStep
<1> QED
  BY <1>1, <1>3

LEMMA NoArtifactsStep == ASSUME IInv, NoArtifacts PROVE IInv'
<1>1. /\ run.at = "step" /\ run.at \in Working /\ item.phase = "artifact_verify" /\ contract.outputs = "none"
      /\ Advance("deliver", ctx, proof)
  BY DEF NoArtifacts, In, At, Working
<1>2. /\ Placed(item.phase, ctx, proof) /\ ctx \in Contexts /\ proof \in [Proofs -> Freshness]
      /\ Worth(item.phase, ctx, proof) /\ Approved(item.phase, ctx)
  BY <1>1, StepFacts
<1>3. contract.mode # "collab" /\ Placed("deliver", ctx, proof)
  BY <1>1, <1>2 DEF Placed, RunMode, FixMode, CollabMode, BeforeArtifacts
<1>4. Approved("deliver", ctx) /\ Worth("deliver", ctx, proof)
  BY <1>1, <1>2, <1>3 DEF Approved, Later, Worth
<1> QED
  BY <1>1, <1>2, <1>3, <1>4, AdvanceStep DEF Phases, LocalPhases

\* What is true where a local effect begins.
LEMMA PreparedFacts ==
  ASSUME IInv, Prepared
  PROVE  /\ run.at \in Working /\ item.phase \in Effects /\ (item.phase = "artifact_verify" => contract.outputs # "none")
         /\ item.phase = "artifact_verify" => proof["verification"] = "current"
         /\ item.phase = "acceptance" => op["call"].state = "CONFIRMED" /\ op["call"].answer = "pass"
         /\ item.phase = "deliver" => ~Missing
<1>1. run.at = "effect" => item.phase = "acceptance" /\ op["call"].state = "CONFIRMED" /\ op["call"].answer = "pass"
  BY DEF IInv, Standing
<1> QED
  BY <1>1 DEF Prepared, In, At, Working, Effects, LocalPhases, Sealed, SealKept

LEMMA RegisterLocalStep == ASSUME IInv, RegisterLocal PROVE IInv'
<1>1. /\ Prepared /\ op' = [op EXCEPT !["local"] = [NoOp EXCEPT !.state = "DISPATCHED"]] /\ Goto("checking")
      /\ UNCHANGED <<contract, failures, calls, repairs, item, ctx, proof>>
  BY DEF RegisterLocal, Quiet, Unchecked
<1>2. Shape /\ item.status = "RUNNING"
  BY <1>1, PreparedFacts, StepFacts
<1>3. [NoOp EXCEPT !.state = "DISPATCHED"] \in Operations
  BY Values DEF Operations, OpStates
<1>4. /\ op' \in [Kinds -> Operations] /\ op'["call"] = op["call"]
      /\ op'["local"].state = "DISPATCHED" /\ op'["local"].fresh = TRUE
  BY <1>1, <1>2, <1>3, Values DEF Shape, Kinds, Operations
<1>5. Operating'
  BY <1>1, <1>4, PreparedFacts DEF IInv, Operating, Missing, Kinds
<1>6. run' \in Runs /\ run'.at = "checking"
  BY <1>1, Moved DEF Working
<1>7. Standing'
  BY <1>1, <1>2, <1>4, <1>6, PreparedFacts DEF Standing, Working, Cancelling
<1> QED
  BY <1>1, <1>2, <1>4, <1>5, <1>6, <1>7, PreparedFacts, InsideStep DEF Shape

LEMMA RetainedLocalStep == ASSUME IInv, RetainedLocal PROVE IInv'
<1>1. Prepared /\ UNCHANGED <<contract, failures, calls, repairs, item, ctx, proof, op>>
  BY DEF RetainedLocal, Quiet, Unchecked
<1>2. Shape /\ item.status = "RUNNING" /\ run.at \in Working
  BY <1>1, PreparedFacts, StepFacts
<1>3. Operating' /\ op' \in [Kinds -> Operations]
  BY <1>1, SameOperations
<1>4. CASE op["local"].state = "CONFIRMED" /\ Goto("checked")
  <2>1. run' \in Runs /\ run'.at = "checked"
    BY <1>4, Moved DEF Working
  <2>2. Standing'
    BY <1>1, <1>2, <1>4, <2>1, PreparedFacts DEF Standing, Working, Cancelling
  <2> QED
    BY <1>1, <1>2, <1>3, <2>1, <2>2, InsideStep DEF Shape
<1>5. CASE Raise("outcome_unknown")
  <2>1. Fail("outcome_unknown")
    BY <1>1, <1>5 DEF Fail, Quiet, Unchecked
  <2> QED
    BY <1>2, <2>1, FailStep DEF Codes
<1>6. CASE op["local"].state = "FAILED" /\ EffectRaises(op["local"].answer, op["local"].score)
  <2>1. op["local"].answer \in Codes \ {"model_output"} /\ op["local"].score \in Marks
    BY <1>2, <1>6 DEF IInv, Operating, Shape, Kinds, Operations
  <2>2. run' \in Runs /\ run'.at = "effect failed" /\ run'.code = op["local"].answer
    BY <1>6, <2>1, EffectRaised
  <2>3. Standing'
    BY <1>1, <1>2, <2>1, <2>2, PreparedFacts DEF Standing, Working, Cancelling
  <2> QED
    BY <1>1, <1>2, <1>3, <2>2, <2>3, InsideStep DEF Shape
<1> QED
  BY <1>4, <1>5, <1>6 DEF RetainedLocal

LEMMA CheckPassesStep == ASSUME IInv, CheckPasses PROVE IInv'
<1>1. /\ run.at = "checking" /\ run.at \in Working /\ ~run.trespass
      /\ op' = [op EXCEPT !["local"] = [@ EXCEPT !.state = "CONFIRMED", !.fresh = TRUE]]
      /\ Goto("checked") /\ UNCHANGED <<contract, failures, calls, repairs, item, ctx, proof>>
  BY DEF CheckPasses, At, Quiet, Unchecked, Working
<1>2. /\ Shape /\ item.status = "RUNNING" /\ op["local"].state = "DISPATCHED" /\ (item.phase \in Checks => op["local"].fresh)
      /\ item.phase \in Effects /\ (item.phase = "artifact_verify" => contract.outputs # "none") /\ Operating
  BY <1>1, StepFacts DEF IInv, Standing
<1>3. op["local"] \in Operations
  BY <1>2 DEF Shape, Kinds
<1>4. [op["local"] EXCEPT !.state = "CONFIRMED", !.fresh = TRUE] \in Operations
  BY <1>3 DEF Operations, OpStates
<1>5. /\ op' \in [Kinds -> Operations] /\ op'["call"] = op["call"]
      /\ op'["local"].state = "CONFIRMED" /\ op'["local"].fresh = TRUE
  BY <1>1, <1>2, <1>3, <1>4 DEF Shape, Kinds, Operations
<1>6. Operating'
  BY <1>1, <1>2, <1>5 DEF Operating, Missing, Kinds, Checks
<1>7. run' \in Runs /\ run'.at = "checked"
  BY <1>1, Moved DEF Working
<1>8. Standing'
  BY <1>1, <1>2, <1>5, <1>7 DEF Standing, Working, Cancelling
<1> QED
  BY <1>1, <1>2, <1>5, <1>6, <1>7, <1>8, InsideStep DEF Shape

LEMMA CheckFailsStep == ASSUME IInv, CheckFails PROVE IInv'
<1>1. run.at = "checking" /\ run.at \in Working /\ UNCHANGED <<contract, failures, calls, repairs, item, ctx, proof>>
  BY DEF CheckFails, At, Quiet, Unchecked, Working
<1>2. /\ Shape /\ item.status = "RUNNING" /\ Operating
      /\ item.phase \in Effects /\ (item.phase = "artifact_verify" => contract.outputs # "none")
  BY <1>1, StepFacts DEF IInv, Standing
<1>3. PICK code \in {"verification_missing", "proof_source_changed", "tests_failed", "environment", "state"}, score \in Marks :
        Settled("local", "FAILED", code, score) /\ EffectRaises(code, score)
  <2>1. PICK code \in ErrorsOf(item.phase) :
          \E score \in IF code = "tests_failed" THEN Scores ELSE {NoScore} : Settled("local", "FAILED", code, score) /\ EffectRaises(code, score)
    BY DEF CheckFails
  <2>2. code \in {"verification_missing", "proof_source_changed", "tests_failed", "environment", "state"}
    BY DEF ErrorsOf
  <2> QED
    BY <2>1, <2>2 DEF Marks
<1>4. code \in Codes \ {"model_output"} /\ code \in Words
  BY DEF Codes, OfVerification, Words
<1>5. /\ op' \in [Kinds -> Operations] /\ op'["call"] = op["call"]
      /\ op'["local"].state = "FAILED" /\ op'["local"].answer = code
  BY <1>2, <1>3, <1>4, Settling DEF Kinds, OpStates
<1>6. Operating'
  <2>1. op["local"].state = "DISPATCHED"
    BY <1>1 DEF IInv, Standing
  <2> QED
    BY <1>1, <1>2, <1>4, <1>5, <2>1 DEF Operating, Missing, Kinds
<1>7. run' \in Runs /\ run'.at = "effect failed" /\ run'.code = code
  BY <1>3, <1>4, EffectRaised
<1>8. Standing'
  BY <1>1, <1>2, <1>4, <1>7 DEF Standing, Working, Cancelling
<1> QED
  BY <1>1, <1>2, <1>5, <1>6, <1>7, <1>8, InsideStep DEF Shape

LEMMA CorrectStep == ASSUME IInv, Correct PROVE IInv'
<1> DEFINE context == [ctx EXCEPT !.finalizeReturn = "artifact_verify", !.corrections = @ + 1]
<1>1. /\ run.at = "effect failed" /\ run.at \in Working /\ item.phase = "artifact_verify" /\ ctx.corrections < 2
      /\ Advance("finalize", context, proof)
  BY DEF Correct, Correctable, At, Working
<1>2. /\ Placed(item.phase, ctx, proof) /\ ctx \in Contexts /\ proof \in [Proofs -> Freshness]
      /\ Worth(item.phase, ctx, proof) /\ Approved(item.phase, ctx)
  BY <1>1, StepFacts
<1>3. ctx.corrections + 1 \in 0..2
  <2>1. ctx.corrections \in 0..2
    BY <1>2 DEF Contexts
  <2>2. \A n \in 0..2 : n < 2 => n + 1 \in 0..2
    OBVIOUS
  <2> QED
    BY <1>1, <2>1, <2>2
<1>4. /\ context \in Contexts /\ context.best = ctx.best /\ context.stagnant = ctx.stagnant
      /\ context.frontend = ctx.frontend /\ context.finalizeReturn = "artifact_verify" /\ context.notBug = ctx.notBug
      /\ context.approvals = ctx.approvals
  BY <1>2, <1>3 DEF Contexts
<1> HIDE DEF context
<1>5. Placed("finalize", context, proof)
  BY <1>1, <1>2, <1>4 DEF Placed, RunMode, FixMode, CollabMode, BeforeArtifacts
<1>6. Worth("finalize", context, proof) /\ Approved("finalize", context)
  BY <1>1, <1>2, <1>4 DEF Worth, Examined, Approved, Later
<1> QED
  BY <1>1, <1>2, <1>4, <1>5, <1>6, AdvanceStep DEF Phases, ModelPhases

LEMMA UncorrectedStep == ASSUME IInv, Uncorrected PROVE IInv'
<1>1. /\ run.at = "effect failed" /\ run.at \in Working /\ run' = [run EXCEPT !.at = "failed"]
      /\ UNCHANGED <<contract, failures, calls, repairs, item, ctx, proof, op>>
  BY DEF Uncorrected, At, Quiet, Unchecked, Working
<1>2. Shape /\ item.status = "RUNNING" /\ run.code \in Codes /\ run.code # "model_output"
  BY <1>1, StepFacts DEF IInv, Standing
<1>3. run' \in Runs /\ run'.at = "failed" /\ run'.code \in Codes /\ run'.code # "model_output"
  BY <1>1, <1>2 DEF Shape, Runs, Working
<1>4. Operating' /\ op' \in [Kinds -> Operations]
  BY <1>1, SameOperations
<1>5. item' = item
  BY <1>1
<1>6. Standing'
  BY <1>2, <1>3, <1>5 DEF Standing, Working, Cancelling
<1> QED
  BY <1>1, <1>2, <1>3, <1>4, <1>6, InsideStep DEF Shape

\* A delivery ends on proofs that its contract asks for, a check on what it was of.
LEMMA CheckedStep == ASSUME IInv, Checked PROVE IInv'
<1>1. run.at = "checked" /\ run.at \in Working
  BY DEF Checked, At, Working
<1>2. /\ Placed(item.phase, ctx, proof) /\ ctx \in Contexts /\ proof \in [Proofs -> Freshness] /\ Shape
      /\ Worth(item.phase, ctx, proof) /\ Approved(item.phase, ctx) /\ item.status = "RUNNING"
      /\ op["local"].state = "CONFIRMED" /\ Operating
  BY <1>1, StepFacts DEF IInv, Standing
<1>3. item.phase \in Checks => op["local"].fresh
  BY <1>2 DEF Operating
<1>4. CASE item.phase = "persistence" /\ Advance("verify", ctx, proof)
  <2>1. contract.mode = "fix"
    BY <1>4, ModeFacts
  <2>2. Placed("verify", ctx, proof) /\ Approved("verify", ctx) /\ Worth("verify", ctx, proof)
    BY <1>2, <1>4, <2>1 DEF Placed, FixMode, BeforeArtifacts, Approved, Worth
  <2> QED
    BY <1>1, <1>2, <1>4, <2>2, AdvanceStep DEF Phases, LocalPhases
<1>5. CASE item.phase = "verify" /\ Advance(AfterVerify, ctx, Collected("verification", op["local"]))
  <2> DEFINE pr == Collected("verification", op["local"])
  <2>1. pr \in [Proofs -> Freshness] /\ pr["verification"] = "current" /\ \A k \in Proofs \ {"verification"} : pr[k] = proof[k]
    BY <1>2, <1>3, <1>5, Collecting DEF Checks, Proofs
  <2> HIDE DEF pr
  <2>2. \/ contract.mode = "fix" /\ AfterVerify = "review" /\ ctx.finalizeReturn = "review" /\ ~ctx.frontend
        \/ contract.mode = "run" /\ AfterVerify \in {"visual_judge", "artifact_verify"}
           /\ (AfterVerify = "artifact_verify" => ~ctx.frontend)
    BY <1>2, <1>5, ModeFacts DEF AfterVerify, Placed, CollabMode, BeforeArtifacts
  <2>3. Placed(AfterVerify, ctx, pr)
    BY <1>2, <2>2 DEF Placed, RunMode, FixMode
  <2>4. Approved(AfterVerify, ctx)
    BY <1>2, <1>5, <2>2 DEF Approved, Later
  <2>5. Worth(AfterVerify, ctx, pr)
    BY <2>1, <2>2 DEF Worth, Current, Examined
  <2>6. AfterVerify \in Phases
    BY <2>2 DEF Phases, ModelPhases, LocalPhases
  <2> QED
    BY <1>1, <1>2, <1>5, <2>1, <2>3, <2>4, <2>5, <2>6, AdvanceStep DEF pr
<1>6. CASE item.phase = "artifact_verify" /\ Advance("deliver", ctx, Collected("artifact", op["local"]))
  <2> DEFINE pr == Collected("artifact", op["local"])
  <2>1. pr \in [Proofs -> Freshness] /\ pr["artifact"] = "current" /\ \A k \in Proofs \ {"artifact"} : pr[k] = proof[k]
    BY <1>2, <1>3, <1>6, Collecting DEF Checks, Proofs
  <2> HIDE DEF pr
  <2>2. proof["verification"] = "current"
    BY <1>2, <1>3, <1>6 DEF Operating, Checks
  <2>3. Examined(ctx, proof)
    BY <1>2, <1>6, <2>2 DEF Worth, Current
  <2>4. Placed("deliver", ctx, pr) /\ contract.mode # "collab"
    BY <1>2, <1>6 DEF Placed, RunMode, FixMode, CollabMode, BeforeArtifacts
  <2>5. Approved("deliver", ctx)
    BY <1>2, <1>6 DEF Approved, Later
  <2>6. Worth("deliver", ctx, pr)
    BY <2>1, <2>2, <2>3, <2>4 DEF Worth, Current, Examined, Proofs
  <2> QED
    BY <1>1, <1>2, <1>6, <2>1, <2>4, <2>5, <2>6, AdvanceStep DEF pr, Phases, LocalPhases
<1>7. CASE item.phase = "deliver" /\ Finish("delivered")
  <2>1. ~Missing
    BY <1>2, <1>7 DEF Operating
  <2> QED
    BY <1>1, <1>7, <2>1, FinishStep
<1>8. CASE /\ item.phase = "acceptance" /\ op' = Consumed(op, {"local"})
           /\ run' = [NoRun EXCEPT !.at = "accepted", !.trespass = ~op["local"].fresh]
           /\ Quiet /\ UNCHANGED <<item, ctx, proof>>
  <2>1. UNCHANGED <<contract, failures, calls, repairs, item, ctx, proof>>
    BY <1>8 DEF Quiet, Unchecked
  <2>2. Operating' /\ op' \in [Kinds -> Operations]
    BY <1>8, <2>1, FewerOperations
  <2>3. run' \in Runs /\ run'.at = "accepted" /\ ~run'.trespass
    <3>1. (~op["local"].fresh) = FALSE
      BY <1>3, <1>8 DEF Checks
    <3> QED
      BY <1>8, <3>1, Values DEF Runs, Working
  <2>4. Standing'
    BY <1>2, <1>8, <2>1, <2>3 DEF Standing, Working, Cancelling
  <2> QED
    BY <1>1, <1>2, <2>1, <2>2, <2>3, <2>4, InsideStep DEF Shape
<1> QED
  BY <1>4, <1>5, <1>6, <1>7, <1>8 DEF Checked

LEMMA AcceptedVerifiedStep == ASSUME IInv, AcceptedVerified PROVE IInv'
<1> DEFINE o == [fresh |-> ~run.trespass]
<1> DEFINE pr == Collected("verification", o)
<1>1. run.at = "accepted" /\ run.at \in Working /\ Advance("acceptance_review", ctx, pr)
  BY DEF AcceptedVerified, At, Working
<1>2. /\ Placed(item.phase, ctx, proof) /\ ctx \in Contexts /\ proof \in [Proofs -> Freshness]
      /\ item.phase = "acceptance" /\ ~run.trespass /\ contract.mode = "collab"
  BY <1>1, StepFacts, ModeFacts DEF IInv, Standing
<1>3. o.fresh
  BY <1>2
<1>4. pr \in [Proofs -> Freshness] /\ pr["verification"] = "current" /\ pr["artifact"] = proof["artifact"]
  BY <1>2, <1>3, Collecting DEF Proofs
<1> HIDE DEF pr, o
<1>5. Placed("acceptance_review", ctx, pr) /\ Approved("acceptance_review", ctx)
  BY <1>2, <1>4 DEF Placed, CollabMode, Approved
<1>6. Worth("acceptance_review", ctx, pr)
  BY <1>4 DEF Worth, Current
<1> QED
  BY <1>1, <1>2, <1>4, <1>5, <1>6, AdvanceStep DEF Phases, ModelPhases

-----------------------------------------------------------------------------
\* The handlers of drive.

LEMMA RepairStep == ASSUME IInv, Repair PROVE IInv'
<1>1. /\ run.at = "failed" /\ run.at \in Working /\ run' = [run EXCEPT !.at = "repairing"]
      /\ contract.mode = "fix" /\ item.phase \in {"verify", "review"} /\ Stagnant < NoProgressLimit
      /\ UNCHANGED <<contract, failures, calls, repairs, item, ctx, proof, op>>
  BY DEF Repair, CanRepair, At, Quiet, Unchecked, Working
<1>2. Shape /\ item.status = "RUNNING"
  BY <1>1, StepFacts
<1>3. run' \in Runs /\ run'.at = "repairing" /\ run'.score = run.score
  BY <1>1, <1>2 DEF Shape, Runs, Working
<1>4. Stagnant' < NoProgressLimit
  BY <1>1, <1>3 DEF Stagnant, Improved
<1>5. Operating' /\ op' \in [Kinds -> Operations]
  BY <1>1, SameOperations
<1>6. UNCHANGED <<item, contract>>
  BY <1>1
<1>7. item.phase \in {"verify", "review"} /\ contract.mode = "fix"
  BY <1>1
<1>8. Standing'
  BY <1>2, <1>3, <1>4, <1>6, <1>7 DEF Standing, Working, Cancelling
<1> QED
  BY <1>1, <1>2, <1>3, <1>5, <1>8, InsideStep DEF Shape

LEMMA ConsumeForRepairStep == ASSUME IInv, ConsumeForRepair PROVE IInv'
<1>1. /\ run.at = "repairing" /\ run.at \in Working /\ \E k \in Kinds : op' = Consumed(op, {k})
      /\ UNCHANGED <<contract, failures, calls, repairs, item, ctx, proof, run>>
  BY DEF ConsumeForRepair, At, Quiet, Unchecked, Working
<1>2. Shape /\ item.status = "RUNNING" /\ Standing
  BY <1>1, StepFacts DEF IInv
<1>3. item.phase # "acceptance"
  BY <1>1, <1>2 DEF Standing
<1>4. Operating' /\ op' \in [Kinds -> Operations]
  BY <1>1, <1>3, FewerOperations
<1>5. Standing'
  BY <1>1, <1>2 DEF Standing, Stagnant, Improved, Working, Cancelling
<1> QED
  BY <1>1, <1>2, <1>4, <1>5, InsideStep DEF Shape

\* Each repair spends one of the rounds that its best score leaves it.
LEMMA Rounds ==
  ASSUME NEW r \in Nat, NEW best \in Int, NEW s \in Nat, NEW n \in Nat \ {0}, NEW score \in Int,
         s <= n - 1, r <= (best + 1) * n + s, score > best
  PROVE  r + 1 <= (score + 1) * n + 0
<1>1. best + 2 <= score + 1
  OBVIOUS
<1>2. \A a, b \in Int : a <= b => a * n <= b * n
  BY SMT
<1>3. (best + 2) * n <= (score + 1) * n
  BY <1>1, <1>2
<1>4. (best + 2) * n = (best + 1) * n + n
  BY SMT
<1> QED
  BY <1>3, <1>4

LEMMA BackToImplementStep == ASSUME IInv, BackToImplement PROVE IInv'
<1> DEFINE best == IF Improved THEN run.score ELSE ctx.best
<1>1. /\ run.at = "repairing" /\ run.at \in Working /\ \A k \in Kinds : op[k].state \notin Ended
      /\ item' = [item EXCEPT !.status = "READY", !.phase = "implement"]
      /\ ctx' = [ctx EXCEPT !.notBug = FALSE, !.best = best, !.stagnant = Stagnant]
      /\ repairs' = repairs + 1 /\ Goto("drive") /\ UNCHANGED <<contract, failures, proof, op, calls>>
  BY DEF BackToImplement, At, Unchecked, Working
<1>2. /\ Shape /\ item.status = "RUNNING" /\ item.result # "delivered" /\ Bounded /\ Stagnant < NoProgressLimit
      /\ Placed(item.phase, ctx, proof) /\ contract.mode = "fix" /\ item.phase \in {"verify", "review"} /\ Operating
  BY <1>1, StepFacts, RowFacts DEF IInv, Standing
<1>3. item' \in Rows /\ item'.status = "READY" /\ item'.phase = "implement" /\ item'.result # "delivered"
  BY <1>1, <1>2 DEF Shape, Rows, Statuses, Phases, ModelPhases
<1>4. ctx \in Contexts /\ run.score \in Marks /\ ctx.best \in Marks /\ ctx.stagnant \in 0..(NoProgressLimit - 1)
  BY <1>2 DEF Shape, Contexts, Runs
<1>5. Marks \subseteq Int /\ NoProgressLimit \in Nat \ {0}
  BY StagesAssumption DEF Marks, Scores, NoScore
<1>6. Stagnant \in 0..(NoProgressLimit - 1) /\ best \in Marks
  BY <1>2, <1>4, <1>5 DEF Stagnant
<1>7. /\ ctx' \in Contexts /\ ctx'.best = best /\ ctx'.stagnant = Stagnant /\ ctx'.frontend = ctx.frontend
      /\ ctx'.finalizeReturn = ctx.finalizeReturn
  BY <1>1, <1>4, <1>6 DEF Contexts
<1>8. run' \in Runs /\ run'.at = "drive"
  BY <1>1, Moved
<1>9. Shape'
  BY <1>1, <1>2, <1>3, <1>7, <1>8 DEF Shape
<1>10. Placed(item.phase, ctx, proof)' /\ Worth(item.phase, ctx, proof)'
  BY <1>1, <1>2, <1>3, <1>7 DEF Placed, FixMode, BeforeArtifacts, Worth
<1>11. Gating'
  BY <1>2, <1>3, <1>7 DEF Gating, Approved, Placed
<1>12. Bounded'
  <2>1. repairs \in Nat /\ repairs <= (ctx.best + 1) * NoProgressLimit + ctx.stagnant
    BY <1>2 DEF Shape, Bounded
  <2>0. ctx.stagnant \in Nat /\ ctx.stagnant <= NoProgressLimit - 1 /\ ctx.best \in Int /\ run.score \in Int
    <3>1. \A n \in 0..(NoProgressLimit - 1) : n \in Nat /\ n <= NoProgressLimit - 1
      BY <1>5
    <3> QED
      BY <1>4, <1>5, <3>1
  <2>2. CASE Improved
    <3>1. Stagnant = 0 /\ best = run.score /\ run.score > ctx.best
      BY <2>2 DEF Stagnant, Improved
    <3>3. repairs + 1 <= (run.score + 1) * NoProgressLimit + 0
      BY <1>5, <2>0, <2>1, <3>1, Rounds
    <3> QED
      BY <1>1, <1>7, <3>1, <3>3 DEF Bounded
  <2>3. CASE ~Improved
    <3>1. Stagnant = ctx.stagnant + 1 /\ best = ctx.best
      BY <2>3 DEF Stagnant
    <3>2. (ctx.best + 1) * NoProgressLimit \in Int
      BY <1>5, <2>0
    <3>3. repairs + 1 <= (ctx.best + 1) * NoProgressLimit + (ctx.stagnant + 1)
      BY <2>0, <2>1, <3>2
    <3> QED
      BY <1>1, <1>7, <3>1, <3>3 DEF Bounded
  <2> QED
    BY <2>2, <2>3
<1>13. Operating'
  BY <1>1, <1>2, <1>3 DEF Operating, Ended, Reviews, Checks, Kinds
<1>14. Standing' /\ Resting'
  BY <1>3, <1>8 DEF Standing, Working, Cancelling, Resting
<1> QED
  BY <1>9, <1>10, <1>11, <1>12, <1>13, <1>14 DEF IInv

LEMMA FallBackStep == ASSUME IInv, FallBack PROVE IInv'
<1> DEFINE kinds == {k \in Kinds : op[k].state = "FAILED"}
<1>1. /\ run.at = "failed" /\ run.at \in Working /\ op' = Consumed(op, kinds) /\ run' = [run EXCEPT !.at = "falling back"]
      /\ UNCHANGED <<contract, failures, calls, repairs, item, ctx, proof>>
  BY DEF FallBack, At, Quiet, Unchecked, Working
<1>2. Shape /\ item.status = "RUNNING" /\ Operating
  BY <1>1, StepFacts DEF IInv
<1>3. item.phase = "acceptance" /\ "call" \in kinds => op["local"].state = "absent"
  BY <1>2 DEF Operating
<1>4. Operating' /\ op' \in [Kinds -> Operations]
  BY <1>1, <1>3, FewerOperations
<1>5. run' \in Runs /\ run'.at = "falling back" /\ item' = item
  BY <1>1, <1>2 DEF Shape, Runs, Working
<1>6. Standing'
  BY <1>2, <1>5 DEF Standing, Working, Cancelling
<1> QED
  BY <1>1, <1>2, <1>4, <1>5, <1>6, InsideStep DEF Shape

\* drive goes on with the row READY, or leaves it BLOCKED.
LEMMA HandledStep ==
  ASSUME IInv, run.at \in Working, NEW status \in {"READY", "BLOCKED"}, NEW failure \in Categories \cup {"none"},
         item' = [item EXCEPT !.status = status, !.failure = failure], ctx' \in Contexts,
         ctx'.best = ctx.best, ctx'.stagnant = ctx.stagnant, ctx'.frontend = ctx.frontend, ctx'.notBug = ctx.notBug,
         ctx'.finalizeReturn = ctx.finalizeReturn, ctx'.approvals = ctx.approvals,
         UNCHANGED <<contract, proof, repairs, calls, failures>>, op' \in [Kinds -> Operations], run' \in Runs, Operating',
         (run'.at = "drive" /\ status = "READY") \/ run'.at = "idle"
  PROVE  IInv'
<1>1. Shape /\ item.status = "RUNNING" /\ item.result # "delivered" /\ Approved(item.phase, ctx)
  BY StepFacts, RowFacts
<1>2. item' \in Rows /\ item'.status = status /\ item'.phase = item.phase /\ item'.result = item.result
  BY <1>1 DEF Shape, Rows, Statuses
<1>3. Standing'
  BY <1>2 DEF Standing, Working, Cancelling
<1>4. Approved(item.phase, ctx')
  BY <1>1 DEF Approved
<1>5. item'.status \in {"READY", "RUNNING", "BLOCKED", "CANCELLED"}
  BY <1>2
<1> QED
  BY <1>1, <1>2, <1>3, <1>4, <1>5, RowStep

LEMMA FellBackStep == ASSUME IInv, FellBack PROVE IInv'
<1>1. /\ run.at = "falling back" /\ run.at \in Working /\ item' = [item EXCEPT !.status = "READY"]
      /\ ctx' = [ctx EXCEPT !.fallback = TRUE] /\ Goto("drive")
      /\ UNCHANGED <<contract, failures, calls, repairs, proof, op>>
  BY DEF FellBack, At, Quiet, Unchecked, Working
<1>2. Shape /\ item \in Rows /\ ctx \in Contexts
  BY DEF IInv, Shape
<1>3. item' = [item EXCEPT !.status = "READY", !.failure = item.failure] /\ item.failure \in Categories \cup {"none"}
      /\ item'.phase = item.phase
  BY <1>1, <1>2 DEF Rows
<1>4. /\ ctx' \in Contexts /\ ctx'.best = ctx.best /\ ctx'.stagnant = ctx.stagnant /\ ctx'.frontend = ctx.frontend
      /\ ctx'.notBug = ctx.notBug /\ ctx'.finalizeReturn = ctx.finalizeReturn /\ ctx'.approvals = ctx.approvals
  BY <1>1, <1>2 DEF Contexts
<1>5. run' \in Runs /\ run'.at = "drive"
  BY <1>1, Moved
<1>6. Operating' /\ op' \in [Kinds -> Operations]
  BY <1>1, <1>3, SameOperations
<1> QED
  BY <1>1, <1>3, <1>4, <1>5, <1>6, HandledStep

LEMMA AskAgainStep == ASSUME IInv, AskAgain PROVE IInv'
<1> DEFINE kinds == {k \in {"call"} : op[k].state \in Ended}
<1>1. /\ run.at = "failed" /\ run.at \in Working /\ run.code = "model_output" /\ ctx.protocol < 2
      /\ item' = [item EXCEPT !.status = "READY"] /\ ctx' = [ctx EXCEPT !.protocol = @ + 1]
      /\ op' = Consumed(op, kinds) /\ Goto("drive") /\ UNCHANGED <<contract, failures, calls, repairs, proof>>
  BY DEF AskAgain, CanAskAgain, At, Quiet, Unchecked, Working
<1>2. Shape /\ item \in Rows /\ ctx \in Contexts /\ Operating /\ (item.phase = "review" \/ op["call"].answer = "bad")
  BY <1>1 DEF IInv, Shape, Standing
<1>3. item' = [item EXCEPT !.status = "READY", !.failure = item.failure] /\ item.failure \in Categories \cup {"none"}
      /\ item'.phase = item.phase
  BY <1>1, <1>2 DEF Rows
<1>4. ctx.protocol + 1 \in 0..2
  <2>1. ctx.protocol \in 0..2
    BY <1>2 DEF Contexts
  <2>2. \A n \in 0..2 : n < 2 => n + 1 \in 0..2
    OBVIOUS
  <2> QED
    BY <1>1, <2>1, <2>2
<1>5. /\ ctx' \in Contexts /\ ctx'.best = ctx.best /\ ctx'.stagnant = ctx.stagnant /\ ctx'.frontend = ctx.frontend
      /\ ctx'.notBug = ctx.notBug /\ ctx'.finalizeReturn = ctx.finalizeReturn /\ ctx'.approvals = ctx.approvals
  BY <1>1, <1>2, <1>4 DEF Contexts
<1>6. run' \in Runs /\ run'.at = "drive"
  BY <1>1, Moved
<1>7. item.phase = "acceptance" => op["local"].state = "absent"
  BY <1>2 DEF Operating
<1>8. Operating' /\ op' \in [Kinds -> Operations]
  BY <1>1, <1>3, <1>7, FewerOperations
<1> QED
  BY <1>1, <1>3, <1>5, <1>6, <1>8, HandledStep

LEMMA BlockStep == ASSUME IInv, Block PROVE IInv'
<1>1. /\ run.at = "failed" /\ run.at \in Working /\ item' = [item EXCEPT !.status = "BLOCKED", !.failure = CategoryOf(run.code)]
      /\ run' = NoRun /\ UNCHANGED <<contract, failures, calls, repairs, ctx, proof, op>>
  BY DEF Block, At, Quiet, Unchecked, Working
<1>2. ctx \in Contexts /\ item \in Rows /\ CategoryOf(run.code) \in Categories
  BY <1>1, Categorised DEF IInv, Shape, Standing
<1>3. item'.phase = item.phase
  BY <1>1, <1>2 DEF Rows
<1>4. Operating' /\ op' \in [Kinds -> Operations]
  BY <1>1, <1>3, SameOperations
<1> QED
  BY <1>1, <1>2, <1>4, Values, HandledStep

-----------------------------------------------------------------------------
\* Commands of the operator.

\* Resume gives up the calls of a process that is gone, drops its checks and finishes a
\* delivery: what is left agrees with the proofs as before.
LEMMA Orphans ==
  ASSUME IInv, NEW finished \in BOOLEAN
  PROVE  /\ Orphaned(finished) \in [Kinds -> Operations]
         /\ \A k \in Kinds : op[k].state = "FAILED" <=> Orphaned(finished)[k].state = "FAILED"
         /\ \A k \in Kinds : op[k].state \in {"absent", "CONFIRMED", "FAILED"} => Orphaned(finished)[k] = op[k]
         /\ op["call"].state = "DISPATCHED" => Orphaned(finished)["call"].state = "UNKNOWN"
         /\ op["call"].state = "UNKNOWN" => Orphaned(finished)["call"].state = "UNKNOWN"
         /\ Orphaned(finished)["call"].fresh = op["call"].fresh
         /\ item.phase \in Checks =>
              Orphaned(finished)["local"] = IF op["local"].state = "DISPATCHED" THEN NoOp ELSE op["local"]
<1> DEFINE new(k, state) == [op[k] EXCEPT !.state = state]
<1>1. \A k \in Kinds : op[k] \in Operations
  BY DEF IInv, Shape
<1>2. \A k \in Kinds, state \in OpStates : new(k, state) \in Operations /\ new(k, state).state = state /\ new(k, state).fresh = op[k].fresh
  BY <1>1 DEF Operations
<1>3. {"UNKNOWN", "CONFIRMED"} \subseteq OpStates
  BY DEF OpStates
<1>4. "call" \in Kinds /\ "local" \in Kinds
  BY DEF Kinds
<1>5. Orphaned(finished)["call"] = IF op["call"].state = "DISPATCHED" THEN new("call", "UNKNOWN") ELSE op["call"]
  BY <1>4 DEF Orphaned
<1>6. item.phase \in Checks => Orphaned(finished)["local"] = IF op["local"].state = "DISPATCHED" THEN NoOp ELSE op["local"]
  BY <1>4 DEF Orphaned
<1>7. item.phase \notin Checks =>
        Orphaned(finished)["local"] = IF op["local"].state \in {"DISPATCHED", "UNKNOWN"}
                                      THEN new("local", IF finished THEN "CONFIRMED" ELSE "UNKNOWN") ELSE op["local"]
  BY <1>4 DEF Orphaned
<1>8. Orphaned(finished) = [k \in Kinds |-> Orphaned(finished)[k]]
  BY DEF Orphaned
<1> DEFINE o == Orphaned(finished)
<1> HIDE DEF new
<1>0. finished => new("local", IF finished THEN "CONFIRMED" ELSE "UNKNOWN") = new("local", "CONFIRMED")
  OBVIOUS
<1>00. ~finished => new("local", IF finished THEN "CONFIRMED" ELSE "UNKNOWN") = new("local", "UNKNOWN")
  OBVIOUS
<1>9. /\ o = [k \in Kinds |-> o[k]]
      /\ o["call"] = IF op["call"].state = "DISPATCHED" THEN new("call", "UNKNOWN") ELSE op["call"]
      /\ item.phase \in Checks => o["local"] = IF op["local"].state = "DISPATCHED" THEN NoOp ELSE op["local"]
      /\ item.phase \notin Checks =>
           \/ o["local"] = op["local"] /\ op["local"].state \notin {"DISPATCHED", "UNKNOWN"}
           \/ op["local"].state \in {"DISPATCHED", "UNKNOWN"} /\ o["local"] \in {new("local", "CONFIRMED"), new("local", "UNKNOWN")}
  <2>1. item.phase \notin Checks =>
           \/ o["local"] = op["local"] /\ op["local"].state \notin {"DISPATCHED", "UNKNOWN"}
           \/ op["local"].state \in {"DISPATCHED", "UNKNOWN"} /\ o["local"] \in {new("local", "CONFIRMED"), new("local", "UNKNOWN")}
    BY <1>0, <1>00, <1>7
  <2>2. o = [k \in Kinds |-> o[k]]
    BY <1>8
  <2> QED
    BY <1>5, <1>6, <2>1, <2>2
<1> HIDE DEF o
<1>10. o["call"] \in Operations /\ o["local"] \in Operations
  BY <1>1, <1>2, <1>3, <1>4, <1>9, Values
<1>11. o \in [Kinds -> Operations]
  BY <1>9, <1>10 DEF Kinds
<1>12. \A k \in Kinds : op[k].state = "FAILED" <=> o[k].state = "FAILED"
  BY <1>2, <1>3, <1>4, <1>9, Values DEF Kinds
<1>13. \A k \in Kinds : op[k].state \in {"absent", "CONFIRMED", "FAILED"} => o[k] = op[k]
  BY <1>9 DEF Kinds
<1>14. /\ op["call"].state = "DISPATCHED" => o["call"].state = "UNKNOWN"
       /\ op["call"].state = "UNKNOWN" => o["call"].state = "UNKNOWN"
       /\ o["call"].fresh = op["call"].fresh
  BY <1>2, <1>3, <1>4, <1>9
<1> QED
  BY <1>6, <1>11, <1>12, <1>13, <1>14 DEF o

LEMMA OrphansOperate ==
  ASSUME IInv, NEW finished \in BOOLEAN, NEW kinds, kinds = {} \/ kinds = {k \in Kinds : Orphaned(finished)[k].state = "FAILED"},
         op' = Consumed(Orphaned(finished), kinds), UNCHANGED <<contract, proof>>, item'.phase = item.phase
  PROVE  Operating' /\ op' \in [Kinds -> Operations]
<1> DEFINE o == Orphaned(finished)
<1>1. /\ o \in [Kinds -> Operations]
      /\ \A k \in Kinds : op[k].state = "FAILED" <=> o[k].state = "FAILED"
      /\ \A k \in Kinds : op[k].state \in {"absent", "CONFIRMED", "FAILED"} => o[k] = op[k]
      /\ op["call"].state = "DISPATCHED" => o["call"].state = "UNKNOWN"
      /\ op["call"].state = "UNKNOWN" => o["call"].state = "UNKNOWN"
      /\ o["call"].fresh = op["call"].fresh
      /\ item.phase \in Checks => o["local"] = IF op["local"].state = "DISPATCHED" THEN NoOp ELSE op["local"]
  BY Orphans
<1>2. \A k \in Kinds : op'[k] = IF k \in kinds THEN NoOp ELSE o[k]
  BY DEF Consumed
<1>3. op' \in [Kinds -> Operations]
  BY <1>1, <1>2, Values DEF Consumed
<1>4. /\ \A k \in kinds : o[k].state = "FAILED"
      /\ Operating /\ \A k \in Kinds : op[k].state \in OpStates
  BY DEF IInv, Shape, Operations
<1> HIDE DEF o
<1>5. "call" \in Kinds /\ "local" \in Kinds
  BY DEF Kinds
<1>6. \A k \in Kinds : op'[k].state = "FAILED" => op'[k].answer \in Codes \ {"model_output"}
  <2>1. \A k \in Kinds : op'[k].state = "FAILED" => op[k].state = "FAILED" /\ op'[k] = op[k]
    BY <1>1, <1>2, Values
  <2> QED
    BY <1>4, <2>1 DEF Operating
<1>7. op'["call"].state = "CONFIRMED" /\ op'["call"].answer = "finalize" => item.phase = "review"
  <2>1. op'["call"].state = "CONFIRMED" => op'["call"] = op["call"]
    BY <1>1, <1>2, <1>4, <1>5, Values DEF OpStates
  <2> QED
    BY <1>4, <2>1 DEF Operating
<1>8. item.phase \in Reviews => op'["call"].fresh
  BY <1>1, <1>2, <1>4, <1>5, Values DEF Operating
<1>9. item.phase \in Checks => op'["local"] = NoOp \/ op'["local"] = op["local"]
  BY <1>1, <1>2, <1>5
<1>10. op["local"].state = "absent" => op'["local"].state = "absent"
  BY <1>1, <1>2, <1>5, Values
<1>11. op["call"].state = "CONFIRMED" => op'["call"] = op["call"]
  BY <1>1, <1>2, <1>4, <1>5
<1>12. Missing' <=> Missing
  BY DEF Missing
<1>13. item.phase = "acceptance" => item.phase \in Checks
  BY DEF Checks
<1>14. item.phase = "artifact_verify" => item.phase \in Checks
  BY DEF Checks
<1>15. op'["local"].state = "CONFIRMED" /\ item.phase \in Checks => op'["local"].fresh
  BY <1>4, <1>9, Values DEF Operating
<1>16. item.phase = "artifact_verify" /\ op'["local"].state \in {"DISPATCHED", "UNKNOWN", "CONFIRMED"} /\ op'["local"].fresh =>
         proof["verification"] = "current"
  BY <1>4, <1>9, <1>14, Values DEF Operating
<1>17. item.phase = "acceptance" /\ op'["local"].state # "absent" => op'["call"].state = "CONFIRMED" /\ op'["call"].answer = "pass"
  BY <1>4, <1>10, <1>11 DEF Operating
<1>18. item.phase = "deliver" /\ op'["local"].state # "absent" => ~Missing
  BY <1>4, <1>10 DEF Operating
<1> QED
  BY <1>3, <1>6, <1>7, <1>8, <1>12, <1>15, <1>16, <1>17, <1>18 DEF Operating, Reviews, Checks

LEMMA ResumeStep == ASSUME IInv, Resume PROVE IInv'
<1>1. /\ run.at = "idle" /\ item.status \in {"READY", "RUNNING", "BLOCKED"}
      /\ UNCHANGED <<contract, failures, calls, repairs, ctx, proof>>
  BY DEF Resume, At, Quiet, Unchecked
<1>2. Shape /\ item.result # "delivered" /\ Approved(item.phase, ctx) /\ ctx \in Contexts
  BY <1>1, RowFacts DEF IInv, Shape
<1>3. PICK finished \in BOOLEAN :
        \/ op' = Orphaned(finished) /\ UNCHANGED <<item, run>>
        \/ /\ \/ op' = Orphaned(finished)
              \/ op' = Consumed(Orphaned(finished), {k \in Kinds : Orphaned(finished)[k].state = "FAILED"})
           /\ item' = [item EXCEPT !.status = "READY", !.failure = IF item.status = "BLOCKED" THEN "none" ELSE @]
           /\ Goto("drive")
  <2>1. {item.phase = "deliver", FALSE} \subseteq BOOLEAN
    OBVIOUS
  <2> QED
    BY <2>1 DEF Resume
<1>4. op' = Orphaned(finished) => op' = Consumed(Orphaned(finished), {})
  BY DEF Orphaned, Consumed
<1>5. \E kinds : /\ kinds = {} \/ kinds = {k \in Kinds : Orphaned(finished)[k].state = "FAILED"}
                 /\ op' = Consumed(Orphaned(finished), kinds)
  BY <1>3, <1>4
<1>6. CASE UNCHANGED <<item, run>>
  <2>1. Operating' /\ op' \in [Kinds -> Operations]
    BY <1>1, <1>5, <1>6, OrphansOperate
  <2>2. Standing' /\ run' \in Runs
    BY <1>1, <1>2, <1>6 DEF Standing, Working, Cancelling, Shape
  <2> QED
    BY <1>1, <1>2, <1>6, <2>1, <2>2, KeepStep DEF Shape
<1>7. CASE item' = [item EXCEPT !.status = "READY", !.failure = IF item.status = "BLOCKED" THEN "none" ELSE @] /\ Goto("drive")
  <2>1. item' \in Rows /\ item'.status = "READY" /\ item'.phase = item.phase /\ item'.result = item.result
    BY <1>2, <1>7 DEF Shape, Rows, Statuses
  <2>2. Operating' /\ op' \in [Kinds -> Operations]
    BY <1>1, <1>5, <2>1, OrphansOperate
  <2>3. run' \in Runs /\ run'.at = "drive"
    BY <1>7, Moved
  <2>4. Standing'
    BY <2>1, <2>3 DEF Standing, Working, Cancelling
  <2> QED
    BY <1>1, <1>2, <2>1, <2>2, <2>3, <2>4, RowStep
<1> QED
  BY <1>3, <1>6, <1>7

LEMMA AnswerStep == ASSUME IInv, Answer PROVE IInv'
<1>1. /\ item.status = "WAITING" /\ item.waiting = "user" /\ item' = [item EXCEPT !.status = "READY", !.waiting = "none"]
      /\ Goto("drive") /\ UNCHANGED <<contract, failures, calls, repairs, ctx, proof, op>>
  BY DEF Answer, Quiet, Unchecked
<1>2. Shape /\ item.result # "delivered" /\ Approved(item.phase, ctx) /\ ctx \in Contexts
  BY <1>1, RowFacts DEF IInv, Shape
<1>3. item' \in Rows /\ item'.status = "READY" /\ item'.phase = item.phase /\ item'.result = item.result
  BY <1>1, <1>2 DEF Shape, Rows, Statuses
<1>4. Operating' /\ op' \in [Kinds -> Operations]
  BY <1>1, <1>3, SameOperations
<1>5. run' \in Runs /\ run'.at = "drive"
  BY <1>1, Moved
<1>6. Standing'
  BY <1>3, <1>5 DEF Standing, Working, Cancelling
<1> QED
  BY <1>1, <1>2, <1>3, <1>4, <1>5, <1>6, RowStep

LEMMA ApproveStep == ASSUME IInv, Approve PROVE IInv'
<1>1. /\ run.at = "idle" /\ item.status = "WAITING" /\ item.waiting \in Gates /\ item' = [item EXCEPT !.status = "READY", !.waiting = "none"]
      /\ ctx' = Decided(ctx, item.waiting, "human") /\ UNCHANGED <<contract, failures, calls, repairs, proof, op, run>>
  BY DEF Approve, At, Quiet, Unchecked
<1>2. Shape /\ item.result # "delivered" /\ ctx \in Contexts /\ (item.waiting # "prototype" => Approved(item.phase, ctx))
  BY <1>1, RowFacts DEF IInv, Shape
<1>3. item' \in Rows /\ item'.status = "READY" /\ item'.phase = item.phase /\ item'.result = item.result
  BY <1>1, <1>2 DEF Shape, Rows, Statuses
<1>4. Operating' /\ op' \in [Kinds -> Operations]
  BY <1>1, <1>3, SameOperations
<1>5. /\ ctx' \in Contexts /\ ctx'.best = ctx.best /\ ctx'.stagnant = ctx.stagnant /\ ctx'.frontend = ctx.frontend
      /\ ctx'.notBug = ctx.notBug /\ ctx'.finalizeReturn = ctx.finalizeReturn
      /\ ctx'.approvals[item.waiting] = "human" /\ \A g \in Gates \ {item.waiting} : ctx'.approvals[g] = ctx.approvals[g]
  <2> DEFINE d == Decided(ctx, item.waiting, "human")
  <2>1. /\ d \in Contexts /\ d.best = ctx.best /\ d.stagnant = ctx.stagnant /\ d.frontend = ctx.frontend
        /\ d.notBug = ctx.notBug /\ d.finalizeReturn = ctx.finalizeReturn
        /\ d.approvals[item.waiting] = "human" /\ \A g \in Gates \ {item.waiting} : d.approvals[g] = ctx.approvals[g]
    <3>1. item.waiting \in Gates /\ ctx \in Contexts
      BY <1>1, <1>2
    <3>2. d \in Contexts /\ d.best = ctx.best /\ d.stagnant = ctx.stagnant /\ d.frontend = ctx.frontend
      BY <3>1, DecisionTaken
    <3>3. d.notBug = ctx.notBug /\ d.finalizeReturn = ctx.finalizeReturn
      BY <3>1, DecisionTaken
    <3>4. d.approvals[item.waiting] = "human"
      BY <3>1, DecisionTaken
    <3>5. \A g \in Gates \ {item.waiting} : d.approvals[g] = ctx.approvals[g]
      BY <3>1, DecisionTaken, SMTT(60)
    <3> QED
      BY <3>2, <3>3, <3>4, <3>5
  <2>2. ctx' = d
    BY <1>1
  <2> HIDE DEF d
  <2> QED
    BY <2>1, <2>2
<1>6. Approved(item.phase, ctx')
  BY <1>2, <1>5 DEF Approved, Gates
<1>7. Standing' /\ run' \in Runs
  BY <1>1, <1>2, <1>3 DEF Standing, Working, Cancelling, Shape
<1> QED
  BY <1>1, <1>2, <1>3, <1>4, <1>5, <1>6, <1>7, RowStep

\* A rejected gate leads back to the phase that asked, and every later one is behind it.
LEMMA RejectStep == ASSUME IInv, Reject PROVE IInv'
<1>1. /\ run.at = "idle" /\ item.status = "WAITING" /\ item.waiting \in Gates
      /\ item' = [item EXCEPT !.status = "READY", !.waiting = "none", !.phase = ctx.gatePhase]
      /\ ctx' = Decided(ctx, item.waiting, "none") /\ UNCHANGED <<contract, failures, calls, repairs, proof, op, run>>
  BY DEF Reject, At, Quiet, Unchecked
<1>2. /\ Shape /\ item.result # "delivered" /\ ctx \in Contexts /\ (item.waiting # "prototype" => Approved(item.phase, ctx))
      /\ GateOpen(item.waiting, item.phase, ctx) /\ Placed(item.phase, ctx, proof) /\ NothingOpen
  BY <1>1, RowFacts DEF IInv, Shape, Gating, Resting
<1>3. ctx.gatePhase \in Asking
  BY <1>1, <1>2 DEF GateOpen, Gates, Asking
<1>4. item' \in Rows /\ item'.status = "READY" /\ item'.phase = ctx.gatePhase /\ item'.result = item.result
  <2>1. ctx.gatePhase \in Phases
    BY <1>3 DEF Asking, Phases, ModelPhases, LocalPhases
  <2> QED
    BY <1>1, <1>2, <2>1 DEF Shape, Rows, Statuses
<1>5. /\ ctx' \in Contexts /\ ctx'.best = ctx.best /\ ctx'.stagnant = ctx.stagnant /\ ctx'.frontend = ctx.frontend
      /\ ctx'.notBug = ctx.notBug /\ ctx'.finalizeReturn = ctx.finalizeReturn
      /\ ctx'.approvals[item.waiting] = "none" /\ \A g \in Gates \ {item.waiting} : ctx'.approvals[g] = ctx.approvals[g]
  <2> DEFINE d == Decided(ctx, item.waiting, "none")
  <2>1. /\ d \in Contexts /\ d.best = ctx.best /\ d.stagnant = ctx.stagnant /\ d.frontend = ctx.frontend
        /\ d.notBug = ctx.notBug /\ d.finalizeReturn = ctx.finalizeReturn
        /\ d.approvals[item.waiting] = "none" /\ \A g \in Gates \ {item.waiting} : d.approvals[g] = ctx.approvals[g]
    <3>1. item.waiting \in Gates /\ ctx \in Contexts
      BY <1>1, <1>2
    <3>2. d \in Contexts /\ d.best = ctx.best /\ d.stagnant = ctx.stagnant /\ d.frontend = ctx.frontend
      BY <3>1, DecisionTaken
    <3>3. d.notBug = ctx.notBug /\ d.finalizeReturn = ctx.finalizeReturn
      BY <3>1, DecisionTaken
    <3>4. d.approvals[item.waiting] = "none"
      BY <3>1, DecisionTaken
    <3>5. \A g \in Gates \ {item.waiting} : d.approvals[g] = ctx.approvals[g]
      BY <3>1, DecisionTaken, SMTT(60)
    <3> QED
      BY <3>2, <3>3, <3>4, <3>5
  <2>2. ctx' = d
    BY <1>1
  <2> HIDE DEF d
  <2> QED
    BY <2>1, <2>2
<1>6. Approved(ctx.gatePhase, ctx')
  BY <1>1, <1>2, <1>5 DEF Approved, GateOpen, Gates, Later, Placed, RunMode, FixMode, CollabMode
<1>7. Placed(ctx.gatePhase, ctx', proof)
  BY <1>1, <1>2, <1>5 DEF Placed, GateOpen, Gates, RunMode, FixMode, CollabMode, BeforeArtifacts
<1>8. Worth(ctx.gatePhase, ctx', proof)
  BY <1>3 DEF Worth, Asking
<1>9. Shape'
  BY <1>1, <1>2, <1>4, <1>5 DEF Shape
<1>10. Placed(item.phase, ctx, proof)' /\ Worth(item.phase, ctx, proof)'
  BY <1>1, <1>4, <1>7, <1>8 DEF Placed, Worth, Examined, Current
<1>11. Gating'
  BY <1>4, <1>6 DEF Gating, Approved
<1>12. Bounded'
  BY <1>1, <1>5 DEF IInv, Bounded
<1>13. Operating'
  <2>1. \A k \in Kinds : op'[k].state = "absent"
    BY <1>1, <1>2 DEF NothingOpen
  <2>2. item'.phase \notin Reviews /\ op'["local"].state = "absent" /\ op'["call"].state = "absent"
    BY <1>3, <1>4, <2>1 DEF Asking, Reviews, Kinds
  <2> QED
    BY <2>1, <2>2 DEF Operating, Reviews, Kinds
<1>14. Standing'
  BY <1>1, <1>4 DEF Standing, Working, Cancelling
<1>15. Resting'
  BY <1>2, <1>4 DEF Resting
<1> QED
  BY <1>9, <1>10, <1>11, <1>12, <1>13, <1>14, <1>15 DEF IInv

LEMMA CancelStep == ASSUME IInv, Cancel PROVE IInv'
<1>1. /\ run.at = "idle" /\ item.status \in {"READY", "RUNNING", "WAITING", "BLOCKED"} /\ item' = [item EXCEPT !.status = "CANCELLED"]
      /\ UNCHANGED <<contract, failures, calls, repairs, ctx, proof, op, run>>
  BY DEF Cancel, At, Quiet, Unchecked
<1>2. Shape /\ item.result # "delivered" /\ ctx \in Contexts
  BY <1>1, RowFacts DEF IInv, Shape
<1>3. item' \in Rows /\ item'.status = "CANCELLED" /\ item'.phase = item.phase /\ item'.result = item.result
  BY <1>1, <1>2 DEF Shape, Rows, Statuses
<1>4. Operating' /\ op' \in [Kinds -> Operations]
  BY <1>1, <1>3, SameOperations
<1>5. Standing' /\ run' \in Runs
  BY <1>1, <1>2, <1>3 DEF Standing, Working, Cancelling, Shape
<1> QED
  BY <1>1, <1>2, <1>3, <1>4, <1>5, RowStep

\* A row that waits or is completed has nothing to reconcile.
LEMMA OpenRow == ASSUME IInv, NEW k \in Kinds, op[k].state # "absent" PROVE item.status \notin {"WAITING", "COMPLETED"}
BY DEF IInv, Resting, NothingOpen

LEMMA ReconcileSettleStep == ASSUME IInv, NEW k \in Kinds, ReconcileSettle(k) PROVE IInv'
<1>1. /\ run.at = "idle" /\ op[k].state \in {"DISPATCHED", "UNKNOWN"} /\ op[k].state # "absent"
      /\ UNCHANGED <<contract, failures, calls, repairs, item, ctx, proof>>
  BY DEF ReconcileSettle, At, Quiet, Unchecked
<1>2. Shape /\ Operating /\ op[k] \in Operations
  BY DEF IInv, Shape
<1>3. item.status \notin {"WAITING", "COMPLETED"}
  BY <1>1, OpenRow
<1>4. "call" \in Kinds /\ "local" \in Kinds
  BY DEF Kinds
<1>5. ASSUME NEW place \in Commanding, Goto(place), Operating', op' \in [Kinds -> Operations],
             place = "waking" \/ (place = Cancelling(k) /\ op'[k].state = "FAILED")
      PROVE  IInv'
  <2>1. run' \in Runs /\ run'.at = place
    BY <1>5, Moved
  <2>2. Standing'
    BY <1>5, <2>1 DEF Standing, Working, Commanding, Cancelling, Kinds
  <2> QED
    BY <1>1, <1>2, <1>3, <1>5, <2>1, <2>2, KeepStep DEF Shape
<1>6. ASSUME k = "call", NEW r \in Replies(item.phase), Goto("waking"),
             op' = [op EXCEPT ![k] = [@ EXCEPT !.state = "CONFIRMED", !.answer = r, !.sealed = FALSE, !.fresh = TRUE]]
      PROVE  IInv'
  <2> DEFINE new == [op[k] EXCEPT !.state = "CONFIRMED", !.answer = r, !.sealed = FALSE, !.fresh = TRUE]
  <2>1. r \in Words
    BY RepliesAreWords
  <2>2. new \in Operations /\ new.state = "CONFIRMED" /\ new.answer = r /\ new.fresh = TRUE
    BY <1>2, <2>1 DEF Operations, OpStates
  <2>3. op' = [op EXCEPT ![k] = new]
    BY <1>6
  <2> HIDE DEF new
  <2>4. op' \in [Kinds -> Operations] /\ op'["call"] = new /\ op'["local"] = op["local"]
    BY <1>2, <1>4, <1>6, <2>2, <2>3 DEF Shape
  <2>5. op'["call"].answer = "finalize" => item.phase = "review"
    BY <2>2, <2>4, OnlyReviewsFinalize
  <2>6. item.phase = "acceptance" => op["local"].state = "absent"
    BY <1>1, <1>2, <1>6 DEF Operating
  <2>7. Operating'
    BY <1>1, <1>2, <2>2, <2>4, <2>5, <2>6 DEF Operating, Missing, Kinds
  <2> QED
    BY <1>5, <1>6, <2>4, <2>7 DEF Commanding
<1>7. ASSUME k = "local", item.phase \in Checks => op["local"].fresh, Goto("waking"),
             op' = [op EXCEPT ![k] = [@ EXCEPT !.state = "CONFIRMED"]]
      PROVE  IInv'
  <2> DEFINE new == [op[k] EXCEPT !.state = "CONFIRMED"]
  <2>1. new \in Operations /\ new.state = "CONFIRMED" /\ new.fresh = op[k].fresh
    BY <1>2 DEF Operations, OpStates
  <2>2. op' = [op EXCEPT ![k] = new]
    BY <1>7
  <2> HIDE DEF new
  <2>3. op' \in [Kinds -> Operations] /\ op'["local"] = new /\ op'["call"] = op["call"]
    BY <1>2, <1>4, <1>7, <2>1, <2>2 DEF Shape
  <2>4. Operating'
    BY <1>1, <1>2, <1>7, <2>1, <2>3 DEF Operating, Missing, Kinds, Checks
  <2> QED
    BY <1>5, <1>7, <2>3, <2>4 DEF Commanding
<1>8. ASSUME Goto(Cancelling(k)), op' = [op EXCEPT ![k] = [@ EXCEPT !.state = "FAILED", !.answer = "provider"]]
      PROVE  IInv'
  <2> DEFINE new == [op[k] EXCEPT !.state = "FAILED", !.answer = "provider"]
  <2>1. "provider" \in Words /\ "provider" \in Codes \ {"model_output"}
    BY DEF Words, Codes
  <2>2. new \in Operations /\ new.state = "FAILED" /\ new.answer = "provider" /\ new.fresh = op[k].fresh
    BY <1>2, <2>1 DEF Operations, OpStates
  <2>3. op' = [op EXCEPT ![k] = new]
    BY <1>8
  <2> HIDE DEF new
  <2>4. op' \in [Kinds -> Operations] /\ op'[k] = new /\ \A j \in Kinds \ {k} : op'[j] = op[j]
    BY <1>2, <2>2, <2>3 DEF Shape
  <2>5. item.phase = "acceptance" /\ k = "call" => op["local"].state = "absent"
    BY <1>1, <1>2 DEF Operating
  <2>6. CASE k = "call"
    <3>1. op'["call"] = new /\ op'["local"] = op["local"]
      BY <1>4, <2>4, <2>6
    <3>2. Operating'
      BY <1>1, <1>2, <2>1, <2>2, <2>5, <2>6, <3>1 DEF Operating, Missing, Kinds
    <3> QED
      BY <1>5, <1>8, <2>2, <2>4, <3>2 DEF Commanding, Cancelling, Kinds
  <2>7. CASE k = "local"
    <3>1. op'["local"] = new /\ op'["call"] = op["call"]
      BY <1>4, <2>4, <2>7
    <3>2. Operating'
      BY <1>1, <1>2, <2>1, <2>2, <2>7, <3>1 DEF Operating, Missing, Kinds
    <3> QED
      BY <1>5, <1>8, <2>2, <2>4, <3>2 DEF Commanding, Cancelling, Kinds
  <2> QED
    BY <2>6, <2>7 DEF Kinds
<1> QED
  BY <1>6, <1>7, <1>8 DEF ReconcileSettle

LEMMA ReconcileConsumeStep == ASSUME IInv, NEW k \in Kinds, ReconcileConsume(k) PROVE IInv'
<1>1. /\ run.at = Cancelling(k) /\ op' = Consumed(op, {k}) /\ Goto("waking")
      /\ UNCHANGED <<contract, failures, calls, repairs, item, ctx, proof>>
  BY DEF ReconcileConsume, At, Quiet, Unchecked
<1>2. Shape /\ op[k].state = "FAILED" /\ Operating
  BY <1>1 DEF IInv, Standing
<1>3. item.phase = "acceptance" /\ "call" \in {k} => op["local"].state = "absent"
  BY <1>2 DEF Operating
<1>4. Operating' /\ op' \in [Kinds -> Operations]
  BY <1>1, <1>3, FewerOperations
<1>5. item.status \notin {"WAITING", "COMPLETED"}
  BY <1>2, OpenRow
<1>6. run' \in Runs /\ run'.at = "waking"
  BY <1>1, Moved DEF Commanding
<1>7. Standing'
  BY <1>6 DEF Standing, Working, Cancelling
<1> QED
  BY <1>1, <1>2, <1>4, <1>5, <1>6, <1>7, KeepStep DEF Shape

LEMMA ReconcileWakeStep == ASSUME IInv, ReconcileWake PROVE IInv'
<1>1. run' = NoRun /\ UNCHANGED <<contract, failures, calls, repairs, ctx, proof, op>>
  BY DEF ReconcileWake, Quiet, Unchecked
<1>2. Shape /\ ctx \in Contexts
  BY DEF IInv, Shape
<1>3. CASE item' = item
  <2>1. Operating' /\ op' \in [Kinds -> Operations]
    BY <1>1, <1>3, SameOperations
  <2>2. Standing'
    BY <1>1, Values DEF Standing, Working, Cancelling
  <2> QED
    BY <1>1, <1>2, <1>3, <2>1, <2>2, Values, KeepStep DEF Shape
<1>4. CASE item.status = "BLOCKED" /\ item' = [item EXCEPT !.status = "READY", !.failure = "none"]
  <2>1. item' \in Rows /\ item'.status = "READY" /\ item'.phase = item.phase /\ item'.result = item.result
    BY <1>2, <1>4 DEF Shape, Rows, Statuses
  <2>2. Operating' /\ op' \in [Kinds -> Operations]
    BY <1>1, <2>1, SameOperations
  <2>3. Standing'
    BY <1>1, Values DEF Standing, Working, Cancelling
  <2> QED
    BY <1>1, <1>2, <1>4, <2>1, <2>2, <2>3, Values, RowFacts, RowStep
<1> QED
  BY <1>3, <1>4 DEF ReconcileWake

-----------------------------------------------------------------------------
\* Failures of the environment.

LEMMA Counted == ASSUME IInv, Failing PROVE failures' \in 0..MaxFailures /\ UNCHANGED <<contract, ctx, proof, calls, repairs>>
<1>1. failures \in 0..MaxFailures /\ failures < MaxFailures /\ failures' = failures + 1
  BY DEF IInv, Shape, Failing
<1> QED
  BY <1>1, StagesAssumption DEF Failing

LEMMA CrashStep == ASSUME IInv, Crash PROVE IInv'
<1>1. run' = NoRun /\ UNCHANGED <<contract, calls, repairs, item, ctx, proof, op>> /\ failures' \in 0..MaxFailures
  BY Counted DEF Crash
<1>2. Operating' /\ op' \in [Kinds -> Operations]
  BY <1>1, SameOperations
<1>3. Standing'
  BY <1>1, Values DEF Standing, Working, Cancelling
<1> QED
  BY <1>1, <1>2, <1>3, Values, KeepStep

LEMMA UnconfirmedStep == ASSUME IInv, Unconfirmed PROVE IInv'
<1>1. /\ run.at \in {"calling", "checking"} /\ run.at \in Working /\ Raise("outcome_unknown")
      /\ UNCHANGED <<contract, calls, repairs, item, ctx, proof>> /\ failures' \in 0..MaxFailures
  BY Counted DEF Unconfirmed, At, Working
<1>2. Shape /\ item.status = "RUNNING" /\ Operating /\ Standing
  BY <1>1, StepFacts DEF IInv
<1>3. PICK k \in Kinds : /\ op' = [op EXCEPT ![k] = [@ EXCEPT !.state = "UNKNOWN"]]
                         /\ (k = "call" /\ run.at = "calling") \/ (k = "local" /\ run.at = "checking")
  BY DEF Unconfirmed, At, Kinds
<1> DEFINE new == [op[k] EXCEPT !.state = "UNKNOWN"]
<1>4. new \in Operations /\ new.state = "UNKNOWN" /\ new.fresh = op[k].fresh
  BY <1>2 DEF Shape, Operations, OpStates
<1>5. op' = [op EXCEPT ![k] = new]
  BY <1>3
<1> HIDE DEF new
<1>6. op' \in [Kinds -> Operations] /\ op'[k] = new /\ \A j \in Kinds \ {k} : op'[j] = op[j]
  BY <1>2, <1>4, <1>5 DEF Shape
<1>7. Operating'
  <2>1. CASE k = "call"
    <3>1. op'["call"] = new /\ op'["local"] = op["local"] /\ op["call"].state = "DISPATCHED"
      BY <1>2, <1>3, <1>6, <2>1 DEF Kinds, Standing
    <3> QED
      BY <1>1, <1>2, <1>4, <2>1, <3>1 DEF Operating, Missing, Kinds
  <2>2. CASE k = "local"
    <3>1. op'["local"] = new /\ op'["call"] = op["call"] /\ op["local"].state = "DISPATCHED"
      BY <1>2, <1>3, <1>6, <2>2 DEF Kinds, Standing
    <3> QED
      BY <1>1, <1>2, <1>4, <2>2, <3>1 DEF Operating, Missing, Kinds
  <2> QED
    BY <2>1, <2>2 DEF Kinds
<1>8. run' \in Runs /\ run'.at = "failed" /\ run'.code \in Codes /\ run'.code # "model_output"
  <2>1. "outcome_unknown" \in Codes
    BY DEF Codes
  <2> QED
    BY <1>1, <2>1, Raised
<1>9. item' = item
  BY <1>1
<1>10. Standing'
  BY <1>2, <1>8, <1>9 DEF Standing, Working, Cancelling
<1> QED
  BY <1>1, <1>2, <1>6, <1>7, <1>8, <1>10, InsideStep DEF Shape

LEMMA InterruptStep == ASSUME IInv, Interrupt PROVE IInv'
<1>1. /\ run.at \in {"calling", "checking"} /\ run.at \in Working /\ op' = Interrupted /\ (run' = NoRun \/ Raise("engine"))
      /\ UNCHANGED <<contract, calls, repairs, item, ctx, proof>> /\ failures' \in 0..MaxFailures
  BY Counted DEF Interrupt, Working
<1>2. Shape /\ item.status = "RUNNING" /\ Operating /\ \A k \in Kinds : op[k] \in Operations
  BY <1>1, StepFacts DEF IInv, Shape
<1> DEFINE unknown(k) == [op[k] EXCEPT !.state = "UNKNOWN"]
<1> DEFINE failed(k) == [op[k] EXCEPT !.state = "FAILED", !.answer = "outcome_unknown"]
<1>3. \A k \in Kinds : unknown(k) \in Operations /\ unknown(k).state = "UNKNOWN" /\ unknown(k).fresh = op[k].fresh
  BY <1>2 DEF Operations, OpStates
<1>4. "outcome_unknown" \in Words /\ "outcome_unknown" \in Codes \ {"model_output"}
  BY DEF Words, Codes
<1>5. \A k \in Kinds : failed(k) \in Operations /\ failed(k).state = "FAILED" /\ failed(k).answer = "outcome_unknown"
                       /\ failed(k).fresh = op[k].fresh
  BY <1>2, <1>4 DEF Operations, OpStates
<1>6. \A k \in Kinds : \/ op'[k] = op[k]
                       \/ op[k].state = "DISPATCHED" /\ op'[k] = unknown(k)
                       \/ op[k].state = "DISPATCHED" /\ op'[k] = failed(k)
  BY <1>1 DEF Interrupted
<1>7. op' = [k \in Kinds |-> op'[k]]
  BY <1>1 DEF Interrupted
<1> HIDE DEF unknown, failed
<1>8. \A k \in Kinds : op'[k] \in Operations
  BY <1>2, <1>3, <1>5, <1>6
<1>9. op' \in [Kinds -> Operations]
  BY <1>7, <1>8
<1>10. /\ op'["call"].fresh = op["call"].fresh /\ op'["local"].fresh = op["local"].fresh
       /\ op'["call"].state = "CONFIRMED" => op'["call"] = op["call"]
       /\ op["call"].state = "CONFIRMED" => op'["call"] = op["call"]
       /\ op'["local"].state = "CONFIRMED" => op'["local"] = op["local"]
       /\ op'["local"].state = "UNKNOWN" => op["local"].state \in {"DISPATCHED", "UNKNOWN"}
       /\ op'["local"].state = "DISPATCHED" => op["local"].state = "DISPATCHED"
       /\ op'["local"].state # "absent" => op["local"].state # "absent"
  BY <1>3, <1>5, <1>6 DEF Kinds
<1>11. \A k \in Kinds : op'[k].state = "FAILED" => op'[k].answer \in Codes \ {"model_output"}
  BY <1>2, <1>3, <1>4, <1>5, <1>6 DEF Operating
<1>12. Operating'
  <2>1. op'["local"].state \in {"DISPATCHED", "UNKNOWN", "CONFIRMED"} => op["local"].state \in {"DISPATCHED", "UNKNOWN", "CONFIRMED"}
    BY <1>10
  <2>2. UNCHANGED <<contract, item, proof>>
    BY <1>1
  <2> QED
    BY <1>2, <1>10, <1>11, <2>1, <2>2 DEF Operating, Missing
<1>13. run' \in Runs /\ (run'.at = "idle" \/ (run'.at = "failed" /\ run'.code = "engine")) /\ "engine" \in Codes
  BY <1>1, Raised, Values DEF Codes
<1>14. item' = item
  BY <1>1
<1>15. Standing'
  BY <1>2, <1>13, <1>14 DEF Standing, Working, Cancelling
<1> QED
  BY <1>1, <1>2, <1>9, <1>12, <1>13, <1>15, InsideStep DEF Shape

\* A step that leaves the contract, the row, its operations and the run alone keeps where
\* they stand.
LEMMA StandingKept ==
  ASSUME Standing, UNCHANGED <<contract, item, op, run>>, Stagnant' = Stagnant
  PROVE  Standing'
BY ZenonT(120) DEF Standing, Cancelling

-----------------------------------------------------------------------------
\* The theorems.

LEMMA Step == ASSUME IInv, [Next]_vars PROVE IInv'
<1>1. CASE Operator
  BY <1>1, ResumeStep, AnswerStep, ApproveStep, RejectStep, CancelStep, ReconcileSettleStep DEF Operator
<1>2. CASE Program
  <2>1. CASE Enter \/ Return \/ SkipPrototype \/ Integrate \/ BrokenSeal \/ Register \/ Retained \/ Answered \/ CallFails \/ Interpret
    BY <2>1, EnterStep, ReturnStep, SkipPrototypeStep, IntegrateStep, BrokenSealStep, RegisterStep, RetainedStep,
       AnsweredStep, CallFailsStep, InterpretStep
  <2>2. CASE \/ AskReset \/ Incomplete \/ AskRelease \/ NoArtifacts \/ ArtifactSeal \/ RegisterLocal \/ RetainedLocal
             \/ CheckPasses \/ CheckFails \/ Correct \/ Uncorrected \/ Checked \/ AcceptedVerified
    BY <2>2, AskResetStep, BrokenSealStep, NoArtifactsStep, RegisterLocalStep, RetainedLocalStep, CheckPassesStep,
       CheckFailsStep, CorrectStep, UncorrectedStep, CheckedStep, AcceptedVerifiedStep
  <2>3. CASE Repair \/ ConsumeForRepair \/ BackToImplement \/ FallBack \/ FellBack \/ AskAgain \/ Block
    BY <2>3, RepairStep, ConsumeForRepairStep, BackToImplementStep, FallBackStep, FellBackStep, AskAgainStep, BlockStep
  <2>4. CASE ReconcileWake \/ \E k \in Kinds : ReconcileConsume(k)
    BY <2>4, ReconcileWakeStep, ReconcileConsumeStep
  <2> QED
    BY <1>2, <2>1, <2>2, <2>3, <2>4 DEF Program
<1>3. CASE Worker
  BY <1>3, WriteSourceStep, WriteReportsStep, CheckWritesStep DEF Worker
<1>4. CASE Failure
  BY <1>4, CrashStep, UnconfirmedStep, InterruptStep DEF Failure
<1>5. CASE UNCHANGED vars
  <2>1. UNCHANGED <<contract, item, ctx, proof, op, run, calls, repairs, failures>>
    BY <1>5 DEF vars
  <2>2. Operating' /\ op' \in [Kinds -> Operations]
    BY <2>1, SameOperations
  <2>3. Standing'
    <3>1. Stagnant' = Stagnant
      BY <2>1 DEF Stagnant, Improved
    <3>2. Standing
      BY DEF IInv
    <3> QED
      BY <2>1, <3>1, <3>2, StandingKept
  <2>4. run' \in Runs /\ failures' \in 0..MaxFailures
    BY <2>1 DEF IInv, Shape
  <2>5. item.status = "COMPLETED" => run'.at = "idle"
    BY <2>1 DEF IInv, Resting
  <2> QED
    BY <2>1, <2>2, <2>3, <2>4, <2>5, KeepStep
<1> QED
  BY <1>1, <1>2, <1>3, <1>4, <1>5 DEF Next

\* The inductive invariant holds: the row, its context, its proofs, its operations and
\* the process that drives it agree in every state, whatever was cut off.
THEOREM StagesInvariant == Spec => []IInv
<1>1. IInv /\ [Next]_vars => IInv'
  BY Step
<1> QED
  BY <1>1, InitStep, PTL DEF Spec

\* The state has its shape for every set of contracts: no handler of drive writes a
\* counter past its limit, and no more model calls are made than the contract allows.
THEOREM TypeCorrect == Spec => []TypeOK
<1>1. IInv => TypeOK
  BY ShapeTyped DEF IInv
<1> QED
  BY <1>1, StagesInvariant, PTL

\* Whatever was repaired, finalized, cut off, replayed or reconciled, an item is only
\* delivered on proofs of the source that is delivered.
THEOREM DeliversVerified == Spec => []DeliveredVerified
<1>1. IInv => DeliveredVerified
  <2> SUFFICES ASSUME IInv, item.result = "delivered" PROVE \A k \in Needed : proof[k] = "current"
    BY DEF DeliveredVerified
  <2>1. item.phase = "deliver" /\ ~Missing /\ Worth(item.phase, ctx, proof)
    BY DEF IInv, Resting
  <2>2. /\ Current(proof, "verification") /\ Examined(ctx, proof)
        /\ contract.mode = "collab" => Current(proof, "acceptance")
        /\ contract.outputs # "none" => proof["artifact"] \in {"none", "current"}
    BY <2>1 DEF Worth
  <2>3. contract.outputs # "none" => proof["artifact"] = "current"
    BY <2>1, <2>2 DEF Missing
  <2> QED
    BY <2>2, <2>3 DEF Needed, Examined, Current
<1> QED
  BY <1>1, StagesInvariant, PTL

\* No work that follows the prototype of a frontend starts before a human approved it,
\* whatever the authorization.
THEOREM AsksHuman == Spec => []HumanPrototype
<1>1. IInv => HumanPrototype
  BY DEF IInv, Gating, Approved, HumanPrototype
<1> QED
  BY <1>1, StagesInvariant, PTL

\* Over all commands, crashes and reconciliations together an item is sent back to
\* implement only so often: each score that a verification can reach, and none at all,
\* leaves it no_progress_limit rounds.
THEOREM BoundsRepairs == Spec => []RepairsBounded
<1>1. IInv => RepairsBounded
  <2> SUFFICES ASSUME IInv PROVE RepairsBounded
    OBVIOUS
  <2>1. repairs \in Nat /\ ctx.best \in Marks /\ ctx.stagnant \in 0..(NoProgressLimit - 1)
    BY DEF IInv, Shape, Contexts
  <2>2. repairs <= (ctx.best + 1) * NoProgressLimit + ctx.stagnant
    BY DEF IInv, Bounded
  <2>3. NoProgressLimit \in Nat \ {0} /\ MaxScore \in Nat
    BY StagesAssumption
  <2>4. \A n \in 0..(NoProgressLimit - 1) : n \in Nat /\ n <= NoProgressLimit - 1
    BY <2>3
  <2>5. \A b \in Marks : b \in Int /\ b + 1 \in Int /\ b + 1 <= MaxScore + 1
    BY <2>3 DEF Marks, Scores, NoScore
  <2>6. \A a, b \in Int : a <= b => a * NoProgressLimit <= b * NoProgressLimit
    BY <2>3, SMT
  <2>7. (ctx.best + 1) * NoProgressLimit <= (MaxScore + 1) * NoProgressLimit
    BY <2>1, <2>3, <2>5, <2>6
  <2>8. (MaxScore + 2) * NoProgressLimit = (MaxScore + 1) * NoProgressLimit + NoProgressLimit
    BY <2>3, SMT
  <2>9. (ctx.best + 1) * NoProgressLimit \in Int /\ (MaxScore + 1) * NoProgressLimit \in Int
    BY <2>1, <2>3, <2>5
  <2>10. ctx.stagnant \in Nat /\ ctx.stagnant <= NoProgressLimit - 1
    BY <2>1, <2>4
  <2> QED
    BY <2>1, <2>2, <2>3, <2>7, <2>8, <2>9, <2>10 DEF RepairsBounded
<1> QED
  BY <1>1, StagesInvariant, PTL
===============================================================================
