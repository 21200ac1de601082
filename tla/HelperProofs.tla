---------------------------- MODULE HelperProofs ----------------------------
(***************************************************************************)
(* Proofs about the helper and what is checked beside it (MCHelper): the   *)
(* window of the captcha, the queue and the flush loop of the classic      *)
(* framings, the connections through the tunnel, and the cookies on disk.  *)
(* Each part has an inductive invariant of its own and a lemma that every  *)
(* step keeps it; the theorems follow for the specification of the part    *)
(* and for the behaviours the run checks, each of which is about one part. *)
(***************************************************************************)
EXTENDS MCHelper, SequenceLemmas, FiniteSetTheorems, SequenceTheorems, TLAPS

----------------------------------------------------------------------------
(* The helper.                                                             *)

\* The request of this goroutine is waiting, out, or answered: captchaPending stands for it.
Requests(s) == solver[s].at \in {"queued", "asked", "listening", "told"}

\* captchaPending lets one request through at a time, captchaWindowMu one window; a process that
\* waits has polls left; the address came with the challenge.
WindowInv ==
    /\ HelperTypeOK
    /\ stage \in {"starting", "waiting"} => budget # 0
    /\ \A s, q \in Solvers : Requests(s) /\ Requests(q) => s = q
    /\ \A s, q \in Solvers : HoldsWindow(s) /\ HoldsWindow(q) => s = q
    /\ phase \in {"challenged", "blocked"} => urlKnown

LEMMA HelperStarts == HelperInit => WindowInv
<1> SUFFICES ASSUME HelperInit PROVE WindowInv
  OBVIOUS
<1>1. \A s \in Solvers : solver[s].at = "none"
  BY DEF HelperInit, NoSolver
<1>2. CarrierTypeOK
  BY DEF HelperInit, CarrierInit, CarrierTypeOK
<1>3. solver \in [Solvers -> Solver]
  BY DEF HelperInit, NoSolver, Solver, Results
<1>4. captchaPending <=> \E s \in Solvers : solver[s].at \in {"queued", "asked", "listening", "told"}
  BY <1>1 DEF HelperInit
<1>5. budget \in 0..Budget /\ budget # 0
  BY HelperAssumption DEF HelperInit
<1>6. HelperTypeOK
  BY <1>2, <1>3, <1>4, <1>5 DEF HelperInit, HelperTypeOK, Stages
<1>7. phase \notin {"challenged", "blocked"}
  BY DEF HelperInit, CarrierInit
<1>8. QED
  BY <1>1, <1>5, <1>6, <1>7 DEF WindowInv, Requests, HoldsWindow

\* What the goroutines of openWindow rely on stays as it is.
SolversIdle == UNCHANGED <<mode, captchaPending, solver>>

LEMMA SolversIdleKeeps ==
  ASSUME WindowInv, SolversIdle, CarrierTypeOK',
         stage' \in Stages, why' \in {"none", "notUp", "cancelled", "noListener", "notMarked"},
         budget' \in 0..Budget, stage' \in {"starting", "waiting"} => budget' # 0,
         netDown' \in BOOLEAN, urlKnown' \in BOOLEAN, coolingDown' \in BOOLEAN,
         phase' \in {"challenged", "blocked"} => urlKnown'
  PROVE  WindowInv'
<1>1. \A s \in Solvers : Requests(s)' = Requests(s) /\ HoldsWindow(s)' = HoldsWindow(s)
  BY DEF SolversIdle, Requests, HoldsWindow
<1>2. HelperTypeOK'
  BY DEF WindowInv, HelperTypeOK, SolversIdle
<1>3. QED
  BY <1>1, <1>2 DEF WindowInv

\* The steps of the process, the host and the carrier that leave them alone.
LEMMA ProcessKeeps ==
  ASSUME WindowInv,
         BeginWait \/ Poll \/ Listen \/ MarkReady \/ NetLost \/ HandoverOrNetBack \/ CooldownEnds
         \/ CarrierMoves
  PROVE  WindowInv'
<1>1. CarrierTypeOK /\ stage \in Stages /\ budget \in 0..Budget
  BY DEF WindowInv, HelperTypeOK
<1>2. why \in {"none", "notUp", "cancelled", "noListener", "notMarked"}
  BY DEF WindowInv, HelperTypeOK
<1>3. netDown \in BOOLEAN /\ urlKnown \in BOOLEAN /\ coolingDown \in BOOLEAN
  BY DEF WindowInv, HelperTypeOK
<1>4. /\ stage \in {"starting", "waiting"} => budget # 0
      /\ phase \in {"challenged", "blocked"} => urlKnown
  BY DEF WindowInv
<1> USE DEF carrierVars, main, captcha, Stages, SolversIdle
<1>5. CASE BeginWait
  BY <1>1, <1>2, <1>3, <1>4, <1>5, SolversIdleKeeps DEF BeginWait, CarrierTypeOK
<1>6. CASE Poll
  <2>1. budget' \in 0..Budget /\ (stage' = "waiting" => budget' # 0)
    BY <1>1, <1>4, <1>6, HelperAssumption DEF Poll
  <2>2. stage' \in {"waiting", "up", "exited"} /\ why' \in {why, "notUp"}
    BY <1>6 DEF Poll
  <2>3. UNCHANGED <<phase, connected, netDown, urlKnown, coolingDown>> /\ SolversIdle
    BY <1>6 DEF Poll
  <2>4. QED
    BY <1>1, <1>2, <1>3, <1>4, <2>1, <2>2, <2>3, SolversIdleKeeps DEF CarrierTypeOK
<1>7. CASE Listen \/ MarkReady
  BY <1>1, <1>2, <1>3, <1>4, <1>7, SolversIdleKeeps DEF Listen, MarkReady, CarrierTypeOK
<1>8. CASE NetLost \/ HandoverOrNetBack
  <2>1. netDown' \in BOOLEAN
    BY <1>3, <1>8 DEF NetLost, HandoverOrNetBack, HostSays
  <2>2. UNCHANGED <<phase, connected, stage, why, budget, urlKnown, coolingDown>> /\ SolversIdle
    BY <1>8 DEF NetLost, HandoverOrNetBack, HostSays
  <2>3. QED
    BY <1>1, <1>2, <1>3, <1>4, <2>1, <2>2, SolversIdleKeeps DEF CarrierTypeOK
<1>9. CASE CooldownEnds
  <2>1. coolingDown' \in BOOLEAN
    BY <1>9 DEF CooldownEnds
  <2>2. UNCHANGED <<phase, connected, stage, why, budget, urlKnown, netDown>> /\ SolversIdle
    BY <1>9 DEF CooldownEnds
  <2>3. QED
    BY <1>1, <1>2, <1>3, <1>4, <2>1, <2>2, SolversIdleKeeps DEF CarrierTypeOK
<1>10. CASE CarrierMoves
  <2>1. CarrierTypeOK' /\ (phase' \in {"challenged", "blocked"} => phase \in {"challenged", "blocked"})
    <3>1. CASE ComesUp \/ Fails
      BY <1>1, <3>1 DEF ComesUp, Fails, CarrierTypeOK
    <3>2. CASE Blocked \/ TriesAgain \/ Disconnects \/ Solved
      BY <1>1, <3>2 DEF Blocked, TriesAgain, Disconnects, Solved, CarrierTypeOK
    <3>3. QED
      BY <1>10, <3>1, <3>2 DEF CarrierMoves
  <2>2. UNCHANGED <<stage, why, budget, urlKnown, coolingDown, netDown>> /\ SolversIdle
    BY <1>10 DEF CarrierMoves
  <2>3. QED
    BY <1>1, <1>2, <1>3, <1>4, <2>1, <2>2, SolversIdleKeeps
<1>11. QED
  BY <1>5, <1>6, <1>7, <1>8, <1>9, <1>10

----------------------------------------------------------------------------
(* openWindow and its goroutine.                                           *)

\* A goroutine of openWindow moves; the carrier and the host do not.
SolverFrame == UNCHANGED <<phase, connected, mode, netDown, urlKnown, budget>>

LEMMA SolverFrameKeeps ==
  ASSUME WindowInv, SolverFrame,
         stage' \in {stage, "exited"}, why' \in {why, "cancelled"}, coolingDown' \in BOOLEAN,
         solver' \in [Solvers -> Solver],
         captchaPending' \in BOOLEAN, captchaPending' <=> \E s \in Solvers : Requests(s)',
         \A s, q \in Solvers : Requests(s)' /\ Requests(q)' => s = q,
         \A s, q \in Solvers : HoldsWindow(s)' /\ HoldsWindow(q)' => s = q
  PROVE  WindowInv'
<1>1. CarrierTypeOK'
  BY DEF SolverFrame, WindowInv, HelperTypeOK, CarrierTypeOK
<1>2. mode' \in {"auto", "webviewOnly", "off"} /\ netDown' \in BOOLEAN /\ urlKnown' \in BOOLEAN
  BY DEF SolverFrame, WindowInv, HelperTypeOK
<1>3. stage' \in Stages /\ why' \in {"none", "notUp", "cancelled", "noListener", "notMarked"}
      /\ budget' \in 0..Budget
  BY DEF SolverFrame, WindowInv, HelperTypeOK, Stages
<1>4. HelperTypeOK'
  BY <1>1, <1>2, <1>3 DEF HelperTypeOK, Requests
<1>5. stage' \in {"starting", "waiting"} => budget' # 0
  BY DEF SolverFrame, WindowInv
<1>6. phase' \in {"challenged", "blocked"} => urlKnown'
  BY DEF SolverFrame, WindowInv
<1>7. QED
  BY <1>4, <1>5, <1>6 DEF WindowInv

\* One goroutine goes on without a request coming or going.
LEMMA SolverStepKeeps ==
  ASSUME WindowInv, NEW s \in Solvers, Requests(s), SolverFrame,
         UNCHANGED <<stage, why, coolingDown, captchaPending>>,
         NEW to \in Solver, solver' = [solver EXCEPT ![s] = to],
         to.at \in {"queued", "asked", "listening", "told"},
         to.at # "queued" => HoldsWindow(s) \/ \A q \in Solvers : ~HoldsWindow(q)
  PROVE  WindowInv'
<1>1. solver \in [Solvers -> Solver] /\ captchaPending /\ coolingDown \in BOOLEAN
  BY DEF WindowInv, HelperTypeOK, Requests
<1>2. \A q \in Solvers : solver'[q] = IF q = s THEN to ELSE solver[q]
  BY <1>1
<1>3. \A q \in Solvers : Requests(q)' = Requests(q)
  BY <1>2 DEF Requests
<1>4. \A q \in Solvers : HoldsWindow(q)' => IF q = s THEN to.at # "queued" ELSE HoldsWindow(q)
  BY <1>2 DEF HoldsWindow
<1>5. \A q, r \in Solvers : HoldsWindow(q)' /\ HoldsWindow(r)' => q = r
  BY <1>4 DEF WindowInv
<1>6. solver' \in [Solvers -> Solver]
  BY <1>1
<1>7. \A q, r \in Solvers : Requests(q)' /\ Requests(r)' => q = r
  BY <1>3 DEF WindowInv
<1>8. captchaPending' /\ captchaPending' \in BOOLEAN /\ \E q \in Solvers : Requests(q)'
  BY <1>1, <1>3
<1>9. QED
  BY <1>1, <1>5, <1>6, <1>7, <1>8, SolverFrameKeeps

LEMMA SolverKeeps ==
  ASSUME WindowInv, NEW s \in Solvers,
         \/ HostCannot(s) \/ Ask(s) \/ Register(s) \/ TimesOut(s) \/ ResetPending(s) \/ Settle(s)
         \/ \E result \in Results : ActionResult(s, result)
  PROVE  WindowInv'
<1> USE DEF carrierVars, main, captcha
<1>1. solver \in [Solvers -> Solver] /\ solver[s] \in Solver /\ coolingDown \in BOOLEAN
  BY DEF WindowInv, HelperTypeOK
<1>2. CASE HostCannot(s)
  <2> DEFINE to == [solver[s] EXCEPT !.at = "told", !.got = "nothing"]
  <2>1. to \in Solver /\ to.at = "told"
    BY <1>1 DEF Solver, Results
  <2>2. solver' = [solver EXCEPT ![s] = to] /\ Requests(s) /\ \A q \in Solvers : ~HoldsWindow(q)
    BY <1>1, <1>2 DEF HostCannot, Requests, Solver
  <2>3. SolverFrame /\ UNCHANGED <<stage, why, coolingDown, captchaPending>>
    BY <1>2 DEF HostCannot, SolverFrame
  <2> HIDE DEF to
  <2>4. QED
    BY <2>1, <2>2, <2>3, SolverStepKeeps
<1>3. CASE Ask(s)
  <2> DEFINE to == [solver[s] EXCEPT !.at = "asked", !.owed = TRUE]
  <2>1. to \in Solver /\ to.at = "asked"
    BY <1>1 DEF Solver, Results
  <2>2. solver' = [solver EXCEPT ![s] = to] /\ Requests(s) /\ \A q \in Solvers : ~HoldsWindow(q)
    BY <1>1, <1>3 DEF Ask, Requests, Solver
  <2>3. SolverFrame /\ UNCHANGED <<stage, why, coolingDown, captchaPending>>
    BY <1>3 DEF Ask, SolverFrame
  <2> HIDE DEF to
  <2>4. QED
    BY <2>1, <2>2, <2>3, SolverStepKeeps
<1>4. CASE Register(s)
  <2> DEFINE to == [solver[s] EXCEPT !.at = "listening"]
  <2>1. to \in Solver /\ to.at = "listening"
    BY <1>1 DEF Solver, Results
  <2>2. solver' = [solver EXCEPT ![s] = to] /\ Requests(s) /\ HoldsWindow(s)
    BY <1>1, <1>4 DEF Register, Requests, Solver, HoldsWindow
  <2>3. SolverFrame /\ UNCHANGED <<stage, why, coolingDown, captchaPending>>
    BY <1>4 DEF Register, SolverFrame
  <2> HIDE DEF to
  <2>4. QED
    BY <2>1, <2>2, <2>3, SolverStepKeeps
<1>5. CASE TimesOut(s)
  <2> DEFINE to == [at |-> "told", owed |-> FALSE, got |-> "cancelled"]
  <2>1. to \in Solver /\ to.at = "told"
    BY DEF Solver, Results
  <2>2. solver' = [solver EXCEPT ![s] = to] /\ Requests(s) /\ HoldsWindow(s)
    BY <1>5 DEF TimesOut, Requests, HoldsWindow
  <2>3. SolverFrame /\ UNCHANGED <<stage, why, coolingDown, captchaPending>>
    BY <1>5 DEF TimesOut, SolverFrame
  <2> HIDE DEF to
  <2>4. QED
    BY <2>1, <2>2, <2>3, SolverStepKeeps
<1>6. CASE ResetPending(s)
  <2>1. \A q \in Solvers : solver'[q] = IF q = s THEN [solver[s] EXCEPT !.at = "settling"] ELSE solver[q]
    BY <1>1, <1>6 DEF ResetPending
  <2>2. solver'[s].at = "settling" /\ solver[s].at = "told"
    BY <1>1, <1>6, <2>1 DEF ResetPending, Solver
  <2>3. \A q \in Solvers : ~Requests(q)'
    BY <2>1, <2>2 DEF WindowInv, Requests
  <2>4. \A q \in Solvers : HoldsWindow(q)' = HoldsWindow(q)
    BY <2>1, <2>2 DEF HoldsWindow
  <2>5. solver' \in [Solvers -> Solver]
    BY <1>1, <1>6 DEF ResetPending, Solver
  <2>6. captchaPending' = FALSE /\ UNCHANGED <<stage, why, coolingDown>> /\ SolverFrame
    BY <1>6 DEF ResetPending, ResetAlways, SolverFrame
  <2>7. \A q, r \in Solvers : HoldsWindow(q)' /\ HoldsWindow(r)' => q = r
    BY <2>4 DEF WindowInv
  <2>8. QED
    BY <1>1, <2>3, <2>5, <2>6, <2>7, SolverFrameKeeps
<1>7. CASE Settle(s)
  <2>1. \A q \in Solvers : solver'[q] = IF q = s THEN NoSolver ELSE solver[q]
    BY <1>1, <1>7 DEF Settle
  <2>2. solver[s].at = "settling" /\ NoSolver.at = "none" /\ NoSolver \in Solver
    BY <1>7 DEF Settle, NoSolver, Solver
  <2>3. \A q \in Solvers : Requests(q)' = Requests(q)
    BY <2>1, <2>2 DEF Requests
  <2>4. \A q \in Solvers : HoldsWindow(q)' => HoldsWindow(q)
    BY <2>1, <2>2 DEF HoldsWindow
  <2>5. solver' \in [Solvers -> Solver]
    BY <1>1, <1>7, <2>2 DEF Settle
  <2>6. stage' \in {stage, "exited"} /\ why' \in {why, "cancelled"} /\ SolverFrame
    BY <1>7 DEF Settle, SolverFrame
  <2>7. coolingDown' \in BOOLEAN
    BY <1>7 DEF Settle
  <2>8. /\ captchaPending' = captchaPending /\ captchaPending \in BOOLEAN
        /\ captchaPending <=> \E q \in Solvers : Requests(q)
    BY <1>7 DEF Settle, WindowInv, HelperTypeOK, Requests
  <2>9. captchaPending' \in BOOLEAN /\ (captchaPending' <=> \E q \in Solvers : Requests(q)')
    BY <2>3, <2>8
  <2>10. /\ \A q, r \in Solvers : Requests(q)' /\ Requests(r)' => q = r
         /\ \A q, r \in Solvers : HoldsWindow(q)' /\ HoldsWindow(r)' => q = r
    BY <2>3, <2>4 DEF WindowInv
  <2>11. QED
    BY <2>5, <2>6, <2>7, <2>9, <2>10, SolverFrameKeeps
<1>8. ASSUME NEW result \in Results, ActionResult(s, result)
      PROVE  WindowInv'
  <2> DEFINE to == IF solver[s].at = "listening" THEN [at |-> "told", owed |-> FALSE, got |-> result]
                                                 ELSE [solver[s] EXCEPT !.owed = FALSE]
  <2>1. to \in Solver /\ to.at = IF solver[s].at = "listening" THEN "told" ELSE solver[s].at
    BY <1>1, <1>8 DEF Solver
  <2>2. solver' = [solver EXCEPT ![s] = to]
    BY <1>1, <1>8 DEF ActionResult
  <2>3. SolverFrame /\ UNCHANGED <<stage, why, coolingDown, captchaPending>>
    BY <1>8 DEF ActionResult, SolverFrame
  <2> HIDE DEF to
  <2>4. \A q \in Solvers : solver'[q] = IF q = s THEN to ELSE solver[q]
    BY <1>1, <2>2
  <2>5. \A q \in Solvers : Requests(q)' = Requests(q)
    BY <2>1, <2>4 DEF Requests
  <2>6. \A q \in Solvers : HoldsWindow(q)' = HoldsWindow(q)
    BY <2>1, <2>4 DEF HoldsWindow
  <2>7. solver' \in [Solvers -> Solver]
    BY <1>1, <2>1, <2>2
  <2>8. /\ captchaPending' = captchaPending /\ captchaPending \in BOOLEAN
        /\ captchaPending <=> \E q \in Solvers : Requests(q)
    BY <2>3 DEF WindowInv, HelperTypeOK, Requests
  <2>9. captchaPending' \in BOOLEAN /\ (captchaPending' <=> \E q \in Solvers : Requests(q)')
    BY <2>5, <2>8
  <2>10. /\ \A q, r \in Solvers : Requests(q)' /\ Requests(r)' => q = r
         /\ \A q, r \in Solvers : HoldsWindow(q)' /\ HoldsWindow(r)' => q = r
    BY <2>5, <2>6 DEF WindowInv
  <2>11. QED
    BY <1>1, <2>3, <2>7, <2>9, <2>10, SolverFrameKeeps
<1>9. QED
  BY <1>2, <1>3, <1>4, <1>5, <1>6, <1>7, <1>8

\* Whoever may ask does so when nobody else does.
LEMMA OpenWindowKeeps ==
  ASSUME WindowInv, OpenWindow, UNCHANGED <<mode, main, netDown, coolingDown>>,
         CarrierTypeOK', urlKnown' \in BOOLEAN,
         phase' \in {"challenged", "blocked"} => urlKnown'
  PROVE  WindowInv'
<1>1. /\ captchaPending \in BOOLEAN /\ solver \in [Solvers -> Solver]
      /\ captchaPending <=> \E s \in Solvers : Requests(s)
      /\ stage \in Stages /\ why \in {"none", "notUp", "cancelled", "noListener", "notMarked"}
      /\ budget \in 0..Budget
      /\ stage \in {"starting", "waiting"} => budget # 0
      /\ mode \in {"auto", "webviewOnly", "off"}
      /\ netDown \in BOOLEAN /\ coolingDown \in BOOLEAN
  BY DEF WindowInv, HelperTypeOK, Requests
<1>2. /\ captchaPending' \in BOOLEAN /\ solver' \in [Solvers -> Solver]
      /\ captchaPending' <=> \E s \in Solvers : Requests(s)'
      /\ \A s, q \in Solvers : Requests(s)' /\ Requests(q)' => s = q
      /\ \A s, q \in Solvers : HoldsWindow(s)' /\ HoldsWindow(q)' => s = q
  <2>1. CASE UNCHANGED <<captchaPending, solver>>
    BY <1>1, <2>1 DEF WindowInv, Requests, HoldsWindow
  <2>2. ASSUME captchaPending', captchaPending' \in BOOLEAN, NEW s \in Solvers, MayAsk(s),
               solver' = [solver EXCEPT ![s] = [NoSolver EXCEPT !.at = "queued"]]
        PROVE  /\ captchaPending' \in BOOLEAN /\ solver' \in [Solvers -> Solver]
               /\ captchaPending' <=> \E q \in Solvers : Requests(q)'
               /\ \A q, r \in Solvers : Requests(q)' /\ Requests(r)' => q = r
               /\ \A q, r \in Solvers : HoldsWindow(q)' /\ HoldsWindow(r)' => q = r
    <3> DEFINE to == [NoSolver EXCEPT !.at = "queued"]
    <3>1. to \in Solver /\ to.at = "queued"
      BY DEF NoSolver, Solver
    <3> HIDE DEF to
    <3>2. \A q \in Solvers : solver'[q] = IF q = s THEN to ELSE solver[q]
      BY <1>1, <2>2 DEF to
    <3>3. \A q \in Solvers : ~Requests(q)
      BY <1>1, <2>2 DEF MayAsk
    <3>4. \A q \in Solvers : Requests(q)' <=> q = s
      BY <3>1, <3>2, <3>3 DEF Requests
    <3>5. \A q \in Solvers : HoldsWindow(q)' => HoldsWindow(q)
      BY <3>1, <3>2 DEF HoldsWindow
    <3>6. solver' \in [Solvers -> Solver]
      BY <1>1, <2>2, <3>1 DEF to
    <3>7. QED
      BY <2>2, <3>4, <3>5, <3>6 DEF WindowInv
  <2>3. CASE captchaPending' = TRUE
    <3>1. captchaPending' /\ captchaPending' \in BOOLEAN
      BY <2>3
    <3>2. QED
      BY <2>1, <2>2, <3>1 DEF OpenWindow
  <2>4. QED
    BY <2>1, <2>3 DEF OpenWindow
<1>3. HelperTypeOK'
  BY <1>1, <1>2 DEF HelperTypeOK, main, Requests
<1>4. stage' \in {"starting", "waiting"} => budget' # 0
  BY <1>1 DEF main
<1>5. QED
  BY <1>2, <1>3, <1>4 DEF WindowInv

LEMMA CaptchaRequiredKeeps == WindowInv /\ CaptchaRequired => WindowInv'
<1> SUFFICES ASSUME WindowInv, CaptchaRequired PROVE WindowInv'
  OBVIOUS
<1>1. CarrierTypeOK' /\ phase' = "challenged"
  BY DEF WindowInv, HelperTypeOK, CarrierTypeOK, CaptchaRequired, Challenged
<1>2. urlKnown' /\ urlKnown' \in BOOLEAN
  BY DEF CaptchaRequired, Remember
<1>3. UNCHANGED <<mode, main, netDown, coolingDown>>
  BY DEF CaptchaRequired
<1>4. OpenWindow \/ UNCHANGED <<captchaPending, solver>>
  BY DEF CaptchaRequired
<1>5. CASE UNCHANGED <<captchaPending, solver>>
  <2>1. /\ stage' \in Stages /\ why' \in {"none", "notUp", "cancelled", "noListener", "notMarked"}
        /\ budget' \in 0..Budget /\ (stage' \in {"starting", "waiting"} => budget' # 0)
    BY <1>3 DEF WindowInv, HelperTypeOK, main
  <2>2. SolversIdle /\ netDown' \in BOOLEAN /\ coolingDown' \in BOOLEAN
    BY <1>3, <1>5 DEF SolversIdle, WindowInv, HelperTypeOK
  <2>3. QED
    BY <1>1, <1>2, <2>1, <2>2, SolversIdleKeeps
<1>6. CASE OpenWindow
  BY <1>1, <1>2, <1>3, <1>6, OpenWindowKeeps
<1>7. QED
  BY <1>4, <1>5, <1>6

LEMMA RetryingKeeps == WindowInv /\ Retrying => WindowInv'
<1> SUFFICES ASSUME WindowInv, Retrying PROVE WindowInv'
  OBVIOUS
<1>1. CarrierTypeOK' /\ phase' = "pausing"
  BY DEF WindowInv, HelperTypeOK, CarrierTypeOK, Retrying, Reports
<1>2. urlKnown' \in BOOLEAN
  BY DEF Retrying, WindowInv, HelperTypeOK
<1>3. UNCHANGED <<mode, main, netDown, coolingDown>>
  BY DEF Retrying
<1>4. OpenWindow \/ UNCHANGED <<captchaPending, solver>>
  BY DEF Retrying
<1>5. CASE UNCHANGED <<captchaPending, solver>>
  <2>1. /\ stage' \in Stages /\ why' \in {"none", "notUp", "cancelled", "noListener", "notMarked"}
        /\ budget' \in 0..Budget /\ (stage' \in {"starting", "waiting"} => budget' # 0)
    BY <1>3 DEF WindowInv, HelperTypeOK, main
  <2>2. SolversIdle /\ netDown' \in BOOLEAN /\ coolingDown' \in BOOLEAN
    BY <1>3, <1>5 DEF SolversIdle, WindowInv, HelperTypeOK
  <2>3. QED
    BY <1>1, <1>2, <2>1, <2>2, SolversIdleKeeps
<1>6. CASE OpenWindow
  BY <1>1, <1>2, <1>3, <1>6, OpenWindowKeeps
<1>7. QED
  BY <1>4, <1>5, <1>6

LEMMA RestartKeeps == WindowInv /\ Restart => WindowInv'
<1> SUFFICES ASSUME WindowInv, Restart PROVE WindowInv'
  OBVIOUS
<1>1. CarrierTypeOK' /\ phase' = "trying"
  BY DEF Restart, CarrierTypeOK
<1>2. \A s \in Solvers : ~Requests(s)' /\ ~HoldsWindow(s)'
  BY DEF Restart, NoSolver, Requests, HoldsWindow
<1>3. solver' \in [Solvers -> Solver]
  BY DEF Restart, NoSolver, Solver
<1>4. budget' \in 0..Budget /\ budget' # 0
  BY HelperAssumption DEF Restart
<1>5. /\ mode' \in {"auto", "webviewOnly", "off"} /\ stage' \in Stages /\ why' = "none"
      /\ netDown' \in BOOLEAN /\ urlKnown' \in BOOLEAN /\ coolingDown' \in BOOLEAN
      /\ captchaPending' \in BOOLEAN /\ ~captchaPending'
  BY DEF Restart, Stages, WindowInv, HelperTypeOK
<1>6. HelperTypeOK'
  BY <1>1, <1>2, <1>3, <1>4, <1>5 DEF HelperTypeOK, Requests
<1>7. QED
  BY <1>1, <1>2, <1>4, <1>6 DEF WindowInv

LEMMA HelperKeeps == WindowInv /\ [HelperNext]_helperVars => WindowInv'
<1> SUFFICES ASSUME WindowInv, [HelperNext]_helperVars PROVE WindowInv'
  OBVIOUS
<1>1. CASE UNCHANGED helperVars
  BY <1>1 DEF helperVars, carrierVars, main, captcha, WindowInv, HelperTypeOK, CarrierTypeOK,
              Requests, HoldsWindow
<1>2. CASE HelperNext
  BY <1>2, ProcessKeeps, SolverKeeps, CaptchaRequiredKeeps, RetryingKeeps, RestartKeeps DEF HelperNext
<1>3. QED
  BY <1>1, <1>2

\* A set in which any two members are the same has one member at most.
LEMMA OneAtMost ==
  ASSUME NEW S, \A x, y \in S : x = y
  PROVE  Cardinality(S) <= 1
<1>1. CASE S = {}
  BY <1>1, FS_EmptySet
<1>2. ASSUME NEW x \in S PROVE Cardinality(S) <= 1
  <2>1. S = {x}
    OBVIOUS
  <2>2. QED
    BY <2>1, FS_Singleton
<1>3. QED
  BY <1>1, <1>2

LEMMA WindowInvShows == WindowInv => OneWindow /\ BlockedKnowsAddress
<1> SUFFICES ASSUME WindowInv PROVE OneWindow /\ BlockedKnowsAddress
  OBVIOUS
<1>1. Cardinality({s \in Solvers : HoldsWindow(s)}) <= 1
  BY OneAtMost DEF WindowInv
<1>2. \A s, q \in {x \in Solvers : solver[x].at = "queued"} : s = q
  BY DEF WindowInv, Requests
<1>3. Cardinality({s \in Solvers : solver[s].at = "queued"}) <= 1
  BY <1>2, OneAtMost
<1>4. BlockedKnowsAddress
  BY DEF WindowInv, BlockedKnowsAddress
<1>5. QED
  BY <1>1, <1>3, <1>4 DEF OneWindow

\* The one step that gives the carrier up lets the clock run.
LEMMA HelperStaysAtWindow ==
  ASSUME WindowInv, [HelperNext]_helperVars, why' = "notUp"
  PROVE  why = "notUp" \/ (~netDown /\ \A s \in Solvers : solver[s].at \notin {"asked", "listening"})
<1>1. CASE Poll
  <2>1. why' = why \/ (budget' = 0 /\ stage = "waiting")
    BY <1>1 DEF Poll
  <2>2. budget' = 0 /\ stage = "waiting" => ~OutsideBudget
    BY <1>1 DEF Poll, WindowInv
  <2>3. ~OutsideBudget => ~netDown /\ \A s \in Solvers : ~Requests(s)
    BY DEF OutsideBudget, WindowInv, HelperTypeOK, Requests
  <2>4. QED
    BY <2>1, <2>2, <2>3 DEF Requests
<1>2. CASE UNCHANGED helperVars
  BY <1>2 DEF helperVars, main
<1>3. CASE ~Poll /\ HelperNext
  BY <1>3 DEF HelperNext, BeginWait, Listen, MarkReady, Restart, NetLost, HandoverOrNetBack, HostSays,
       HostCannot, Ask, Register, TimesOut, ResetPending, Settle, ActionResult, CooldownEnds,
       CaptchaRequired, Retrying, CarrierMoves, main
<1>4. QED
  BY <1>1, <1>2, <1>3

\* The helper has one window open and one request waiting at most, whatever the host answers and
\* however many goroutines meet a captcha (captchaPending and captchaWindowMu of openWindow).
THEOREM WindowsInTurn == HelperSpec => []OneWindow
<1>1. HelperSpec => []WindowInv
  BY HelperStarts, HelperKeeps, PTL DEF HelperSpec
<1>2. QED
  BY <1>1, WindowInvShows, PTL

\* An attempt that a captcha ended has left the address to show (attachCaptchaSolver).
THEOREM AddressKnown == HelperSpec => []BlockedKnowsAddress
<1>1. HelperSpec => []WindowInv
  BY HelperStarts, HelperKeeps, PTL DEF HelperSpec
<1>2. QED
  BY <1>1, WindowInvShows, PTL

\* The wait for the carrier ends for good only while its clock runs: never under a window that
\* is open, never without a network (waitTransportUpFor).
THEOREM StaysAtWindow == HelperSpec => NotFromUnderWindow
<1>1. HelperSpec => []WindowInv
  BY HelperStarts, HelperKeeps, PTL DEF HelperSpec
<1>2. WindowInv /\ [HelperNext]_helperVars =>
        [why' = "notUp" =>
           why = "notUp" \/ (~netDown /\ \A s \in Solvers : solver[s].at \notin {"asked", "listening"})
        ]_helperVars
  BY HelperStaysAtWindow
<1>3. QED
  BY <1>1, <1>2, PTL DEF HelperSpec, NotFromUnderWindow

----------------------------------------------------------------------------
(* The cookie store.                                                       *)

\* Whoever holds the lock of the store works on the jar it has just taken, alone; what is about
\* to replace the file is that jar.
Saving(a) == applying[a].at \in {"opening", "writing", "renaming"}

JarInv ==
    /\ StoreTypeOK
    /\ \A a, b \in Appliers : Saving(a) /\ Saving(b) => a = b
    /\ \A a \in Appliers :
         /\ applying[a].at = "idle" => applying[a].with = Nothing
         /\ Saving(a) => jar = applying[a].with
         /\ applying[a].at = "renaming" => temp = jar
    /\ CrashKeepsJar

LEMMA StoreStarts == StoreInit => JarInv
  BY DEF StoreInit, JarInv, StoreTypeOK, Idle, Saving, CrashKeepsJar

LEMMA StoreKeeps == JarInv /\ [StoreNext]_storeVars => JarInv'
<1> SUFFICES ASSUME JarInv, [StoreNext]_storeVars PROVE JarInv'
  OBVIOUS
<1> DEFINE Call == [at : {"idle", "applied", "opening", "writing", "renaming"}, with : Jars \cup {Nothing}]
<1>1. /\ applying \in [Appliers -> Call] /\ live \in Jars \cup {Nothing} /\ jar \in Jars \cup {Nothing}
      /\ file \in Jars \cup {Nothing, Torn} /\ temp \in Jars \cup {Nothing, Torn}
      /\ kept \in Jars \cup {Nothing} /\ file = kept
  BY DEF JarInv, StoreTypeOK, CrashKeepsJar
<1>2. CASE UNCHANGED storeVars
  BY <1>2 DEF storeVars, JarInv, StoreTypeOK, Saving, CrashKeepsJar
<1>3. CASE StoreRestarts
  BY <1>1, <1>3 DEF StoreRestarts, JarInv, StoreTypeOK, Idle, Saving, CrashKeepsJar
<1>4. ASSUME NEW a \in Appliers, NEW j \in Jars, ApplyLive(a, j)
      PROVE  JarInv'
  BY <1>1, <1>4 DEF ApplyLive, JarInv, StoreTypeOK, Idle, Saving, CrashKeepsJar
<1>5. ASSUME NEW a \in Appliers, DeleteJar(a) \/ TakeLock(a)
      PROVE  JarInv'
  <2>1. \A b \in Appliers : ~Saving(b)
    BY <1>5 DEF DeleteJar, TakeLock, Locked, Saving
  <2>2. /\ applying' = [applying EXCEPT ![a].at = "opening"] /\ jar' = applying[a].with
        /\ UNCHANGED <<live, file, temp, kept>>
    BY <1>5 DEF DeleteJar, TakeLock, Goes, Idle
  <2>3. \A b \in Appliers : applying'[b].with = applying[b].with
                            /\ applying'[b].at = IF b = a THEN "opening" ELSE applying[b].at
    BY <1>1, <2>2
  <2>4. StoreTypeOK'
    BY <1>1, <2>2 DEF StoreTypeOK
  <2>5. QED
    BY <2>1, <2>2, <2>3, <2>4 DEF JarInv, Saving, CrashKeepsJar
<1>6. ASSUME NEW a \in Appliers, OpenFile(a) \/ FillFile(a)
      PROVE  JarInv'
  <2>1. Saving(a) /\ UNCHANGED <<live, jar, kept, file>>
    BY <1>6 DEF OpenFile, FillFile, Saving, Writes
  <2>2. \/ applying' = [applying EXCEPT ![a].at = "writing"] /\ temp' = Torn
        \/ applying' = [applying EXCEPT ![a].at = "renaming"] /\ temp' = jar
    BY <1>6 DEF OpenFile, FillFile, Goes, Writes
  <2>3. \A b \in Appliers : b # a => applying'[b] = applying[b] /\ ~Saving(b)
    BY <1>1, <2>1, <2>2 DEF JarInv
  <2>4. applying'[a].with = applying[a].with /\ applying'[a].at \in {"writing", "renaming"}
        /\ (applying'[a].at = "renaming" => temp' = jar)
    BY <1>1, <2>2
  <2>5. StoreTypeOK'
    BY <1>1, <2>1, <2>2 DEF StoreTypeOK
  <2>6. QED
    BY <2>1, <2>3, <2>4, <2>5 DEF JarInv, Saving, CrashKeepsJar
<1>7. ASSUME NEW a \in Appliers, WriteFails(a) \/ RenameFile(a)
      PROVE  JarInv'
  <2>1. Saving(a) /\ applying' = [applying EXCEPT ![a] = Idle] /\ UNCHANGED <<live, jar>>
    BY <1>7 DEF WriteFails, RenameFile, Returns, Saving
  <2>2. \/ UNCHANGED <<file, kept>> /\ temp' \in {temp, Nothing}
        \/ file' = temp /\ kept' = applying[a].with /\ temp' = Nothing /\ applying[a].at = "renaming"
    BY <1>7 DEF WriteFails, RenameFile
  <2>3. \A b \in Appliers : applying'[b] = IF b = a THEN Idle ELSE applying[b]
    BY <1>1, <2>1
  <2>4. \A b \in Appliers : ~Saving(b)'
    BY <2>1, <2>3 DEF JarInv, Saving, Idle
  <2>5. applying[a].at = "renaming" => temp = applying[a].with
    BY <2>1 DEF JarInv
  <2>6. applying[a].with \in Jars \cup {Nothing}
    BY <1>1
  <2>7. StoreTypeOK'
    BY <1>1, <2>1, <2>2, <2>6 DEF StoreTypeOK, Idle
  <2>8. CrashKeepsJar'
    BY <1>1, <2>2, <2>5 DEF CrashKeepsJar
  <2>9. \A b \in Appliers : applying'[b].at = "idle" => applying'[b].with = Nothing
    BY <2>3 DEF JarInv, Idle
  <2>10. QED
    BY <2>4, <2>7, <2>8, <2>9 DEF JarInv, Saving
<1>8. QED
  BY <1>2, <1>3, <1>4, <1>5, <1>6, <1>7 DEF StoreNext

\* The process may die between any two steps of a Save: the next one finds the jar of the last
\* Save that reported success, whole (persistLocked, WriteFile and Rename).
THEOREM JarSurvives == StoreSpec => []CrashKeepsJar
<1>1. JarInv => CrashKeepsJar
  BY DEF JarInv
<1>2. QED
  BY <1>1, StoreStarts, StoreKeeps, PTL DEF StoreSpec
----------------------------------------------------------------------------
(* The framings of the classic mode.                                       *)

LEMMA CodecStarts == CodecInit => CodecTypeOK
<1> SUFFICES ASSUME CodecInit PROVE CodecTypeOK
  OBVIOUS
<1>1. PICK pair \in CodecPairs : codecKind = [s \in Speakers |-> IF s = "client" THEN pair[1] ELSE pair[2]]
  BY DEF CodecInit
<1>2. codecKind \in [Speakers -> CodecKinds]
  BY <1>1, CodecAssumption
<1>3. codecState \in [Speakers -> CodecState]
  BY DEF CodecInit, CodecState
<1>4. QED
  BY <1>2, <1>3 DEF CodecInit, CodecTypeOK

LEMMA CodecKeeps == CodecTypeOK /\ [CodecNext]_codecVars => CodecTypeOK'
<1> SUFFICES ASSUME CodecTypeOK, [CodecNext]_codecVars PROVE CodecTypeOK'
  OBVIOUS
<1>1. /\ codecKind \in [Speakers -> CodecKinds] /\ codecState \in [Speakers -> CodecState]
      /\ codecFrame \in [Speakers -> Framings \cup {"none"}]
      /\ codecAir \in [Speakers -> SUBSET Framings] /\ codecAsked \in BOOLEAN
  BY DEF CodecTypeOK
<1>2. "client" \in Speakers /\ \A s \in Speakers : Across(s) \in Speakers
  BY DEF Speakers, Across
<1>3. CASE UNCHANGED codecVars
  BY <1>1, <1>3 DEF codecVars, CodecTypeOK
<1>4. CASE CodecClock
  <2>1. codecState' \in [Speakers -> CodecState]
    BY <1>1, <1>2, <1>4 DEF CodecClock, CodecState
  <2>2. QED
    BY <1>1, <1>4, <2>1 DEF CodecClock, CodecTypeOK
<1>5. CASE CodecLoses
  <2>1. codecAir' \in [Speakers -> SUBSET Framings]
    BY <1>1, <1>5 DEF CodecLoses
  <2>2. QED
    BY <1>1, <1>5, <2>1 DEF CodecLoses, CodecTypeOK
<1>6. ASSUME NEW s \in Speakers, CodecDecides(s)
      PROVE  CodecTypeOK'
  <2>1. Switched(s) \in CodecState
    BY ZenonT(40), <1>1 DEF Switched, CodecState, Framings, Other
  <2>2. Follows(Switched(s)) \in Framings
    BY <2>1 DEF Follows, BatchWins, CodecState, Framings
  <2>3. codecKind[s] # "codec" => codecKind[s] \in Framings
    BY <1>1 DEF CodecKinds, Framings
  <2>4. codecState' \in [Speakers -> CodecState]
    BY <1>1, <1>6, <2>1 DEF CodecDecides
  <2>5. codecFrame' \in [Speakers -> Framings \cup {"none"}]
    BY <1>1, <1>6, <2>2, <2>3 DEF CodecDecides
  <2>6. QED
    BY <1>1, <1>6, <2>4, <2>5 DEF CodecDecides, CodecTypeOK
<1>7. ASSUME NEW s \in Speakers, CodecWrites(s)
      PROVE  CodecTypeOK'
  <2>1. codecAir' \in [Speakers -> SUBSET Framings] /\ codecFrame' \in [Speakers -> Framings \cup {"none"}]
    BY <1>1, <1>7 DEF CodecWrites
  <2>2. QED
    BY <1>1, <1>7, <2>1 DEF CodecWrites, CodecTypeOK
<1>8. ASSUME NEW s \in Speakers, NEW f \in Framings, CodecReceives(s, f)
      PROVE  CodecTypeOK'
  <2>1. codecAir' \in [Speakers -> SUBSET Framings]
    BY <1>1, <1>2, <1>8 DEF CodecReceives
  <2>2. codecState' \in [Speakers -> CodecState]
    <3> DEFINE st == [codecState[s] EXCEPT !.peerBatch = @ \/ f = "batched",
                                           !.peerLegacy = @ \/ f = "legacy", !.heard = TRUE]
    <3>1. st \in CodecState
      BY <1>1 DEF CodecState
    <3>2. codecState' \in {codecState, [codecState EXCEPT ![s] = st]}
      BY <1>1, <1>8 DEF CodecReceives, CodecState
    <3> HIDE DEF st
    <3>3. QED
      BY <1>1, <3>1, <3>2
  <2>3. codecAsked' \in BOOLEAN
    BY <1>8 DEF CodecReceives
  <2>4. QED
    BY <1>1, <1>8, <2>1, <2>2, <2>3 DEF CodecReceives, CodecTypeOK
<1>9. QED
  BY <1>3, <1>4, <1>5, <1>6, <1>7, <1>8 DEF CodecNext, CodecSends

----------------------------------------------------------------------------
(* The connections through the tunnel.                                     *)

\* The flows of this exit that hold a slot.
InSlot == {c \in Conns : flow[c] \in {"dialing", "copying"}}

\* A slot for each of them; the exit knows of no connection that is not dialled yet; an
\* application that is not relayed yet was told nothing.
SlotInv ==
    /\ RelayTypeOK
    /\ IsFiniteSet(InSlot) /\ SlotsMatchFlows
    /\ \A c \in Conns :
         /\ socks[c] = "idle" => dial[c] = "idle"
         /\ dial[c] \in {"idle", "opening"} => flow[c] = "none"
    /\ \A c \in Conns : socks[c] \in {"idle", "dialing"} => told[c] = "open"
    /\ EndsAreHonest

LEMMA RelayStarts == RelayInit => SlotInv
<1> SUFFICES ASSUME RelayInit PROVE SlotInv
  OBVIOUS
<1>1. RelayTypeOK
  BY RelayAssumption DEF RelayInit, RelayTypeOK, Streams
<1>2. InSlot = {} /\ slots = 0 /\ others = 0
  BY DEF RelayInit, InSlot
<1>3. IsFiniteSet(InSlot) /\ SlotsMatchFlows
  BY <1>2, FS_EmptySet DEF SlotsMatchFlows, InSlot
<1>4. QED
  BY <1>1, <1>3 DEF SlotInv, RelayInit, EndsAreHonest

\* One flow may take a slot or give it back.
InUse(at) == at \in {"dialing", "copying"}

LEMMA SlotsFollow ==
  ASSUME SlotInv, NEW c \in Conns, NEW to \in {"none", "accepted", "dialing", "copying", "done"},
         flow' = [flow EXCEPT ![c] = to], UNCHANGED others,
         \/ (InUse(to) <=> InUse(flow[c])) /\ slots' = slots
         \/ InUse(to) /\ ~InUse(flow[c]) /\ slots < MaxFlows /\ slots' = slots + 1
         \/ ~InUse(to) /\ InUse(flow[c]) /\ slots' = slots - 1
  PROVE  slots' \in 0..MaxFlows /\ IsFiniteSet(InSlot)' /\ SlotsMatchFlows'
<1>1. /\ flow \in [Conns -> {"none", "accepted", "dialing", "copying", "done"}]
      /\ slots \in 0..MaxFlows /\ others \in 0..MaxFlows
      /\ IsFiniteSet(InSlot) /\ slots - others = Cardinality(InSlot)
  BY DEF SlotInv, RelayTypeOK, SlotsMatchFlows, InSlot
<1>2. MaxFlows \in Nat
  BY RelayAssumption
<1>3. \A k \in Conns : flow'[k] = IF k = c THEN to ELSE flow[k]
  BY <1>1
<1>4. InSlot' = IF InUse(to) THEN InSlot \cup {c} ELSE InSlot \ {c}
  BY <1>3 DEF InSlot, InUse
<1>5. IsFiniteSet(InSlot)'
  BY <1>1, <1>4, FS_AddElement, FS_RemoveElement
<1>6. c \in InSlot <=> InUse(flow[c])
  BY DEF InSlot, InUse
<1>7. /\ Cardinality(InSlot \cup {c}) = IF c \in InSlot THEN Cardinality(InSlot) ELSE Cardinality(InSlot) + 1
      /\ Cardinality(InSlot \ {c}) = IF c \in InSlot THEN Cardinality(InSlot) - 1 ELSE Cardinality(InSlot)
  BY <1>1, FS_AddElement, FS_RemoveElement
<1>8. slots' - others' = Cardinality(InSlot')
  BY <1>1, <1>2, <1>4, <1>6, <1>7
<1>9. Cardinality(InSlot') \in Nat
  BY <1>5, FS_CardinalityType
<1>10. slots' \in 0..MaxFlows
  BY <1>1, <1>2, <1>8, <1>9
<1>11. QED
  BY <1>5, <1>8, <1>10 DEF SlotsMatchFlows, InSlot

\* The slots are not touched.
LEMMA SlotFrameKeeps ==
  ASSUME SlotInv, UNCHANGED <<flow, slots, others>>
  PROVE  IsFiniteSet(InSlot)' /\ SlotsMatchFlows'
BY DEF SlotInv, SlotsMatchFlows, InSlot

\* What happens at the ends and in the helper, on one connection.
LEMMA EndsMove ==
  ASSUME SlotInv, NEW c \in Conns, UNCHANGED others,
         AppEnds(c) \/ AppBreaks(c) \/ TargetEnds(c) \/ TunnelBreaks(c)
  PROVE  SlotInv'
<1>1. UNCHANGED <<socks, dial, upCopy, downCopy, held, flow, copying, slots, told, others>>
  BY DEF AppEnds, AppBreaks, TargetEnds, TunnelBreaks, socksVars, exitVars
<1>2. app' \in [Conns -> Streams] /\ target' \in [Conns -> Streams]
      /\ tunUp' \in [Conns -> Streams] /\ tunDown' \in [Conns -> Streams]
  BY DEF AppEnds, AppBreaks, TargetEnds, TunnelBreaks, Set, SlotInv, RelayTypeOK, Streams, endVars
<1>3. RelayTypeOK'
  BY <1>1, <1>2 DEF SlotInv, RelayTypeOK
<1>4. QED
  BY <1>1, <1>3, SlotFrameKeeps DEF SlotInv, EndsAreHonest

LEMMA HelperSide ==
  ASSUME SlotInv, NEW c \in Conns, UNCHANGED others, Serve(c) \/ HelperMoves(c)
  PROVE  SlotInv'
<1>1. /\ socks \in [Conns -> {"idle", "dialing", "relaying", "over"}]
      /\ dial \in [Conns -> {"idle", "opening", "up", "failed"}]
      /\ told \in [Conns -> Streams] /\ tunUp \in [Conns -> Streams] /\ held \subseteq Conns
      /\ upCopy \in [Conns -> {"runs", "done", "failed"}]
      /\ downCopy \in [Conns -> {"runs", "done", "readErr", "writeErr"}]
  BY DEF SlotInv, RelayTypeOK
<1>2. UNCHANGED <<flow, copying, slots, app, target, tunDown, others>>
  BY DEF Serve, HelperMoves, DialAnswered, DialTimesOut, UpEnds, UpFails, DownEnds, RelayEnds, exitVars, endVars
<1>3. \A stream \in Streams : ClosedFor(stream) \subseteq Streams
  BY DEF ClosedFor, Streams
<1> DEFINE Closed == IF told[c] = "open" THEN "ended" ELSE told[c]
           Typed == /\ socks' \in [Conns -> {"idle", "dialing", "relaying", "over"}]
                    /\ dial' \in [Conns -> {"idle", "opening", "up", "failed"}]
                    /\ told' \in [Conns -> Streams] /\ tunUp' \in [Conns -> Streams] /\ held' \subseteq Conns
                    /\ upCopy' \in [Conns -> {"runs", "done", "failed"}]
                    /\ downCopy' \in [Conns -> {"runs", "done", "readErr", "writeErr"}]
\* Of what the application is told and why, one of these three.
           Over == /\ socks' = [socks EXCEPT ![c] = "over"] /\ told' = [told EXCEPT ![c] = Closed]
                   /\ UNCHANGED downCopy
           Waits == /\ UNCHANGED <<told, downCopy>>
                    /\ \E to \in {socks[c], "dialing", "relaying"} :
                         /\ socks' = [socks EXCEPT ![c] = to]
                         /\ to # socks[c] => socks[c] \in {"idle", "dialing"}
           Tells1 == /\ UNCHANGED socks /\ socks[c] = "relaying"
                     /\ \E outcome \in {"done", "readErr", "writeErr"} :
                          /\ downCopy' = [downCopy EXCEPT ![c] = outcome]
                          /\ told' = [told EXCEPT ![c] = Tells(outcome)]
<1>4. Typed
  <2>1. held' \subseteq Conns /\ tunUp' \in [Conns -> Streams] 
    BY <1>1, <1>3 DEF Serve, HelperMoves, DialAnswered, DialTimesOut, UpEnds, UpFails, DownEnds, RelayEnds, Set,
       CloseUp, Streams
  <2>2. upCopy' \in [Conns -> {"runs", "done", "failed"}]
        /\ downCopy' \in [Conns -> {"runs", "done", "readErr", "writeErr"}]
        /\ dial' \in [Conns -> {"idle", "opening", "up", "failed"}]
    BY <1>1 DEF Serve, HelperMoves, DialAnswered, DialTimesOut, UpEnds, UpFails, DownEnds, RelayEnds, Set
  <2>3. socks' \in [Conns -> {"idle", "dialing", "relaying", "over"}]
    BY <1>1 DEF Serve, HelperMoves, DialAnswered, DialTimesOut, UpEnds, UpFails, DownEnds, RelayEnds, Set
  <2>4. told' \in [Conns -> Streams]
    BY <1>1 DEF Serve, HelperMoves, DialAnswered, DialTimesOut, UpEnds, UpFails, DownEnds, RelayEnds, Set,
       CloseClient, Tells, Streams
  <2>5. QED
    BY <2>1, <2>2, <2>3, <2>4
<1>5. RelayTypeOK'
  BY <1>2, <1>4 DEF SlotInv, RelayTypeOK
<1>6. Over \/ Waits \/ Tells1
  <2>1. CASE Serve(c)
    BY <1>1, <2>1 DEF Serve, Set, CloseClient
  <2>2. CASE DialAnswered(c) \/ DialTimesOut(c) \/ RelayEnds(c)
    BY <1>1, <2>2 DEF DialAnswered, DialTimesOut, RelayEnds, Set, CloseClient
  <2>3. CASE UpEnds(c) \/ UpFails(c)
    <3>1. UNCHANGED <<socks, told, downCopy>>
      BY <2>3 DEF UpEnds, UpFails
    <3>2. socks' = [socks EXCEPT ![c] = socks[c]]
      BY <1>1, <3>1
    <3>3. QED
      BY <3>1, <3>2
  <2>4. CASE DownEnds(c)
    BY <1>1, <2>4 DEF DownEnds, Set
  <2>5. QED
    BY <2>1, <2>2, <2>3, <2>4 DEF HelperMoves
<1>7. \A k \in Conns : /\ socks[k] \in {"idle", "dialing"} => told[k] = "open"
                       /\ socks[k] = "relaying" /\ told[k] = "ended" => downCopy[k] = "done"
  BY DEF SlotInv, EndsAreHonest
<1>8. \A k \in Conns : /\ socks'[k] \in {"idle", "dialing"} => told'[k] = "open"
                       /\ socks'[k] = "relaying" /\ told'[k] = "ended" => downCopy'[k] = "done"
  <2>1. CASE Over
    BY <1>1, <1>7, <2>1
  <2>2. CASE Waits
    BY <1>1, <1>7, <2>2
  <2>3. CASE Tells1
    BY <1>1, <1>7, <2>3 DEF Tells
  <2>4. QED
    BY <1>6, <2>1, <2>2, <2>3
<1>9. ASSUME NEW k \in Conns
      PROVE  /\ socks'[k] = "idle" => dial'[k] = "idle"
             /\ dial'[k] \in {"idle", "opening"} => flow'[k] = "none"
  <2>1. CASE Serve(c)
    BY <1>1, <1>2, <2>1 DEF Serve, Set, SlotInv
  <2>2. CASE HelperMoves(c)
    <3>1. UNCHANGED dial /\ (socks'[k] = "idle" => socks[k] = "idle")
      BY <1>1, <2>2 DEF HelperMoves, DialAnswered, DialTimesOut, UpEnds, UpFails, DownEnds, RelayEnds, Set
    <3>2. QED
      BY <1>2, <3>1 DEF SlotInv
  <2>3. QED
    BY <2>1, <2>2
<1>10. QED
  BY <1>2, <1>5, <1>8, <1>9, SlotFrameKeeps DEF SlotInv, EndsAreHonest

\* The exit, and the dial that brings it a flow.
LEMMA ExitSide ==
  ASSUME SlotInv, NEW c \in Conns, UNCHANGED others,
         DialEnds(c) \/ ExitMoves(c) \/ \E d \in {"up", "down"} : CopyIdles(c, d)
  PROVE  SlotInv'
<1>1. /\ flow \in [Conns -> {"none", "accepted", "dialing", "copying", "done"}]
      /\ copying \in [Conns -> SUBSET {"up", "down"}] /\ tunDown \in [Conns -> Streams]
      /\ dial \in [Conns -> {"idle", "opening", "up", "failed"}] /\ held \subseteq Conns
      /\ slots \in 0..MaxFlows
  BY DEF SlotInv, RelayTypeOK
<1>2. UNCHANGED <<socks, upCopy, downCopy, app, target, told, tunUp, others>>
  BY DEF DialEnds, ExitMoves, TakeSlot, RejectFlow, ExitDials, FlowEnds, CopyEnds, CopyIdles, socksVars, endVars
<1>3. /\ dial' \in [Conns -> {"idle", "opening", "up", "failed"}] /\ held' \subseteq Conns
      /\ copying' \in [Conns -> SUBSET {"up", "down"}] /\ tunDown' \in [Conns -> Streams]
  BY <1>1 DEF DialEnds, ExitMoves, TakeSlot, RejectFlow, ExitDials, FlowEnds, CopyEnds, CopyIdles, Set, CloseLocal,
     ClosedFor, Streams, socksVars
<1>4. flow' \in [Conns -> {"none", "accepted", "dialing", "copying", "done"}]
  BY <1>1 DEF DialEnds, ExitMoves, TakeSlot, RejectFlow, ExitDials, FlowEnds, CopyEnds, CopyIdles, Set
<1>5. \A k \in Conns : /\ socks[k] = "idle" => dial[k] = "idle"
                       /\ dial[k] \in {"idle", "opening"} => flow[k] = "none"
  BY DEF SlotInv
<1>6. slots' \in 0..MaxFlows /\ IsFiniteSet(InSlot)' /\ SlotsMatchFlows'
  <2>1. CASE UNCHANGED <<flow, slots>>
    BY <1>1, <1>2, <2>1, SlotFrameKeeps
  <2>2. CASE flow' = [flow EXCEPT ![c] = "accepted"] /\ dial[c] = "opening" /\ UNCHANGED slots
    <3>1. ~InUse("accepted") /\ ~InUse(flow[c])
      BY <1>5, <2>2 DEF InUse
    <3>2. QED
      BY <1>2, <2>2, <3>1, SlotsFollow
  <2>3. CASE TakeSlot(c)
    <3>1. /\ flow' = [flow EXCEPT ![c] = "dialing"] /\ slots < MaxFlows /\ slots' = slots + 1
          /\ InUse("dialing") /\ ~InUse(flow[c])
      BY <2>3 DEF TakeSlot, Set, InUse
    <3>2. QED
      BY <1>2, <3>1, SlotsFollow
  <2>4. CASE RejectFlow(c)
    <3>1. /\ flow' = [flow EXCEPT ![c] = "done"] /\ slots' = slots
          /\ ~InUse("done") /\ ~InUse(flow[c])
      BY <2>4 DEF RejectFlow, Set, InUse
    <3>2. QED
      BY <1>2, <3>1, SlotsFollow
  <2>5. CASE ExitDials(c)
    <3>1. \/ flow' = [flow EXCEPT ![c] = "copying"] /\ slots' = slots
          \/ flow' = [flow EXCEPT ![c] = "done"] /\ slots' = slots - 1
      BY <2>5 DEF ExitDials, Set, Released
    <3>2. InUse("copying") /\ ~InUse("done") /\ InUse(flow[c])
      BY <2>5 DEF ExitDials, InUse
    <3>3. QED
      BY <1>2, <3>1, <3>2, SlotsFollow
  <2>6. CASE FlowEnds(c)
    <3>1. /\ flow' = [flow EXCEPT ![c] = "done"] /\ slots' = slots - 1
          /\ ~InUse("done") /\ InUse(flow[c])
      BY <2>6 DEF FlowEnds, Set, Released, InUse
    <3>2. QED
      BY <1>2, <3>1, SlotsFollow
  <2>7. CASE DialEnds(c)
    BY <2>1, <2>2, <2>7 DEF DialEnds, Set
  <2>8. CASE \E d \in {"up", "down"} : CopyEnds(c, d) \/ CopyIdles(c, d)
    BY <2>1, <2>8 DEF CopyEnds, CopyIdles
  <2>9. QED
    BY <2>3, <2>4, <2>5, <2>6, <2>7, <2>8 DEF ExitMoves
<1>7. RelayTypeOK'
  BY <1>2, <1>3, <1>4, <1>6 DEF SlotInv, RelayTypeOK
<1>8. ASSUME NEW k \in Conns
      PROVE  /\ socks'[k] = "idle" => dial'[k] = "idle"
             /\ dial'[k] \in {"idle", "opening"} => flow'[k] = "none"
  <2>1. CASE DialEnds(c)
    BY <1>1, <1>2, <1>5, <2>1 DEF DialEnds, Set
  <2>2. CASE ExitMoves(c) \/ \E d \in {"up", "down"} : CopyIdles(c, d)
    <3>1. UNCHANGED dial /\ (flow[k] = "none" => flow'[k] = "none")
      BY <1>1, <2>2 DEF ExitMoves, TakeSlot, RejectFlow, ExitDials, FlowEnds, CopyEnds, CopyIdles, Set, socksVars
    <3>2. QED
      BY <1>2, <1>5, <3>1
  <2>3. QED
    BY <2>1, <2>2
<1>9. QED
  BY <1>2, <1>6, <1>7, <1>8 DEF SlotInv, EndsAreHonest

LEMMA RelayKeeps == SlotInv /\ [RelayNext]_relayVars => SlotInv'
<1> SUFFICES ASSUME SlotInv, [RelayNext]_relayVars PROVE SlotInv'
  OBVIOUS
<1>1. CASE UNCHANGED relayVars
  BY <1>1 DEF relayVars, socksVars, exitVars, endVars, SlotInv, RelayTypeOK, InSlot, SlotsMatchFlows, EndsAreHonest
<1>2. CASE OthersMove
  <2>1. UNCHANGED <<socks, dial, upCopy, downCopy, held, flow, copying, app, target, told, tunUp, tunDown>>
    BY <1>2 DEF OthersMove, socksVars, endVars
  <2>2. slots' - others' = slots - others
    <3>1. slots \in 0..MaxFlows /\ others \in 0..MaxFlows
      BY DEF SlotInv, RelayTypeOK
    <3>2. \/ slots' = slots + 1 /\ others' = others + 1
          \/ slots' = slots - 1 /\ others' = others - 1
      BY <1>2 DEF OthersMove
    <3>3. QED
      BY <3>1, <3>2, RelayAssumption
  <2>3. slots - others = Cardinality(InSlot) /\ Cardinality(InSlot) \in Nat
    BY FS_CardinalityType DEF SlotInv, SlotsMatchFlows, InSlot
  <2>4. slots \in 0..MaxFlows /\ others \in 0..MaxFlows /\ others' \in {others + 1, others - 1}
    BY <1>2 DEF OthersMove, SlotInv, RelayTypeOK
  <2>5. slots' \in 0..MaxFlows /\ others' \in 0..MaxFlows
    BY <1>2, <2>2, <2>3, <2>4, RelayAssumption DEF OthersMove
  <2>6. RelayTypeOK'
    BY <2>1, <2>5 DEF SlotInv, RelayTypeOK
  <2>7. InSlot' = InSlot
    BY <2>1 DEF InSlot
  <2>8. IsFiniteSet(InSlot)' /\ SlotsMatchFlows'
    BY <2>2, <2>3, <2>7 DEF SlotInv, SlotsMatchFlows, InSlot
  <2>9. QED
    BY <2>1, <2>6, <2>8 DEF SlotInv, EndsAreHonest
<1>3. CASE RelayNext /\ ~OthersMove
  BY <1>3, EndsMove, HelperSide, ExitSide DEF RelayNext
<1>4. QED
  BY <1>1, <1>2, <1>3

\* The limit of the exit is kept and given back on every path of a flow, for any number of
\* connections (handleExitTCP), and no application is told of a regular end that the tunnel did
\* not have (relayBidi).
THEOREM RelayIsSound == RelaySpec => [](SlotsMatchFlows /\ EndsAreHonest)
<1>1. SlotInv => SlotsMatchFlows /\ EndsAreHonest
  BY DEF SlotInv
<1>2. QED
  BY <1>1, RelayStarts, RelayKeeps, PTL DEF RelaySpec

----------------------------------------------------------------------------
(* The queue and the flush loop of the classic framings.                   *)

\* The packets accepted, in the order of acceptance.
Upto(n) == [i \in 1..n |-> i]
LEMMA UptoNext ==
  ASSUME NEW n \in Nat
  PROVE  Append(Upto(n), n + 1) = Upto(n + 1)
<1>1. Upto(n) \in Seq(Nat) /\ Len(Upto(n)) = n /\ \A i \in 1..n : Upto(n)[i] = i
  BY DEF Upto
<1>2. Upto(n+1) \in Seq(Nat) /\ Len(Upto(n+1)) = n+1 /\ \A i \in 1..(n+1) : Upto(n+1)[i] = i
  BY DEF Upto
<1>3. /\ Append(Upto(n), n+1) \in Seq(Nat) /\ Len(Append(Upto(n), n+1)) = n + 1
      /\ \A i \in 1..(n+1) : Append(Upto(n), n+1)[i] = IF i <= n THEN Upto(n)[i] ELSE n + 1
  BY <1>1
<1>4. ASSUME NEW i \in 1..(n+1) PROVE Append(Upto(n), n + 1)[i] = Upto(n+1)[i]
  BY <1>1, <1>2, <1>3
<1>5. QED
  BY <1>2, <1>3, <1>4, SeqEqual

\* The flusher starts a round with nothing in its hands.
FlushInv ==
    /\ BatchingTypeOK
    /\ flusher \in [at : {"top", "gathering", "lingering", "writing", "ended"}, batch : Seq(Accepted)]
    /\ flusher.at = "top" => flusher.batch = <<>>
    /\ AcceptedInOrder

LEMMA BatchingStarts == BatchingInit => FlushInv
<1> SUFFICES ASSUME BatchingInit PROVE FlushInv
  OBVIOUS
<1>1. BatchingTypeOK
  BY BatchingAssumption DEF BatchingInit, BatchingTypeOK, Accepted
<1>2. flusher = [at |-> "top", batch |-> <<>>] /\ frames = <<>> /\ batchQueue = <<>> /\ accepted = 0
  BY DEF BatchingInit
<1>3. FlattenSeq(<<>>) = <<>>
  BY DEF FlattenSeq
<1>4. <<>> \o <<>> \o <<>> = [i \in 1..0 |-> i]
  OBVIOUS
<1>5. AcceptedInOrder
  BY <1>2, <1>3, <1>4 DEF AcceptedInOrder
<1>6. QED
  BY <1>1, <1>2, <1>5 DEF FlushInv

\* Nothing that matters to the order moves.
NoBatch == UNCHANGED <<batchKind, accepted, batchQueue, frames>>

LEMMA NoBatchKeeps ==
  ASSUME FlushInv, NoBatch,
         batchCalls' \in [BatchCallers -> {"idle", "checked"}],
         batchStop' \in {"no", "flagged", "signalled", "done"},
         NEW at \in {"gathering", "lingering", "writing", "ended", flusher.at},
         flusher' = [flusher EXCEPT !.at = at]
  PROVE  FlushInv'
<1>1. /\ flusher \in [at : {"top", "gathering", "lingering", "writing", "ended"}, batch : Seq(Accepted)]
      /\ Len(flusher.batch) <= BatchCount
  BY DEF FlushInv, BatchingTypeOK
<1>2. flusher'.at = at /\ flusher'.batch = flusher.batch
      /\ flusher' \in [at : {"top", "gathering", "lingering", "writing", "ended"}, batch : Seq(Accepted)]
  BY <1>1
<1>3. BatchingTypeOK'
  BY <1>1, <1>2 DEF FlushInv, BatchingTypeOK, NoBatch, Accepted
<1>4. AcceptedInOrder'
  BY <1>2 DEF FlushInv, AcceptedInOrder, NoBatch
<1>5. QED
  BY <1>2, <1>3, <1>4 DEF FlushInv

\* The state of the queue, in the forms the steps need.
LEMMA FlushFacts ==
  ASSUME FlushInv
  PROVE  /\ batchQueue \in Seq(Accepted) /\ Len(batchQueue) <= BatchDepth
         /\ flusher.batch \in Seq(Accepted) /\ Len(flusher.batch) <= BatchCount
         /\ frames \in Seq(Seq(Accepted)) /\ FlattenSeq(frames) \in Seq(Accepted)
         /\ accepted \in 0..MaxBatched /\ MaxBatched \in Nat
         /\ FlattenSeq(frames) \o flusher.batch \in Seq(Accepted)
         /\ (FlattenSeq(frames) \o flusher.batch) \o batchQueue = Upto(accepted)
<1>1. /\ batchQueue \in Seq(Accepted) /\ Len(batchQueue) <= BatchDepth
      /\ flusher.batch \in Seq(Accepted) /\ Len(flusher.batch) <= BatchCount
      /\ frames \in Seq(Seq(Accepted)) /\ accepted \in 0..MaxBatched
  BY DEF FlushInv, BatchingTypeOK
<1>2. FlattenSeq(frames) \in Seq(Accepted)
  BY <1>1, FlattenType
<1>3. FlattenSeq(frames) \o flusher.batch \in Seq(Accepted)
  BY <1>1, <1>2, ConcatProperties
<1>4. QED
  BY <1>1, <1>2, <1>3, BatchingAssumption DEF FlushInv, AcceptedInOrder, Upto

LEMMA QueueTakes ==
  ASSUME FlushInv, NEW c \in BatchCallers, SendQueues(c)
  PROVE  FlushInv'
<1>1. batchCalls' \in [BatchCallers -> {"idle", "checked"}]
  BY DEF FlushInv, BatchingTypeOK, SendQueues
<1>2. CASE UNCHANGED <<accepted, batchQueue>>
  <2>1. flusher' = [flusher EXCEPT !.at = flusher.at]
    BY DEF SendQueues, FlushInv
  <2>2. batchStop' \in {"no", "flagged", "signalled", "done"}
    BY DEF SendQueues, FlushInv, BatchingTypeOK
  <2>3. NoBatch
    BY <1>2 DEF SendQueues, NoBatch
  <2>4. QED
    BY <1>1, <2>1, <2>2, <2>3, NoBatchKeeps
<1>3. CASE /\ Len(batchQueue) < BatchDepth /\ accepted < MaxBatched
           /\ accepted' = accepted + 1 /\ batchQueue' = Append(batchQueue, accepted + 1)
  <2>1. UNCHANGED <<batchKind, batchStop, flusher, frames>>
    BY DEF SendQueues
  <2>2. accepted + 1 \in Accepted /\ accepted' \in 0..MaxBatched
    BY <1>3, FlushFacts DEF Accepted
  <2>3. batchQueue' \in Seq(Accepted) /\ Len(batchQueue') <= BatchDepth
    BY <1>3, <2>2, FlushFacts, BatchingAssumption
  <2>4. (FlattenSeq(frames) \o flusher.batch) \o batchQueue' = Upto(accepted + 1)
    <3>1. (FlattenSeq(frames) \o flusher.batch) \o Append(batchQueue, accepted + 1)
            = Append((FlattenSeq(frames) \o flusher.batch) \o batchQueue, accepted + 1)
      <4> DEFINE before == FlattenSeq(frames) \o flusher.batch
      <4>1. before \in Seq(Accepted) /\ batchQueue \in Seq(Accepted)
        BY FlushFacts
      <4> HIDE DEF before
      <4>2. before \o Append(batchQueue, accepted + 1) = Append(before \o batchQueue, accepted + 1)
        BY <2>2, <4>1, AppendAtEnd
      <4>3. QED
        BY <4>2 DEF before
    <3>2. Append(Upto(accepted), accepted + 1) = Upto(accepted + 1)
      <4>1. accepted \in Nat
        BY FlushFacts
      <4>2. QED
        BY <4>1, UptoNext
    <3>3. QED
      BY <1>3, <3>1, <3>2, FlushFacts
  <2>5. AcceptedInOrder'
    BY <1>3, <2>1, <2>4 DEF AcceptedInOrder, Upto
  <2>6. BatchingTypeOK'
    BY <1>1, <2>1, <2>2, <2>3 DEF FlushInv, BatchingTypeOK, Accepted
  <2>7. QED
    BY <2>1, <2>5, <2>6 DEF FlushInv, Accepted
<1>4. QED
  BY <1>2, <1>3 DEF SendQueues

\* A packet goes from the queue into the batch.
LEMMA BatchGrows ==
  ASSUME FlushInv, FlushTakes \/ FlushGathers
  PROVE  FlushInv'
<1> DEFINE q == batchQueue
<1>1. q # <<>> /\ q' = Tail(q) /\ UNCHANGED <<batchKind, batchCalls, batchStop, accepted, frames>>
  BY DEF FlushTakes, FlushGathers, OnlyFlusher
<1>2. Head(q) \in Accepted /\ Tail(q) \in Seq(Accepted) /\ Len(Tail(q)) = Len(q) - 1 /\ Len(q) \in Nat
  BY <1>1, FlushFacts, HeadTailProperties
<1>3. /\ flusher'.batch = Append(flusher.batch, Head(q))
      /\ flusher' \in [at : {"top", "gathering", "lingering", "writing", "ended"}, batch : Seq(Accepted)]
      /\ flusher'.at # "top" /\ Len(flusher'.batch) <= BatchCount
  <2>1. CASE FlushTakes
    <3>1. flusher.batch = <<>>
      BY <2>1 DEF FlushTakes, FlushInv
    <3>2. Append(flusher.batch, Head(q)) = <<Head(q)>> /\ <<Head(q)>> \in Seq(Accepted) /\ Len(<<Head(q)>>) = 1
      BY <1>2, <3>1
    <3>3. BatchCount \in Nat \ {0}
      BY BatchingAssumption
    <3>4. \E at \in {"writing", "gathering"} : flusher' = [at |-> at, batch |-> <<Head(q)>>]
      BY <2>1 DEF FlushTakes
    <3>5. flusher'.batch = <<Head(q)>> /\ flusher'.at # "top"
          /\ flusher' \in [at : {"top", "gathering", "lingering", "writing", "ended"}, batch : Seq(Accepted)]
      BY <3>2, <3>4
    <3>6. flusher'.batch = Append(flusher.batch, Head(q))
      BY <3>2, <3>5, Zenon
    <3>7. 1 <= BatchCount
      BY <3>3
    <3>8. Len(flusher'.batch) <= BatchCount
      BY <3>2, <3>5, <3>7, Zenon
    <3>9. QED
      BY <3>5, <3>6, <3>8, Zenon
  <2>2. CASE FlushGathers
    <3>1. /\ flusher' = [flusher EXCEPT !.batch = Append(flusher.batch, Head(q))]
          /\ flusher.at \in {"gathering", "lingering"} /\ ~(Len(flusher.batch) >= BatchCount)
      BY <2>2 DEF FlushGathers, Full
    <3>2. /\ Append(flusher.batch, Head(q)) \in Seq(Accepted)
          /\ Len(Append(flusher.batch, Head(q))) = Len(flusher.batch) + 1 /\ Len(flusher.batch) \in Nat
      BY <1>2, FlushFacts
    <3>3. flusher \in [at : {"top", "gathering", "lingering", "writing", "ended"}, batch : Seq(Accepted)]
      BY DEF FlushInv
    <3>4. BatchCount \in Nat
      BY BatchingAssumption
    <3>5. /\ flusher'.batch = Append(flusher.batch, Head(q)) /\ flusher'.at = flusher.at
          /\ flusher' \in [at : {"top", "gathering", "lingering", "writing", "ended"}, batch : Seq(Accepted)]
      BY <3>1, <3>2, <3>3
    <3>6. QED
      BY <3>1, <3>2, <3>4, <3>5
  <2>3. QED
    BY <2>1, <2>2
<1>4. (FlattenSeq(frames) \o flusher'.batch) \o q' = Upto(accepted)
  <2>1. FlattenSeq(frames) \o Append(flusher.batch, Head(q)) = Append(FlattenSeq(frames) \o flusher.batch, Head(q))
    BY SMTT(40), <1>2, FlushFacts, AppendAtEnd
  <2>2. Append(FlattenSeq(frames) \o flusher.batch, Head(q)) \o Tail(q)
          = (FlattenSeq(frames) \o flusher.batch) \o q
    BY <1>1, FlushFacts, HeadMoves
  <2>3. QED
    BY <1>1, <1>3, <2>1, <2>2, FlushFacts
<1>5. AcceptedInOrder'
  BY <1>1, <1>4 DEF AcceptedInOrder, Upto
<1>6. Len(Tail(q)) <= BatchDepth /\ flusher'.batch \in Seq(Accepted)
  BY <1>2, <1>3, FlushFacts, BatchingAssumption
<1>7. BatchingTypeOK'
  BY <1>1, <1>2, <1>3, <1>6 DEF FlushInv, BatchingTypeOK, Accepted
<1>8. QED
  BY <1>3, <1>5, <1>7 DEF FlushInv, Accepted

\* The batch becomes a frame.
LEMMA BatchLeaves ==
  ASSUME FlushInv, FlushWrites
  PROVE  FlushInv'
<1>1. /\ frames' = Append(frames, flusher.batch)
      /\ flusher' = [at |-> IF NotRunning THEN "ended" ELSE "top", batch |-> <<>>]
      /\ UNCHANGED <<batchKind, batchCalls, batchStop, accepted, batchQueue>>
  BY DEF FlushWrites, Emptied
<1>2. /\ flusher'.batch = <<>> /\ <<>> \in Seq(Accepted) /\ Len(<<>>) = 0
      /\ flusher' \in [at : {"top", "gathering", "lingering", "writing", "ended"}, batch : Seq(Accepted)]
  BY <1>1
<1>3. FlattenSeq(frames') = FlattenSeq(frames) \o flusher.batch
  BY <1>1, FlushFacts, FlattenAppend
<1>4. FlattenSeq(frames') \o <<>> = FlattenSeq(frames) \o flusher.batch
  BY <1>3, FlushFacts, ConcatEmptySeq
<1>5. AcceptedInOrder'
  BY <1>1, <1>2, <1>4, FlushFacts DEF AcceptedInOrder, Upto
<1>6. frames' \in Seq(Seq(Accepted))
  BY <1>1, FlushFacts
<1>7. BatchCount \in Nat
  BY BatchingAssumption
<1>8. BatchingTypeOK'
  BY <1>1, <1>2, <1>6, <1>7 DEF FlushInv, BatchingTypeOK, Accepted
<1>9. QED
  BY <1>2, <1>5, <1>8 DEF FlushInv, Accepted

LEMMA BatchingKeeps == FlushInv /\ [BatchingNext]_batchVars => FlushInv'
<1> SUFFICES ASSUME FlushInv, [BatchingNext]_batchVars PROVE FlushInv'
  OBVIOUS
<1>1. /\ batchCalls \in [BatchCallers -> {"idle", "checked"}]
      /\ batchStop \in {"no", "flagged", "signalled", "done"}
      /\ flusher = [flusher EXCEPT !.at = flusher.at]
  BY DEF FlushInv, BatchingTypeOK
<1>2. CASE UNCHANGED batchVars
  BY <1>1, <1>2, NoBatchKeeps DEF batchVars, NoBatch
<1>3. CASE StopsBatching
  BY <1>1, <1>3, NoBatchKeeps DEF StopsBatching, StopsRunning, StopsLoop, StopsCarrier, NoBatch
<1>4. CASE FlushEnds \/ FlushLingers \/ FlushWaits \/ FlushDrops
  <2>1. NoBatch /\ UNCHANGED <<batchCalls, batchStop>>
    BY <1>4 DEF FlushEnds, FlushLingers, FlushWaits, FlushDrops, OnlyFlusher, NoBatch
  <2>2. \E at \in {"lingering", "writing", "ended"} : flusher' = [flusher EXCEPT !.at = at]
    BY <1>4 DEF FlushEnds, FlushLingers, FlushWaits, FlushDrops, LingerOver, FlusherGoes
  <2>3. QED
    BY <1>1, <2>1, <2>2, NoBatchKeeps
<1>5. ASSUME NEW c \in BatchCallers, SendLooks(c) PROVE FlushInv'
  <2>1. NoBatch /\ UNCHANGED <<batchStop, flusher>> /\ batchCalls' \in [BatchCallers -> {"idle", "checked"}]
    BY <1>1, <1>5 DEF SendLooks, NoBatch
  <2>2. QED
    BY <1>1, <2>1, NoBatchKeeps
<1>6. QED
  BY <1>2, <1>3, <1>4, <1>5, QueueTakes, BatchGrows, BatchLeaves DEF BatchingNext, Flushes

\* Whatever is gathered when, for any number of callers and any limits: the frames, the batch and
\* the queue hold what Send accepted, once and in order (flushLoop of BatchedTransport and of
\* CodecTransport).
THEOREM BatchesKeepOrder == BatchingSpec => []AcceptedInOrder
<1>1. FlushInv => AcceptedInOrder
  BY DEF FlushInv
<1>2. QED
  BY <1>1, BatchingStarts, BatchingKeeps, PTL DEF BatchingSpec

----------------------------------------------------------------------------
(* The five side by side, as the run checks them.                          *)

TopicInv == WindowInv /\ CodecTypeOK /\ FlushInv /\ SlotInv /\ JarInv

LEMMA TopicSteps ==
  [TopicNext]_topicVars =>
     /\ [HelperNext]_helperVars /\ [CodecNext]_codecVars /\ [BatchingNext]_batchVars
     /\ [RelayNext]_relayVars /\ [StoreNext]_storeVars
BY DEF TopicNext, topicVars, framing, ownVars

LEMMA TopicInvHolds == TopicSpec => []TopicInv
<1>1. TopicInit => TopicInv
  BY HelperStarts, CodecStarts, BatchingStarts, RelayStarts, StoreStarts DEF TopicInit, TopicInv
<1>2. TopicInv /\ [TopicNext]_topicVars => TopicInv'
  BY TopicSteps, HelperKeeps, CodecKeeps, BatchingKeeps, RelayKeeps, StoreKeeps DEF TopicInv
<1>3. QED
  BY <1>1, <1>2, PTL DEF TopicSpec

\* The state of the helper and of what belongs to it stays well formed.
THEOREM TopicsTyped == TopicSpec => []TopicTypesOK
<1>1. TopicInv => TopicTypesOK
  BY DEF TopicInv, TopicTypesOK, WindowInv, FlushInv, SlotInv, JarInv
<1>2. QED
  BY <1>1, TopicInvHolds, PTL

\* What is taken is given back, what ended did end, and what was saved is there after a crash:
\* the limit of the exit, the ends of relayBidi and the file of the cookie store, for any number
\* of connections, flows and callers.
THEOREM NothingLeftBroken == TopicSpec => []NothingIsLeftBroken
<1>1. TopicInv => NothingIsLeftBroken
  BY DEF TopicInv, NothingIsLeftBroken, SlotInv, JarInv
<1>2. QED
  BY <1>1, TopicInvHolds, PTL
=============================================================================
