---------------------------- MODULE CarriersProofs ---------------------------
(* The carriers: the type invariants, what each of them is held to, and    *)
(* that every carrier which reports what becomes of its attempts keeps the *)
(* promise of Carrier.                                                     *)
EXTENDS MCCarriers, FramesProofs

----------------------------------------------------------------------------
(* The promise of Carrier, told of the values before and after a step.     *)

MayGo(p, c, q, d) ==
    \/ q = p /\ d = c
    \/ q = p /\ c /\ d = FALSE
    \/ p = "trying" /\ q \in {"challenged", "failed"} /\ d = c
    \/ p = "challenged" /\ q \in {"trying", "failed", "blocked"} /\ d = c
    \/ p = "trying" /\ q = "up" /\ d = TRUE
    \/ p = "up" /\ q = "failed" /\ d = FALSE
    \/ p \in {"failed", "blocked"} /\ q = "pausing" /\ d = c
    \/ p = "pausing" /\ q = "trying" /\ d = c
    \/ q = "over" /\ d \in {c, FALSE}

----------------------------------------------------------------------------
(* The document carrier.                                                   *)

\* Every channel a caller is about to close is open still, and is claimed: it is not published any
\* more, and no other caller has it.
DocsWakesInv ==
    /\ panicked = FALSE
    /\ wake # 0 => wake \notin closed
    /\ \A f \in Forcers : forcing[f][1] = "wake" =>
         /\ forcing[f][2] \in Wakes /\ forcing[f][2] \notin closed /\ forcing[f][2] # wake
         /\ \A g \in Forcers : forcing[g][1] = "wake" /\ forcing[g][2] = forcing[f][2] => g = f

\* What the connect goroutine read of the session is true until it publishes its own.
DocsWriterInv ==
    /\ writers = IF session = 0 THEN 0 ELSE 1
    /\ loop \in {"fetch", "challenged", "merge", "dial", "check", "publish"} => hadSession = (session # 0)
    /\ loop \in {"check", "publish"} => conn \in Conns

DocsInv == DocsTypeOK /\ DocsWakesInv /\ DocsWriterInv

LEMMA DocsNow ==
  ASSUME DocsInv
  PROVE  /\ running \in BOOLEAN /\ connected \in BOOLEAN
         /\ stopping \in {"no", "flagged", "done"} /\ loop \in Phases
         /\ conn \in Conns \cup {0} /\ session \in Conns \cup {0} /\ keepalive \in Conns \cup {0}
         /\ open \subseteq Conns /\ hadSession \in BOOLEAN /\ writers \in Nat
         /\ awaited \in Wakes \cup {0} /\ wake \in {0, awaited} /\ wake \in Wakes \cup {0} /\ closed \subseteq Wakes
         /\ forcing \in [Forcers -> Intents]
         /\ pushed \in 0..MaxPushes /\ held \in 0..MaxPushes
         /\ stored \in [jar : 0..MaxPushes, merged : BOOLEAN] /\ cutPending \in BOOLEAN /\ panicked \in BOOLEAN
         /\ DocsWakesInv /\ DocsWriterInv
  BY DEF DocsInv, DocsTypeOK, FlagsOK

LEMMA DocsOK ==
  ASSUME running' \in BOOLEAN, connected' \in BOOLEAN, stopping' \in {"no", "flagged", "done"}, loop' \in Phases,
         conn' \in Conns \cup {0}, session' \in Conns \cup {0}, keepalive' \in Conns \cup {0}, open' \subseteq Conns,
         hadSession' \in BOOLEAN, awaited' \in Wakes \cup {0}, wake' \in {0, awaited'}, closed' \subseteq Wakes,
         forcing' \in [Forcers -> Intents], pushed' \in 0..MaxPushes, held' \in 0..MaxPushes,
         stored' \in [jar : 0..MaxPushes, merged : BOOLEAN], cutPending' \in BOOLEAN,
         DocsWakesInv', DocsWriterInv'
  PROVE  DocsInv'
<1>1. writers' \in Nat
  BY DEF DocsWriterInv
<1>2. panicked' \in BOOLEAN
  BY DEF DocsWakesInv
<1>3. DocsTypeOK'
  BY <1>1, <1>2 DEF DocsTypeOK, FlagsOK
<1>4. QED
  BY <1>3 DEF DocsInv

LEMMA IntentsTyped ==
  /\ NoIntent \in Intents /\ Begin \in Intents /\ Repeated \in Intents /\ Pushed \in Intents
  /\ \A what \in {"none", "cut", "begin", "drop", "wake"}, x \in Conns \cup Wakes \cup {0} : <<what, x>> \in Intents
  BY DEF Intents, NoIntent, Begin, Repeated, Pushed

LEMMA DocsStarts == DocsInit => DocsInv
<1> SUFFICES ASSUME DocsInit PROVE DocsInv
  OBVIOUS
<1> USE DocsAssumption
<1>1. DocsTypeOK
  <2>1. FlagsOK
    BY DEF DocsInit, Started, FlagsOK
  <2>2. forcing \in [Forcers -> Intents]
    BY IntentsTyped DEF DocsInit
  <2>3. hadSession \in BOOLEAN /\ cutPending \in BOOLEAN /\ panicked \in BOOLEAN
    BY DEF DocsInit
  <2>4. stored \in [jar : 0..MaxPushes, merged : BOOLEAN] /\ pushed \in 0..MaxPushes /\ held \in 0..MaxPushes
    BY DEF DocsInit
  <2>5. QED
    BY <2>1, <2>2, <2>3, <2>4 DEF DocsInit, DocsTypeOK, Phases
<1>2. DocsWakesInv
  BY DEF DocsInit, DocsWakesInv, NoIntent
<1>3. DocsWriterInv
  BY DEF DocsInit, DocsWriterInv
<1>4. QED
  BY <1>1, <1>2, <1>3 DEF DocsInv

\* The steps of the connect goroutine.
DocsGoes ==
    \/ TakeSlot \/ Challenge \/ FetchOk \/ MergeCookies \/ FetchFails \/ FetchBlocked
    \/ DialOk \/ DialFails \/ CheckRunning \/ Publish \/ AuthOk \/ AuthFails
    \/ ReadFails \/ LeaveReadLoop \/ EmitRetrying

LEMMA DocsGoesKeeps == ASSUME DocsInv, DocsGoes PROVE DocsInv'
<1> USE DocsAssumption
<1>1. UNCHANGED <<running, stopping, waits, calls, pushed, cutPending>>
  BY DEF DocsGoes, TakeSlot, Challenge, FetchOk, MergeCookies, FetchFails, FetchBlocked, DialOk, DialFails,
     CheckRunning, Publish, AuthOk, AuthFails, ReadFails, LeaveReadLoop, EmitRetrying, flags, sockets, cookies
<1>2. UNCHANGED <<wake, awaited, closed, forcing, keepalive, panicked>>
  BY <1>1 DEF waits, calls
<1>3. connected' \in BOOLEAN
  BY DocsNow DEF DocsGoes, TakeSlot, Challenge, FetchOk, MergeCookies, FetchFails, FetchBlocked, DialOk, DialFails,
     CheckRunning, Publish, AuthOk, AuthFails, ReadFails, LeaveReadLoop, EmitRetrying, flags, Disconnected
<1>31. held' \in 0..MaxPushes /\ stored' \in [jar : 0..MaxPushes, merged : BOOLEAN]
  <2>1. held' \in {held, stored.jar, 0} /\ stored' \in {stored, [jar |-> held, merged |-> TRUE]}
    BY DEF DocsGoes, TakeSlot, Challenge, FetchOk, MergeCookies, FetchFails, FetchBlocked, DialOk, DialFails,
       CheckRunning, Publish, AuthOk, AuthFails, ReadFails, LeaveReadLoop, EmitRetrying, cookies
  <2>2. [jar |-> held, merged |-> TRUE] \in [jar : 0..MaxPushes, merged : BOOLEAN] /\ 0 \in 0..MaxPushes
    BY DocsNow
  <2>3. QED
    BY <2>1, <2>2, DocsNow
<1>4. loop' \in Phases
  BY DocsNow DEF DocsGoes, TakeSlot, Challenge, FetchOk, MergeCookies, FetchFails, FetchBlocked, DialOk, DialFails,
     CheckRunning, Publish, AuthOk, AuthFails, ReadFails, LeaveReadLoop, EmitRetrying, Schedule, Phases
<1>5. /\ conn' \in Conns \cup {0} /\ session' \in Conns \cup {0} /\ open' \subseteq Conns /\ hadSession' \in BOOLEAN
      /\ DocsWriterInv'
  <2>1. CASE TakeSlot
    BY <2>1, DocsNow DEF TakeSlot, DocsWriterInv
  <2>2. CASE Challenge \/ FetchOk \/ MergeCookies \/ FetchFails \/ FetchBlocked \/ DialFails \/ EmitRetrying
    <3>1. UNCHANGED <<conn, hadSession, session, open, writers>>
      BY <2>2 DEF Challenge, FetchOk, MergeCookies, FetchFails, FetchBlocked, DialFails, EmitRetrying, sockets
    <3>2. loop' \in {"challenged", "merge", "dial"} => loop \in {"fetch", "challenged", "merge"}
      BY <2>2 DEF Challenge, FetchOk, MergeCookies, FetchFails, FetchBlocked, DialFails, EmitRetrying, Schedule, Fetching
    <3>3. loop' \notin {"fetch", "check", "publish"}
      BY <2>2 DEF Challenge, FetchOk, MergeCookies, FetchFails, FetchBlocked, DialFails, EmitRetrying, Schedule
    <3>4. QED
      BY <3>1, <3>2, <3>3, DocsNow DEF DocsWriterInv
  <2>3. CASE DialOk
    BY <2>3, DocsNow DEF DialOk, DocsWriterInv
  <2>4. CASE CheckRunning
    BY <2>4, DocsNow DEF CheckRunning, DocsWriterInv
  <2>5. CASE Publish
    <3>1. loop = "publish" /\ loop' = "auth" /\ session' = conn /\ UNCHANGED <<conn, hadSession, open>>
          /\ writers' = IF hadSession THEN writers ELSE writers + 1
      BY <2>5 DEF Publish, WriterOnce
    <3>2. conn \in Conns /\ conn # 0 /\ hadSession = (session # 0) /\ writers = IF session = 0 THEN 0 ELSE 1
      BY <3>1, DocsNow DEF DocsWriterInv
    <3>3. writers' = 1
      <4>1. CASE session = 0
        <5>1. ~hadSession
          BY <3>2, <4>1
        <5>2. QED
          BY <3>1, <3>2, <4>1, <5>1
      <4>2. CASE session # 0
        <5>1. hadSession
          BY <3>2, <4>2
        <5>2. QED
          BY <3>1, <3>2, <4>2, <5>1
      <4>3. QED
        BY <4>1, <4>2
    <3>4. QED
      BY <3>1, <3>2, <3>3, DocsNow DEF DocsWriterInv
  <2>6. CASE AuthOk \/ AuthFails \/ ReadFails \/ LeaveReadLoop
    <3>1. UNCHANGED <<hadSession, session, writers>> /\ conn' \in {conn, 0} /\ open' \subseteq open
      BY <2>6 DEF AuthOk, AuthFails, ReadFails, LeaveReadLoop, sockets
    <3>2. loop' \in {"live", "retryOther", "ended"}
      BY <2>6 DEF AuthOk, AuthFails, ReadFails, LeaveReadLoop, Schedule
    <3>3. QED
      BY <3>1, <3>2, DocsNow DEF DocsWriterInv
  <2>7. QED
    BY <2>1, <2>2, <2>3, <2>4, <2>5, <2>6 DEF DocsGoes
<1>6. DocsWakesInv'
  BY <1>2, DocsNow DEF DocsWakesInv
<1>7. UNCHANGED <<running, stopping, pushed, cutPending>>
  BY <1>1
<1>8. QED
  BY <1>2, <1>3, <1>4, <1>5, <1>6, <1>7, <1>31, DocsNow, DocsOK

\* The steps that touch the wait.
LEMMA DocsWaitKeeps == ASSUME DocsInv, Arm \/ WaitEnds(TRUE) \/ WaitEnds(FALSE) PROVE DocsInv'
<1> USE DocsAssumption
<1>1. UNCHANGED <<running, connected, stopping, conn, hadSession, session, open, writers, forcing, keepalive, panicked,
                  pushed, stored, held>>
  BY DEF Arm, WaitEnds, flags, sockets, calls, cookies
<1>2. loop' \in {"wait", "slot", "ended"} /\ cutPending' \in BOOLEAN
  BY DocsNow DEF Arm, WaitEnds, cookies
<1>3. awaited' \in Wakes \cup {0} /\ wake' \in {0, awaited'} /\ closed' \subseteq Wakes /\ DocsWakesInv'
  <2>1. CASE Arm
    <3>1. PICK w \in Wakes \ HeldWakes : wake' = w /\ awaited' = w /\ closed' = closed \ {w}
      BY <2>1 DEF Arm
    <3>2. \A f \in Forcers : forcing[f][1] = "wake" => forcing[f][2] # w
      BY <3>1 DEF HeldWakes, About
    <3>3. QED
      BY <1>1, <3>1, <3>2, DocsNow DEF DocsWakesInv
  <2>2. CASE WaitEnds(TRUE) \/ WaitEnds(FALSE)
    <3>1. wake' = Unpublished /\ awaited' = 0 /\ closed' = closed
      BY <2>2 DEF WaitEnds
    <3>2. wake' = 0
      BY <3>1, DocsNow DEF Unpublished
    <3>3. QED
      BY <1>1, <3>1, <3>2, DocsNow DEF DocsWakesInv
  <2>3. QED
    BY <2>1, <2>2
<1>4. loop' \in Phases
  BY <1>2 DEF Phases
<1>5. DocsWriterInv'
  BY <1>1, <1>2, DocsNow DEF DocsWriterInv
<1>6. QED
  BY <1>1, <1>2, <1>3, <1>4, <1>5, DocsNow, DocsOK

\* The callers of ForceReconnect and ProvideCookies.
LEMMA DocsCallsKeep ==
  ASSUME DocsInv, NEW f \in Forcers, ForceReconnect(f) \/ ForceBegins(f) \/ ForceEnds(f) \/ Push(f) \/ DecideCut(f)
  PROVE  DocsInv'
<1> USE DocsAssumption
<1>1. UNCHANGED <<running, connected, stopping, loop, conn, hadSession, session, writers, awaited, keepalive, held>>
  BY DEF ForceReconnect, ForceBegins, ForceEnds, Push, ProvideCookies, DecideCut, flags, sockets, waits, calls, cookies
<1>2. DocsWriterInv'
  BY <1>1, DocsNow DEF DocsWriterInv
<1>3. pushed' \in 0..MaxPushes /\ stored' \in [jar : 0..MaxPushes, merged : BOOLEAN] /\ cutPending' \in BOOLEAN
  <2>1. CASE Push(f)
    BY <2>1, DocsNow DEF Push, ProvideCookies
  <2>2. CASE ~Push(f)
    BY <2>2, DocsNow DEF ForceReconnect, ForceBegins, ForceEnds, DecideCut, cookies
  <2>3. QED
    BY <2>1, <2>2
<1>4. /\ open' \subseteq Conns /\ wake' \in {0, wake} /\ closed' \subseteq Wakes
      /\ forcing' \in [Forcers -> Intents] /\ DocsWakesInv'
  <2>1. CASE ForceReconnect(f) \/ Push(f) \/ DecideCut(f)
    <3>1. UNCHANGED <<open, wake, closed, panicked>>
      BY <2>1 DEF ForceReconnect, Push, ProvideCookies, DecideCut, sockets, waits
    <3>2. PICK x \in {NoIntent, Begin, Repeated, Pushed} : forcing' = [forcing EXCEPT ![f] = x]
      BY <2>1 DEF ForceReconnect, Push, ProvideCookies, DecideCut
    <3>3. x \in Intents /\ x[1] # "wake"
      BY IntentsTyped DEF NoIntent, Begin, Repeated, Pushed
    <3>4. QED
      BY <3>1, <3>2, <3>3, DocsNow DEF DocsWakesInv
  <2>2. CASE ForceBegins(f)
    <3>1. UNCHANGED <<open, closed, panicked>> /\ wake' = 0
      BY <2>2 DEF ForceBegins, ClaimsWake, sockets
    <3>2. PICK x \in {<<"drop", session>>, <<"wake", wake>>, NoIntent} :
             forcing' = [forcing EXCEPT ![f] = x] /\ (x[1] = "wake" => x = <<"wake", wake>> /\ wake # 0)
      BY <2>2 DEF ForceBegins, NoIntent
    <3>3. x \in Intents
      BY <3>2, IntentsTyped, DocsNow
    <3>4. \A g \in Forcers : forcing'[g] = IF g = f THEN x ELSE forcing[g]
      BY <3>2, DocsNow
    <3>5. DocsWakesInv'
      <4>1. panicked' = FALSE
        BY <3>1, DocsNow DEF DocsWakesInv
      <4>2. ASSUME NEW g \in Forcers, forcing'[g][1] = "wake"
            PROVE  /\ forcing'[g][2] \in Wakes /\ forcing'[g][2] \notin closed' /\ forcing'[g][2] # wake'
                   /\ \A h \in Forcers : forcing'[h][1] = "wake" /\ forcing'[h][2] = forcing'[g][2] => h = g
        <5>1. CASE g = f
          <6>1. forcing'[g][2] = wake /\ wake # 0
            BY <3>2, <3>4, <4>2, <5>1
          <6>2. QED
            BY <3>1, <3>4, <5>1, <6>1, DocsNow DEF DocsWakesInv
        <5>2. CASE g # f
          <6>1. forcing'[g] = forcing[g]
            BY <3>4, <5>2
          <6>2. /\ forcing[g][2] \in Wakes /\ forcing[g][2] \notin closed /\ forcing[g][2] # wake
                /\ \A h \in Forcers : forcing[h][1] = "wake" /\ forcing[h][2] = forcing[g][2] => h = g
            BY <4>2, <6>1, DocsNow DEF DocsWakesInv
          <6>3. forcing'[f][1] = "wake" => forcing'[f][2] = wake
            BY <3>2, <3>4
          <6>4. forcing[g][2] # 0
            BY <6>2
          <6>5. QED
            BY <3>1, <3>4, <5>2, <6>1, <6>2, <6>3, <6>4
        <5>3. QED
          BY <5>1, <5>2
      <4>3. QED
        BY <3>1, <4>1, <4>2 DEF DocsWakesInv
    <3>6. QED
      BY <3>1, <3>2, <3>3, <3>5, DocsNow
  <2>3. CASE ForceEnds(f)
    <3>1. wake' = wake /\ forcing' = [forcing EXCEPT ![f] = NoIntent] /\ open' \subseteq open
      BY <2>3 DEF ForceEnds
    <3>2. CASE forcing[f][1] = "drop"
      <4>1. UNCHANGED <<closed, panicked>>
        BY <2>3, <3>2 DEF ForceEnds
      <4>2. QED
        BY <3>1, <4>1, IntentsTyped, DocsNow DEF DocsWakesInv, NoIntent
    <3>3. CASE forcing[f][1] # "drop"
      <4>1. forcing[f][1] = "wake" /\ panicked' = (forcing[f][2] \in closed) /\ closed' = closed \cup {forcing[f][2]}
        BY <2>3, <3>3 DEF ForceEnds
      <4>2. forcing[f][2] \in Wakes /\ forcing[f][2] \notin closed /\ forcing[f][2] # wake
        BY <4>1, DocsNow DEF DocsWakesInv
      <4>3. panicked' = FALSE
        <5>1. (forcing[f][2] \in closed) = FALSE
          BY <4>2
        <5>2. QED
          BY <4>1, <5>1
      <4>4. QED
        BY <3>1, <4>1, <4>2, <4>3, IntentsTyped, DocsNow DEF DocsWakesInv, NoIntent
    <3>4. QED
      BY <3>2, <3>3
  <2>4. QED
    BY <2>1, <2>2, <2>3
<1>5. QED
  BY <1>1, <1>2, <1>3, <1>4, DocsNow, DocsOK

\* The keepalive, the writer and Stop.
DocsOthers == WriteFails \/ KeepaliveFails \/ KeepaliveGivesUp \/ StopFlags \/ StopCloses

LEMMA DocsOthersKeep == ASSUME DocsInv, DocsOthers PROVE DocsInv'
<1>1. /\ UNCHANGED <<loop, conn, hadSession, session, writers, wake, awaited, closed, forcing, panicked, pushed, stored,
                     held, cutPending>>
      /\ open' \subseteq open
  BY DEF DocsOthers, WriteFails, KeepaliveFails, KeepaliveGivesUp, StopFlags, StopCloses, flags, sockets, waits, calls,
     cookies
<1>2. /\ keepalive' \in {keepalive, session, 0} /\ stopping' \in {stopping, "flagged", "done"}
      /\ running' \in {running, FALSE} /\ connected' \in {connected, FALSE}
  BY DEF DocsOthers, WriteFails, KeepaliveFails, KeepaliveGivesUp, StopFlags, StopCloses, flags, calls, Stopped
<1>3. running' \in BOOLEAN /\ connected' \in BOOLEAN
  BY <1>2, DocsNow
<1>4. DocsWakesInv' /\ DocsWriterInv'
  BY <1>1, DocsNow DEF DocsWakesInv, DocsWriterInv
<1>5. QED
  BY <1>1, <1>2, <1>3, <1>4, DocsNow, DocsOK

LEMMA DocsKeep == DocsInv /\ [DocsNext]_docsVars => DocsInv'
<1> SUFFICES ASSUME DocsInv, [DocsNext]_docsVars PROVE DocsInv'
  OBVIOUS
<1>1. CASE UNCHANGED docsVars
  <2>1. UNCHANGED <<running, connected, stopping, loop, conn, hadSession, session, open, writers, wake, awaited, closed,
                    forcing, keepalive, panicked, pushed, stored, held, cutPending>>
    BY <1>1 DEF docsVars, flags, sockets, waits, calls, cookies
  <2>2. DocsWakesInv' /\ DocsWriterInv'
    BY <2>1, DocsNow DEF DocsWakesInv, DocsWriterInv
  <2>3. QED
    BY <2>1, <2>2, DocsNow, DocsOK
<1>2. CASE DocsGoes
  BY <1>2, DocsGoesKeeps
<1>3. CASE Arm \/ WaitEnds(TRUE) \/ WaitEnds(FALSE)
  BY <1>3, DocsWaitKeeps
<1>4. CASE \E f \in Forcers : ForceReconnect(f) \/ ForceBegins(f) \/ ForceEnds(f) \/ Push(f) \/ DecideCut(f)
  BY <1>4, DocsCallsKeep
<1>5. CASE DocsOthers
  BY <1>5, DocsOthersKeep
<1>6. QED
  BY <1>1, <1>2, <1>3, <1>4, <1>5 DEF DocsNext, DocsGoes, DocsOthers

\* No wait of the document carrier is ended twice, and the queue has one writer.
\* Another carrier, or none, moves.
LEMMA DocsStay == ASSUME DocsInv, UNCHANGED docsOwn, FlagsOK' PROVE DocsInv'
<1>1. UNCHANGED <<stopping, conn, hadSession, session, open, writers, loop, wake, awaited, closed, forcing, keepalive,
                  panicked, pushed, stored, held, cutPending>>
  BY DEF docsOwn, sockets, waits, calls, cookies
<1>2. DocsWakesInv' /\ DocsWriterInv'
  BY <1>1, DocsNow DEF DocsWakesInv, DocsWriterInv
<1>3. QED
  BY <1>1, <1>2, DocsNow, DocsOK DEF FlagsOK

LEMMA DocsShow == DocsInv => DocsTypeOK /\ WakesOnce /\ OneWriter
<1> SUFFICES ASSUME DocsInv PROVE WakesOnce /\ OneWriter
  BY DEF DocsInv
<1>1. WakesOnce
  BY DocsNow DEF DocsWakesInv, WakesOnce
<1>2. OneWriter
  BY DocsNow DEF DocsWriterInv, OneWriter
<1>3. QED
  BY <1>1, <1>2

LEMMA DocsGo == ASSUME DocsInv, [DocsNext]_docsVars PROVE MayGo(Phase, connected, Phase', connected')
<1>1. CASE UNCHANGED docsVars
  BY <1>1 DEF docsVars, flags, Phase, MayGo
<1>2. CASE DocsGoes
  <2>1. CASE TakeSlot \/ Challenge \/ FetchOk \/ MergeCookies \/ FetchFails \/ FetchBlocked \/ DialOk \/ DialFails
    BY <2>1 DEF TakeSlot, Challenge, FetchOk, MergeCookies, FetchFails, FetchBlocked, DialOk, DialFails, Schedule,
       Fetching, flags, Phase, MayGo
  <2>2. CASE CheckRunning \/ Publish \/ AuthOk \/ AuthFails
    BY <2>2 DEF CheckRunning, Publish, AuthOk, AuthFails, Schedule, flags, Phase, MayGo
  <2>3. CASE ReadFails \/ LeaveReadLoop \/ EmitRetrying
    BY <2>3 DEF ReadFails, LeaveReadLoop, EmitRetrying, Schedule, Disconnected, flags, Phase, MayGo
  <2>4. QED
    BY <1>2, <2>1, <2>2, <2>3 DEF DocsGoes
<1>3. CASE Arm \/ WaitEnds(TRUE) \/ WaitEnds(FALSE)
  BY <1>3 DEF Arm, WaitEnds, flags, Phase, MayGo
<1>4. CASE \E f \in Forcers : ForceReconnect(f) \/ ForceBegins(f) \/ ForceEnds(f) \/ Push(f) \/ DecideCut(f)
  <2>1. UNCHANGED <<loop, connected>>
    BY <1>4 DEF ForceReconnect, ForceBegins, ForceEnds, Push, ProvideCookies, DecideCut, flags
  <2>2. QED
    BY <2>1 DEF Phase, MayGo
<1>5. CASE DocsOthers
  <2>1. loop' = loop /\ connected' \in {connected, FALSE}
    BY <1>5 DEF DocsOthers, WriteFails, KeepaliveFails, KeepaliveGivesUp, StopFlags, StopCloses, flags, Stopped
  <2>2. Phase' = Phase
    BY <2>1 DEF Phase
  <2>3. CASE connected' = connected
    BY <2>2, <2>3 DEF MayGo
  <2>4. CASE connected' # connected
    <3>1. connected /\ connected' = FALSE
      BY <2>1, <2>4, DocsNow
    <3>2. QED
      BY <2>2, <3>1 DEF MayGo
  <2>5. QED
    BY <2>3, <2>4
<1>6. QED
  BY <1>1, <1>2, <1>3, <1>4, <1>5 DEF DocsNext, DocsGoes, DocsOthers

\* The document carrier reports what becomes of its attempts in the order a carrier promises,
\* whoever forces it, pushes cookies or stops it meanwhile.
THEOREM DocsKeepsOrder == DocsSpec => KeepsOrder
<1>1. DocsSpec => []DocsInv
  BY DocsStarts, DocsKeep, PTL DEF DocsSpec
<1>2. DocsInit => Promised!CarrierInit
  BY DEF DocsInit, Started, Promised!CarrierInit, Phase
<1>3. DocsInv /\ [DocsNext]_docsVars => [Promised!CarrierNext]_(Promised!carrierVars)
  <2> SUFFICES ASSUME DocsInv, [DocsNext]_docsVars PROVE [Promised!CarrierNext]_(Promised!carrierVars)
    OBVIOUS
  <2>1. MayGo(Phase, connected, Phase', connected')
    BY DocsGo
  <2>2. QED
    BY <2>1 DEF MayGo, Promised!CarrierNext, Promised!carrierVars, Promised!Challenged, Promised!Solved,
       Promised!ComesUp, Promised!Fails, Promised!Blocked, Promised!Reports, Promised!TriesAgain,
       Promised!Disconnects, Promised!Ends
<1>4. QED
  BY <1>1, <1>2, <1>3, PTL DEF DocsSpec, KeepsOrder, Promised!CarrierSpec

----------------------------------------------------------------------------
(* The whiteboard carrier.                                                 *)

\* As for the documents: what is about to be closed is open, and nobody else's.
BoardsWakesInv ==
    /\ boardsPanicked = FALSE
    /\ boardsWake.shown # 0 => boardsWake.shown \notin boardsClosed
    /\ \A f \in BoardsForcers : boardsForcing[f].wake # 0 =>
         /\ boardsForcing[f].wake \notin boardsClosed /\ boardsForcing[f].wake # boardsWake.shown
         /\ \A g \in BoardsForcers : boardsForcing[g].wake = boardsForcing[f].wake => g = f

BoardsInv == FlagsOK /\ BoardsTypeOK /\ BoardsWakesInv /\ ShownIsServed

BoardsAt == {"slot", "page", "challenged", "token", "dial", "handshake", "live", "failed", "arm", "wait", "ended"}
BoardsCall == [sets : BOOLEAN, wake : BoardsWakes \cup {0}]
BoardsWait == [awaited : BoardsWakes \cup {0}, shown : BoardsWakes \cup {0}]
BoardsJars == [pushed : 0..MaxBoardsJars, stored : 0..MaxBoardsJars, used : 0..MaxBoardsJars]

LEMMA BoardsNow ==
  ASSUME BoardsInv
  PROVE  /\ running \in BOOLEAN /\ connected \in BOOLEAN
         /\ boardsDone \in BOOLEAN /\ boardsStopping \in {"no", "closing", "flags", "done"} /\ boardsLoop \in BoardsAt
         /\ boardsShown \in BOOLEAN /\ boardsSocket \in {"none", "open", "closed"} /\ boardsWriters \in 0..MaxWriters
         /\ boardsWake \in BoardsWait /\ boardsWake.shown \in {0, boardsWake.awaited} /\ boardsClosed \subseteq BoardsWakes
         /\ boardsForcing \in [BoardsForcers -> BoardsCall] /\ boardsJar \in BoardsJars
         /\ boardsFault \in {"none", "captcha", "solver", "other"} /\ boardsPanicked \in BOOLEAN
         /\ BoardsWakesInv /\ ShownIsServed
  BY DEF BoardsInv, BoardsTypeOK, FlagsOK, BoardsAt, BoardsCall, BoardsWait, BoardsJars

LEMMA BoardsOK ==
  ASSUME running' \in BOOLEAN, connected' \in BOOLEAN,
         boardsDone' \in BOOLEAN, boardsStopping' \in {"no", "closing", "flags", "done"}, boardsLoop' \in BoardsAt,
         boardsShown' \in BOOLEAN, boardsSocket' \in {"none", "open", "closed"}, boardsWriters' \in 0..MaxWriters,
         boardsWake' \in BoardsWait, boardsWake'.shown \in {0, boardsWake'.awaited}, boardsClosed' \subseteq BoardsWakes,
         boardsForcing' \in [BoardsForcers -> BoardsCall], boardsJar' \in BoardsJars,
         boardsFault' \in {"none", "captcha", "solver", "other"}, BoardsWakesInv', ShownIsServed'
  PROVE  BoardsInv'
<1>1. boardsPanicked' \in BOOLEAN
  BY DEF BoardsWakesInv
<1>2. BoardsTypeOK'
  BY <1>1 DEF BoardsTypeOK, BoardsAt, BoardsCall, BoardsWait, BoardsJars
<1>3. QED
  BY <1>2 DEF BoardsInv, FlagsOK

LEMMA BoardsStarts == Started /\ BoardsInit => BoardsInv
<1> SUFFICES ASSUME Started, BoardsInit PROVE BoardsInv
  OBVIOUS
<1> USE BoardsAssumption
<1>1. FlagsOK
  BY DEF Started, FlagsOK
<1>2. BoardsTypeOK
  <2>1. boardsDone \in BOOLEAN /\ boardsShown \in BOOLEAN /\ boardsPanicked \in BOOLEAN
    BY DEF BoardsInit
  <2>2. boardsForcing \in [BoardsForcers -> [sets : BOOLEAN, wake : BoardsWakes \cup {0}]]
    BY DEF BoardsInit, NotForcing
  <2>3. boardsWake \in [awaited : BoardsWakes \cup {0}, shown : BoardsWakes \cup {0}] /\ boardsWake.shown = 0
    BY DEF BoardsInit, NoWake
  <2>4. boardsJar \in [pushed : 0..MaxBoardsJars, stored : 0..MaxBoardsJars, used : 0..MaxBoardsJars]
    BY DEF BoardsInit
  <2>5. QED
    BY <2>1, <2>2, <2>3, <2>4 DEF BoardsInit, BoardsTypeOK
<1>3. BoardsWakesInv
  BY DEF BoardsInit, BoardsWakesInv, NotForcing, NoWake
<1>4. ShownIsServed
  BY DEF BoardsInit, ShownIsServed
<1>5. QED
  BY <1>1, <1>2, <1>3, <1>4 DEF BoardsInv

\* The steps of an attempt that neither publish a session nor clear it.
BoardsTries ==
    \/ BoardsSlot \/ BoardsChallenge \/ BoardsPage \/ BoardsBlocked \/ BoardsToken \/ BoardsAttemptFails
    \/ BoardsRetrying

LEMMA BoardsTriesKeep == ASSUME BoardsInv, BoardsTries PROVE BoardsInv'
<1> USE BoardsAssumption
<1>1. UNCHANGED <<running, connected, boardsEnd, boardsLink, boardsWaiting>>
  BY DEF BoardsTries, BoardsSlot, BoardsChallenge, BoardsPage, BoardsBlocked, BoardsToken, BoardsAttemptFails,
     BoardsRetrying
<1>2. UNCHANGED <<running, connected, boardsDone, boardsStopping, boardsShown, boardsSocket, boardsWriters, boardsWake,
                  boardsClosed, boardsForcing, boardsPanicked>>
  BY <1>1 DEF boardsEnd, boardsLink, boardsWaiting
<1>3. /\ boardsLoop \notin {"handshake", "live"} /\ boardsLoop' \in BoardsAt \ {"handshake", "live"}
      /\ boardsFault' \in {boardsFault, "captcha", "solver", "other"}
  BY DEF BoardsTries, BoardsSlot, BoardsChallenge, BoardsPage, BoardsBlocked, BoardsToken, BoardsAttemptFails,
     BoardsRetrying, LoopGoes, Fault, BoardsAt
<1>4. boardsJar' \in BoardsJars
  <2>1. /\ boardsJar.stored \in 0..MaxBoardsJars /\ boardsJar.used \in 0..MaxBoardsJars /\ 0 \in 0..MaxBoardsJars
        /\ Merged \in 0..MaxBoardsJars
    BY BoardsNow DEF BoardsJars, Merged
  <2>2. boardsJar' \in {boardsJar, [boardsJar EXCEPT !.used = boardsJar.stored], [boardsJar EXCEPT !.used = 0],
                       [boardsJar EXCEPT !.stored = Merged, !.used = 0]}
    BY DEF BoardsTries, BoardsSlot, BoardsChallenge, BoardsPage, BoardsBlocked, BoardsToken, BoardsAttemptFails,
       BoardsRetrying, Fault
  <2>3. /\ [boardsJar EXCEPT !.used = boardsJar.stored] \in BoardsJars /\ [boardsJar EXCEPT !.used = 0] \in BoardsJars
        /\ [boardsJar EXCEPT !.stored = Merged, !.used = 0] \in BoardsJars
    BY <2>1, BoardsNow DEF BoardsJars
  <2>4. QED
    BY <2>2, <2>3, BoardsNow
<1>5. BoardsWakesInv' /\ ShownIsServed'
  BY <1>2, <1>3, BoardsNow DEF BoardsWakesInv, ShownIsServed
<1>6. QED
  BY <1>2, <1>3, <1>4, <1>5, BoardsNow, BoardsOK

\* The life of a session.
BoardsServes ==
    \/ BoardsDial \/ BoardsHandshakeFails \/ BoardsHandshake \/ BoardsServeEnds \/ BoardsWriteFails \/ BoardsWriterEnds

LEMMA BoardsServesKeep == ASSUME BoardsInv, BoardsServes PROVE BoardsInv'
<1> USE BoardsAssumption
<1>1. UNCHANGED <<running, boardsEnd, boardsWaiting>>
  BY DEF BoardsServes, BoardsDial, BoardsHandshakeFails, BoardsHandshake, BoardsServeEnds, BoardsWriteFails,
     BoardsWriterEnds
<1>2. UNCHANGED <<running, boardsDone, boardsStopping, boardsWake, boardsClosed, boardsForcing, boardsPanicked>>
  BY <1>1 DEF boardsEnd, boardsWaiting
<1>3. /\ connected' \in {connected, TRUE, FALSE} /\ boardsShown' \in {boardsShown, TRUE, FALSE}
      /\ boardsSocket' \in {"none", "open", "closed"} /\ boardsLoop' \in {boardsLoop, "handshake", "failed", "live"}
      /\ boardsFault' \in {boardsFault, "other"}
  BY BoardsNow DEF BoardsServes, BoardsDial, BoardsHandshakeFails, BoardsHandshake, BoardsServeEnds, BoardsWriteFails,
     BoardsWriterEnds, LoopGoes, Fault, Cleared
<1>4. boardsWriters' \in 0..MaxWriters
  BY BoardsNow DEF BoardsServes, BoardsDial, BoardsHandshakeFails, BoardsHandshake, BoardsServeEnds, BoardsWriteFails,
     BoardsWriterEnds
<1>5. boardsJar' \in BoardsJars
  <2>1. boardsJar' \in {boardsJar, [boardsJar EXCEPT !.used = 0]}
    BY DEF BoardsServes, BoardsDial, BoardsHandshakeFails, BoardsHandshake, BoardsServeEnds, BoardsWriteFails,
       BoardsWriterEnds, Fault
  <2>2. QED
    BY <2>1, BoardsNow DEF BoardsJars
<1>6. ShownIsServed'
  <2>1. CASE BoardsDial \/ BoardsHandshakeFails \/ BoardsServeEnds
    BY <2>1 DEF BoardsDial, BoardsHandshakeFails, BoardsServeEnds, LoopGoes, Fault, Cleared, ShownIsServed
  <2>2. CASE BoardsHandshake
    BY <2>2, BoardsNow DEF BoardsHandshake, LoopGoes, ShownIsServed
  <2>3. CASE BoardsWriteFails \/ BoardsWriterEnds
    BY <2>3, BoardsNow DEF BoardsWriteFails, BoardsWriterEnds, ShownIsServed
  <2>4. QED
    BY <2>1, <2>2, <2>3 DEF BoardsServes
<1>7. BoardsWakesInv'
  BY <1>2, BoardsNow DEF BoardsWakesInv
<1>8. connected' \in BOOLEAN /\ boardsShown' \in BOOLEAN
  BY <1>3, BoardsNow
<1>9. boardsLoop' \in BoardsAt
  BY <1>3, BoardsNow DEF BoardsAt
<1>10. QED
  BY <1>2, <1>3, <1>4, <1>5, <1>6, <1>7, <1>8, <1>9, BoardsNow, BoardsOK

LEMMA BoardsWaitKeeps == ASSUME BoardsInv, BoardsArm \/ BoardsWaitEnds PROVE BoardsInv'
<1> USE BoardsAssumption
<1>1. UNCHANGED <<running, connected, boardsEnd, boardsLink, boardsForcing, boardsPanicked, boardsJar>>
  BY DEF BoardsArm, BoardsWaitEnds
<1>2. UNCHANGED <<running, connected, boardsDone, boardsStopping, boardsShown, boardsSocket, boardsWriters,
                  boardsForcing, boardsPanicked, boardsJar>>
  BY <1>1 DEF boardsEnd, boardsLink
<1>3. /\ boardsLoop \in {"arm", "wait"} /\ boardsLoop' \in {"wait", "slot", "ended"}
      /\ boardsFault' \in {boardsFault, "none"}
  BY DEF BoardsArm, BoardsWaitEnds, LoopGoes
<1>4. /\ boardsWake' \in BoardsWait /\ boardsWake'.shown \in {0, boardsWake'.awaited} /\ boardsClosed' \subseteq BoardsWakes
      /\ BoardsWakesInv'
  <2>1. CASE BoardsArm
    <3>1. PICK w \in BoardsWakes \ HeldBoardsWakes :
             boardsWake' = [awaited |-> w, shown |-> w] /\ boardsClosed' = boardsClosed \ {w}
      BY <2>1 DEF BoardsArm
    <3>2. \A f \in BoardsForcers : boardsForcing[f].wake # w
      BY <3>1 DEF HeldBoardsWakes
    <3>3. boardsWake' \in BoardsWait /\ boardsWake'.shown = w /\ boardsWake'.awaited = w
      BY <3>1 DEF BoardsWait
    <3>4. QED
      BY <1>2, <3>1, <3>2, <3>3, BoardsNow DEF BoardsWakesInv
  <2>2. CASE BoardsWaitEnds
    <3>1. boardsWake' \in {boardsWake, NoWake} /\ boardsClosed' = boardsClosed
      BY <2>2 DEF BoardsWaitEnds
    <3>2. NoWake \in BoardsWait /\ NoWake.shown = 0 /\ NoWake.awaited = 0
      BY DEF NoWake, BoardsWait
    <3>3. QED
      BY <1>2, <3>1, <3>2, BoardsNow DEF BoardsWakesInv
  <2>3. QED
    BY <2>1, <2>2
<1>5. ShownIsServed'
  BY <1>2, <1>3, BoardsNow DEF ShownIsServed
<1>6. boardsLoop' \in BoardsAt
  BY <1>3 DEF BoardsAt
<1>7. QED
  BY <1>2, <1>3, <1>4, <1>5, <1>6, BoardsNow, BoardsOK

LEMMA BoardsCallsKeep ==
  ASSUME BoardsInv, NEW f \in BoardsForcers, BoardsPush(f) \/ BoardsForce(f) \/ BoardsCloseWake(f)
  PROVE  BoardsInv'
<1> USE BoardsAssumption
<1>1. UNCHANGED <<running, connected, boardsEnd, boardsLoop, boardsShown, boardsWriters, boardsFault>>
  BY DEF BoardsPush, BoardsForce, BoardsCloseWake, boardsLink
<1>2. UNCHANGED <<running, connected, boardsDone, boardsStopping, boardsLoop, boardsShown, boardsWriters, boardsFault>>
  BY <1>1 DEF boardsEnd
<1>3. boardsSocket' \in {boardsSocket, "closed"}
  BY DEF BoardsPush, BoardsForce, BoardsCloseWake, boardsLink
<1>4. boardsJar' \in BoardsJars
  <2>1. CASE BoardsPush(f)
    <3>1. PICK j \in {boardsJar.pushed, boardsJar.pushed + 1} \cap 1..MaxBoardsJars :
             boardsJar' = [boardsJar EXCEPT !.pushed = j, !.stored = j]
      BY <2>1 DEF BoardsPush
    <3>2. j \in 0..MaxBoardsJars
      BY <3>1
    <3>3. QED
      BY <3>1, <3>2, BoardsNow DEF BoardsJars
  <2>2. CASE ~BoardsPush(f)
    BY <2>2, BoardsNow DEF BoardsForce, BoardsCloseWake
  <2>3. QED
    BY <2>1, <2>2
<1>5. /\ boardsWake' \in BoardsWait /\ boardsWake'.shown \in {0, boardsWake'.awaited} /\ boardsClosed' \subseteq BoardsWakes
      /\ boardsForcing' \in [BoardsForcers -> BoardsCall] /\ BoardsWakesInv'
  <2>0. NotForcing \in BoardsCall /\ NotForcing.wake = 0
    BY DEF NotForcing, BoardsCall
  <2>1. CASE BoardsPush(f)
    <3>1. UNCHANGED <<boardsWake, boardsClosed, boardsPanicked>> /\ boardsForcing' = [boardsForcing EXCEPT ![f].sets = TRUE]
      BY <2>1 DEF BoardsPush
    <3>2. boardsForcing' \in [BoardsForcers -> BoardsCall] /\ \A g \in BoardsForcers : boardsForcing'[g].wake = boardsForcing[g].wake
      BY <3>1, BoardsNow DEF BoardsCall
    <3>3. QED
      BY <3>1, <3>2, BoardsNow DEF BoardsWakesInv
  <2>2. CASE BoardsForce(f) /\ boardsShown
    <3>1. /\ UNCHANGED <<boardsWake, boardsClosed, boardsPanicked>>
          /\ boardsForcing' = [boardsForcing EXCEPT ![f] = NotForcing]
      BY <2>2 DEF BoardsForce
    <3>2. QED
      BY <2>0, <3>1, BoardsNow DEF BoardsWakesInv
  <2>3. CASE BoardsForce(f) /\ ~boardsShown
    <3> DEFINE w == boardsWake.shown
               x == [sets |-> FALSE, wake |-> w]
    <3>1. /\ UNCHANGED <<boardsClosed, boardsPanicked>> /\ boardsWake' = [boardsWake EXCEPT !.shown = 0]
          /\ boardsForcing' = [boardsForcing EXCEPT ![f] = x]
      BY <2>3 DEF BoardsForce, ClaimsBoardsWake
    <3>2. boardsWake' \in BoardsWait /\ boardsWake'.shown = 0
      BY <3>1, BoardsNow DEF BoardsWait
    <3>3. x \in BoardsCall /\ x.wake = w
      BY BoardsNow DEF BoardsCall, BoardsWait
    <3> HIDE DEF x
    <3>4. /\ boardsForcing' \in [BoardsForcers -> BoardsCall]
          /\ \A g \in BoardsForcers : boardsForcing'[g] = IF g = f THEN x ELSE boardsForcing[g]
      BY <3>1, <3>3, BoardsNow
    <3>5. w # 0 => w \notin boardsClosed /\ \A g \in BoardsForcers : boardsForcing[g].wake # w
      BY BoardsNow DEF BoardsWakesInv
    <3>6. ASSUME NEW g \in BoardsForcers, boardsForcing'[g].wake # 0
          PROVE  /\ boardsForcing'[g].wake \notin boardsClosed' /\ boardsForcing'[g].wake # boardsWake'.shown
                 /\ \A h \in BoardsForcers : boardsForcing'[h].wake = boardsForcing'[g].wake => h = g
      <4>1. CASE g = f
        BY <3>1, <3>2, <3>3, <3>4, <3>5, <3>6, <4>1
      <4>2. CASE g # f
        <5>1. boardsForcing'[g] = boardsForcing[g]
          BY <3>4, <4>2
        <5>2. /\ boardsForcing[g].wake \notin boardsClosed /\ boardsForcing[g].wake # w
              /\ \A h \in BoardsForcers : boardsForcing[h].wake = boardsForcing[g].wake => h = g
          BY <3>6, <5>1, BoardsNow DEF BoardsWakesInv
        <5>3. QED
          BY <3>1, <3>2, <3>3, <3>4, <3>6, <4>2, <5>1, <5>2
      <4>3. QED
        BY <4>1, <4>2
    <3>7. boardsPanicked' = FALSE
      BY <3>1, BoardsNow DEF BoardsWakesInv
    <3>8. BoardsWakesInv'
      BY <3>2, <3>6, <3>7 DEF BoardsWakesInv
    <3>9. QED
      BY <3>1, <3>2, <3>4, <3>8, BoardsNow
  <2>4. CASE BoardsCloseWake(f)
    <3> DEFINE w == boardsForcing[f].wake
    <3>1. /\ w # 0 /\ boardsPanicked' = (w \in boardsClosed) /\ boardsClosed' = boardsClosed \cup {w}
          /\ boardsForcing' = [boardsForcing EXCEPT ![f] = NotForcing] /\ boardsWake' = boardsWake
      BY <2>4 DEF BoardsCloseWake
    <3>2. w \in BoardsWakes /\ w \notin boardsClosed /\ w # boardsWake.shown
      BY <3>1, BoardsNow DEF BoardsWakesInv, BoardsCall
    <3>3. boardsPanicked' = FALSE
      <4>1. (w \in boardsClosed) = FALSE
        BY <3>2
      <4>2. QED
        BY <3>1, <4>1
    <3>4. QED
      BY <2>0, <3>1, <3>2, <3>3, BoardsNow DEF BoardsWakesInv
  <2>5. QED
    BY <2>1, <2>2, <2>3, <2>4
<1>6. ShownIsServed'
  BY <1>2, BoardsNow DEF ShownIsServed
<1>7. QED
  BY <1>2, <1>3, <1>4, <1>5, <1>6, BoardsNow, BoardsOK

LEMMA BoardsStopKeeps == ASSUME BoardsInv, BoardsStop \/ BoardsStopCloses \/ BoardsStopFlags PROVE BoardsInv'
<1>1. /\ UNCHANGED <<boardsLoop, boardsShown, boardsWriters, boardsWaiting, boardsJar, boardsFault>>
      /\ boardsSocket' \in {boardsSocket, "closed"}
  BY DEF BoardsStop, BoardsStopCloses, BoardsStopFlags, boardsLink
<1>2. /\ boardsStopping' \in {"closing", "flags", "done"} /\ boardsDone' \in {boardsDone, TRUE}
      /\ running' \in {running, FALSE} /\ connected' \in {connected, FALSE}
  BY DEF BoardsStop, BoardsStopCloses, BoardsStopFlags, Stopped
<1>3. running' \in BOOLEAN /\ connected' \in BOOLEAN /\ boardsDone' \in BOOLEAN
  BY <1>2, BoardsNow
<1>4. UNCHANGED <<boardsWake, boardsClosed, boardsForcing, boardsPanicked>>
  BY <1>1 DEF boardsWaiting
<1>5. BoardsWakesInv' /\ ShownIsServed'
  BY <1>1, <1>4, BoardsNow DEF BoardsWakesInv, ShownIsServed
<1>6. QED
  BY <1>1, <1>2, <1>3, <1>4, <1>5, BoardsNow, BoardsOK

\* Another carrier, or none, moves.
LEMMA BoardsStay == ASSUME BoardsInv, UNCHANGED boardsOwn, FlagsOK' PROVE BoardsInv'
<1>1. UNCHANGED <<boardsDone, boardsStopping, boardsLoop, boardsShown, boardsSocket, boardsWriters, boardsWake,
                  boardsClosed, boardsForcing, boardsPanicked, boardsJar, boardsFault>>
  BY DEF boardsOwn, boardsEnd, boardsLink, boardsWaiting
<1>2. BoardsWakesInv' /\ ShownIsServed'
  BY <1>1, BoardsNow DEF BoardsWakesInv, ShownIsServed
<1>3. QED
  BY <1>1, <1>2, BoardsNow, BoardsOK DEF FlagsOK

LEMMA BoardsKeep == BoardsInv /\ [BoardsNext]_boardsVars => BoardsInv'
<1> SUFFICES ASSUME BoardsInv, [BoardsNext]_boardsVars PROVE BoardsInv'
  OBVIOUS
<1>1. CASE UNCHANGED boardsVars
  BY <1>1, BoardsStay, BoardsNow DEF boardsVars, boardsOwn, FlagsOK
<1>2. CASE BoardsTries \/ BoardsServes \/ BoardsArm \/ BoardsWaitEnds
  BY <1>2, BoardsTriesKeep, BoardsServesKeep, BoardsWaitKeeps
<1>3. CASE \E f \in BoardsForcers : BoardsPush(f) \/ BoardsForce(f) \/ BoardsCloseWake(f)
  BY <1>3, BoardsCallsKeep
<1>4. CASE BoardsStop \/ BoardsStopCloses \/ BoardsStopFlags
  BY <1>4, BoardsStopKeeps
<1>5. QED
  BY <1>1, <1>2, <1>3, <1>4 DEF BoardsNext, BoardsTries, BoardsServes

LEMMA BoardsShow == BoardsInv => BoardsTypeOK /\ BoardsWakesOnce /\ ShownIsServed
<1> SUFFICES ASSUME BoardsInv PROVE BoardsWakesOnce
  BY DEF BoardsInv
<1>1. QED
  BY BoardsNow DEF BoardsWakesInv, BoardsWakesOnce

LEMMA BoardsGo == ASSUME BoardsInv, [BoardsNext]_boardsVars PROVE MayGo(BoardsPhase, connected, BoardsPhase', connected')
<1>1. CASE UNCHANGED boardsVars
  BY <1>1 DEF boardsVars, BoardsPhase, MayGo
<1>2. CASE BoardsTries
  BY <1>2 DEF BoardsTries, BoardsSlot, BoardsChallenge, BoardsPage, BoardsBlocked, BoardsToken, BoardsAttemptFails,
     BoardsRetrying, LoopGoes, Fault, BoardsPhase, MayGo
<1>3. CASE BoardsServes
  BY <1>3 DEF BoardsServes, BoardsDial, BoardsHandshakeFails, BoardsHandshake, BoardsServeEnds, BoardsWriteFails,
     BoardsWriterEnds, LoopGoes, Fault, BoardsPhase, MayGo
<1>4. CASE BoardsArm \/ BoardsWaitEnds
  BY <1>4 DEF BoardsArm, BoardsWaitEnds, LoopGoes, BoardsPhase, MayGo
<1>5. CASE \E f \in BoardsForcers : BoardsPush(f) \/ BoardsForce(f) \/ BoardsCloseWake(f)
  BY <1>5 DEF BoardsPush, BoardsForce, BoardsCloseWake, BoardsPhase, MayGo
<1>6. CASE BoardsStop \/ BoardsStopCloses \/ BoardsStopFlags
  <2>1. BoardsPhase' = BoardsPhase /\ connected' \in {connected, FALSE}
    BY <1>6 DEF BoardsStop, BoardsStopCloses, BoardsStopFlags, Stopped, BoardsPhase
  <2>2. CASE connected' = connected
    BY <2>1, <2>2 DEF MayGo
  <2>3. CASE connected' # connected
    <3>1. connected /\ connected' = FALSE
      BY <2>1, <2>3, BoardsNow
    <3>2. QED
      BY <2>1, <3>1 DEF MayGo
  <2>4. QED
    BY <2>2, <2>3
<1>7. QED
  BY <1>1, <1>2, <1>3, <1>4, <1>5, <1>6 DEF BoardsNext, BoardsTries, BoardsServes

\* So does the whiteboard carrier.
THEOREM BoardsKeepOrder == BoardsSpec => BoardsKeepsOrder
<1>1. BoardsSpec => []BoardsInv
  BY BoardsStarts, BoardsKeep, PTL DEF BoardsSpec
<1>2. Started /\ BoardsInit => BoardsPromised!CarrierInit
  BY DEF BoardsInit, Started, BoardsPromised!CarrierInit, BoardsPhase
<1>3. BoardsInv /\ [BoardsNext]_boardsVars => [BoardsPromised!CarrierNext]_(BoardsPromised!carrierVars)
  <2> SUFFICES ASSUME BoardsInv, [BoardsNext]_boardsVars
               PROVE  [BoardsPromised!CarrierNext]_(BoardsPromised!carrierVars)
    OBVIOUS
  <2>1. MayGo(BoardsPhase, connected, BoardsPhase', connected')
    BY BoardsGo
  <2>2. QED
    BY <2>1 DEF MayGo, BoardsPromised!CarrierNext, BoardsPromised!carrierVars, BoardsPromised!Challenged,
       BoardsPromised!Solved, BoardsPromised!ComesUp, BoardsPromised!Fails, BoardsPromised!Blocked,
       BoardsPromised!Reports, BoardsPromised!TriesAgain, BoardsPromised!Disconnects, BoardsPromised!Ends
<1>4. QED
  BY <1>1, <1>2, <1>3, PTL DEF BoardsSpec, BoardsKeepsOrder, BoardsPromised!CarrierSpec

----------------------------------------------------------------------------
(* The MTS Link carrier.                                                   *)

MtsWakesInv ==
    /\ mtsPanicked = FALSE
    /\ mtsWake.shown # 0 => mtsWake.shown \notin mtsClosed
    /\ \A f \in MtsForcers : mtsForcing[f].wake # 0 =>
         /\ mtsForcing[f].wake \notin mtsClosed /\ mtsForcing[f].wake # mtsWake.shown
         /\ \A g \in MtsForcers : mtsForcing[g].wake = mtsForcing[f].wake => g = f

MtsAt == {"slot", "guest", "dial", "handshake", "live", "between", "failed", "arm", "wait", "ended"}
MtsCallers2 == [begins : BOOLEAN, wake : MtsWakes \cup {0}]
MtsWait == [awaited : MtsWakes \cup {0}, shown : MtsWakes \cup {0}]
MtsStore == [queue : Seq(MtsIds), batch : Seq(MtsIds), stash : Seq(MtsIds), board : Seq(MtsIds),
             sent : 0..MaxMtsPackets, dropped : SUBSET MtsIds, signal : BOOLEAN]

\* Every packet sent is at one place, once, or is dropped.
Placed4(q, b, s, w, dropped, sent) ==
    /\ IsInjective(q) /\ IsInjective(b) /\ IsInjective(s) /\ IsInjective(w)
    /\ ToSet(q) \cap ToSet(b) = {} /\ ToSet(q) \cap ToSet(s) = {} /\ ToSet(q) \cap ToSet(w) = {}
    /\ ToSet(b) \cap ToSet(s) = {} /\ ToSet(b) \cap ToSet(w) = {} /\ ToSet(s) \cap ToSet(w) = {}
    /\ dropped \cap (ToSet(q) \cup ToSet(b) \cup ToSet(s) \cup ToSet(w)) = {}
    /\ dropped \cup ToSet(q) \cup ToSet(b) \cup ToSet(s) \cup ToSet(w) = 1..sent

\* The writer that has nothing to do has no batch, and the stash keeps its bound, so that what is
\* put into it never pushes out what it holds.
MtsPlacesInv ==
    /\ mtsPackets \in MtsStore
    /\ Placed4(mtsPackets.queue, mtsPackets.batch, mtsPackets.stash, mtsPackets.board,
               mtsPackets.dropped, mtsPackets.sent)
    /\ mtsWriter \in {"idle", "ended"} => mtsPackets.batch = <<>>
    /\ Len(mtsPackets.stash) <= MtsStash

MtsInv == FlagsOK /\ MtsTypeOK /\ MtsWakesInv /\ MtsShownIsServed /\ MtsPlacesInv

LEMMA MtsNow ==
  ASSUME MtsInv
  PROVE  /\ running \in BOOLEAN /\ connected \in BOOLEAN
         /\ mtsStopping \in {"no", "closing", "flags", "done"} /\ mtsLoop \in MtsAt
         /\ mtsReserve \in BOOLEAN /\ mtsShown \in BOOLEAN /\ mtsSocket \in {"none", "open", "closed"}
         /\ mtsToken \in BOOLEAN /\ mtsWake \in MtsWait /\ mtsWake.shown \in {0, mtsWake.awaited}
         /\ mtsClosed \subseteq MtsWakes /\ mtsForcing \in [MtsForcers -> MtsCallers2] /\ mtsPanicked \in BOOLEAN
         /\ mtsWriter \in {"idle", "gather", "write", "writeOld", "writeClosed", "ended"}
         /\ MtsWakesInv /\ MtsShownIsServed /\ MtsPlacesInv
  BY DEF MtsInv, MtsTypeOK, FlagsOK, MtsAt, MtsCallers2, MtsWait

LEMMA MtsOK ==
  ASSUME running' \in BOOLEAN, connected' \in BOOLEAN,
         mtsStopping' \in {"no", "closing", "flags", "done"}, mtsLoop' \in MtsAt,
         mtsReserve' \in BOOLEAN, mtsShown' \in BOOLEAN, mtsSocket' \in {"none", "open", "closed"},
         mtsToken' \in BOOLEAN, mtsWake' \in MtsWait, mtsWake'.shown \in {0, mtsWake'.awaited},
         mtsClosed' \subseteq MtsWakes, mtsForcing' \in [MtsForcers -> MtsCallers2],
         mtsWriter' \in {"idle", "gather", "write", "writeOld", "writeClosed", "ended"},
         MtsWakesInv', MtsShownIsServed', MtsPlacesInv'
  PROVE  MtsInv'
<1>1. mtsPanicked' \in BOOLEAN
  BY DEF MtsWakesInv
<1>2. mtsPackets' \in MtsStore
  BY DEF MtsPlacesInv
<1>3. /\ mtsPackets'.sent \in 0..MaxMtsPackets /\ mtsPackets'.dropped \subseteq MtsIds
      /\ mtsPackets'.queue \in Seq(MtsIds) /\ mtsPackets'.batch \in Seq(MtsIds)
      /\ mtsPackets'.stash \in Seq(MtsIds) /\ mtsPackets'.board \in Seq(MtsIds)
  BY <1>2 DEF MtsStore
<1>4. /\ mtsPackets'["queue"] \in Seq(MtsIds) /\ mtsPackets'["batch"] \in Seq(MtsIds)
      /\ mtsPackets'["stash"] \in Seq(MtsIds) /\ mtsPackets'["board"] \in Seq(MtsIds)
  BY <1>3
<1>5. \A p \in {"queue", "batch", "stash", "board"} : ToSet(mtsPackets'[p]) \subseteq MtsIds
  <2>1. /\ ToSet(mtsPackets'["queue"]) \subseteq MtsIds /\ ToSet(mtsPackets'["batch"]) \subseteq MtsIds
        /\ ToSet(mtsPackets'["stash"]) \subseteq MtsIds /\ ToSet(mtsPackets'["board"]) \subseteq MtsIds
    BY <1>4, InSequence
  <2>2. QED
    BY <2>1
<1>6. MtsTypeOK'
  BY <1>1, <1>3, <1>5 DEF MtsTypeOK, MtsAt, MtsCallers2, MtsWait
<1>7. QED
  BY <1>6 DEF MtsInv, FlagsOK

LEMMA MtsStarts == Started /\ MtsInit => MtsInv
<1> SUFFICES ASSUME Started, MtsInit PROVE MtsInv
  OBVIOUS
<1> USE MtsAssumption
<1>1. running \in BOOLEAN /\ connected \in BOOLEAN
  BY DEF Started
<1>2. mtsReserve \in BOOLEAN /\ mtsShown \in BOOLEAN /\ mtsToken \in BOOLEAN /\ mtsPanicked \in BOOLEAN
  BY DEF MtsInit
<1>3. mtsForcing \in [MtsForcers -> [begins : BOOLEAN, wake : MtsWakes \cup {0}]]
  BY DEF MtsInit, MtsNotForcing
<1>4. mtsWake \in [awaited : MtsWakes \cup {0}, shown : MtsWakes \cup {0}] /\ mtsWake.shown = 0
  BY DEF MtsInit
<1>5. mtsPackets = [queue |-> <<>>, batch |-> <<>>, stash |-> <<>>, board |-> <<>>, sent |-> 0, dropped |-> {},
                    signal |-> FALSE]
  BY DEF MtsInit
<1>6. MtsPlacesInv
  <2>1. mtsPackets \in MtsStore
    BY <1>5 DEF MtsStore, MtsIds
  <2>2. Placed4(<<>>, <<>>, <<>>, <<>>, {}, 0)
    <3>1. 1..0 = {}
      OBVIOUS
    <3>2. QED
      BY <3>1, NoneThere DEF Placed4
  <2>3. Len(<<>>) = 0 /\ 0 <= MtsStash
    OBVIOUS
  <2>4. QED
    BY <1>5, <2>1, <2>2, <2>3 DEF MtsPlacesInv
<1>7. /\ mtsPackets.sent \in 0..MaxMtsPackets /\ mtsPackets.dropped \subseteq MtsIds
      /\ \A p \in {"queue", "batch", "stash", "board"} : mtsPackets[p] = <<>>
  BY <1>5
<1>8. \A p \in {"queue", "batch", "stash", "board"} : ToSet(mtsPackets[p]) \subseteq MtsIds
  BY <1>7, NoneThere
<1>9. MtsTypeOK
  BY <1>2, <1>3, <1>4, <1>7, <1>8 DEF MtsInit, MtsTypeOK
<1>10. MtsWakesInv
  BY <1>4 DEF MtsInit, MtsWakesInv, MtsNotForcing
<1>11. MtsShownIsServed
  BY DEF MtsInit, MtsShownIsServed
<1>12. QED
  BY <1>1, <1>6, <1>9, <1>10, <1>11 DEF MtsInv, FlagsOK

\* What becomes of the places of the packets.
LEMMA SendsOne ==
  ASSUME NEW n \in Nat, NEW q \in Seq(1..n), NEW b, NEW s, NEW w, NEW d, Placed4(q, b, s, w, d, n)
  PROVE  Placed4(Append(q, n + 1), b, s, w, d, n + 1)
<1>1. q \in Seq(Nat) /\ n + 1 \in Nat
  OBVIOUS
<1>2. 1..n + 1 = 1..n \cup {n + 1} /\ n + 1 \notin 1..n
  OBVIOUS
<1>3. n + 1 \notin ToSet(q)
  BY <1>2 DEF Placed4
<1>4. ToSet(Append(q, n + 1)) = ToSet(q) \cup {n + 1} /\ IsInjective(Append(q, n + 1))
  BY <1>1, <1>3, OneMore DEF Placed4
<1>5. QED
  BY <1>2, <1>4 DEF Placed4

LEMMA TakesStash ==
  ASSUME NEW S, NEW q, NEW s \in Seq(S), NEW w, NEW d, NEW n, Placed4(q, <<>>, s, w, d, n), NEW k \in 0..Len(s)
  PROVE  Placed4(q, SubSeq(s, 1, k), SubSeq(s, k + 1, Len(s)), w, d, n)
<1> DEFINE x == SubSeq(s, 1, k)
           y == SubSeq(s, k + 1, Len(s))
<1>1. IsInjective(x) /\ IsInjective(y) /\ ToSet(x) \cap ToSet(y) = {} /\ ToSet(x) \cup ToSet(y) = ToSet(s)
  BY Cut DEF Placed4
<1> HIDE DEF x, y
<1>2. Placed4(q, x, y, w, d, n)
  BY <1>1, NoneThere DEF Placed4
<1>3. QED
  BY <1>2 DEF x, y

LEMMA TakesFirst ==
  ASSUME NEW S, NEW q \in Seq(S), q # <<>>, NEW b \in Seq(S), NEW s, NEW w, NEW d, NEW n, Placed4(q, b, s, w, d, n)
  PROVE  Placed4(Tail(q), Append(b, Head(q)), s, w, d, n) /\ Placed4(Tail(q), <<Head(q)>> \o b, s, w, d, n)
<1> DEFINE h == Head(q)
           t == Tail(q)
<1>1. h \in S /\ ToSet(q) = {h} \cup ToSet(t) /\ IsInjective(t) /\ h \notin ToSet(t)
  BY FirstTaken DEF Placed4
<1>2. h \notin ToSet(b) /\ IsInjective(b)
  BY <1>1 DEF Placed4
<1>3. IsInjective(Append(b, h)) /\ ToSet(Append(b, h)) = ToSet(b) \cup {h}
  BY <1>1, <1>2, OneMore
<1>4. IsInjective(<<h>> \o b) /\ ToSet(<<h>> \o b) = {h} \cup ToSet(b)
  <2>1. PICK e \in S : e = h
    BY <1>1
  <2>2. <<e>> \in Seq(S) /\ ToSet(<<e>>) = {e} /\ IsInjective(<<e>>)
    BY OneThere
  <2>3. PICK l \in Seq(S) : l = <<e>>
    BY <2>2
  <2>4. ToSet(l) = {e} /\ IsInjective(l) /\ IsInjective(b) /\ ToSet(l) \cap ToSet(b) = {}
    BY <1>2, <2>1, <2>2, <2>3
  <2>5. IsInjective(l \o b) /\ ToSet(l \o b) = ToSet(l) \cup ToSet(b)
    BY <2>4, Together
  <2>6. QED
    BY <2>1, <2>3, <2>4, <2>5
<1> HIDE DEF h, t
<1>5. Placed4(t, Append(b, h), s, w, d, n)
  BY <1>1, <1>3 DEF Placed4
<1>6. Placed4(t, <<h>> \o b, s, w, d, n)
  BY <1>1, <1>4 DEF Placed4
<1>7. QED
  BY <1>5, <1>6 DEF h, t

LEMMA StashesBatch ==
  ASSUME NEW S, NEW q, NEW b \in Seq(S), NEW s \in Seq(S), NEW w, NEW d, NEW n, Placed4(q, b, s, w, d, n),
         NEW k \in Len(s)..Len(s \o b)
  PROVE  /\ SubSeq(s \o b, 1, k) \in Seq(S) /\ Len(SubSeq(s \o b, 1, k)) = k
         /\ Placed4(q, <<>>, SubSeq(s \o b, 1, k), w, d \cup (ToSet(b) \ ToSet(SubSeq(s \o b, 1, k))), n)
<1> DEFINE all == s \o b
           x == SubSeq(all, 1, k)
<1>1. all \in Seq(S) /\ IsInjective(all) /\ ToSet(all) = ToSet(s) \cup ToSet(b)
  BY Together DEF Placed4
<1>2. Len(s) \in Nat /\ k \in 0..Len(all) /\ Len(s) <= k /\ DOMAIN s = 1..Len(s) /\ \A i \in 1..Len(s) : all[i] = s[i]
  OBVIOUS
<1> HIDE DEF all
<1>3. x \in Seq(S) /\ Len(x) = k /\ IsInjective(x) /\ ToSet(x) \subseteq ToSet(all)
  BY <1>1, <1>2, Cut
<1>4. ToSet(s) \subseteq ToSet(x)
  <2> SUFFICES ASSUME NEW y \in ToSet(s) PROVE y \in ToSet(x)
    OBVIOUS
  <2>1. PICK i \in 1..Len(s) : y = s[i]
    BY <1>2 DEF ToSet
  <2>2. i \in 1..k /\ all[i] = y
    BY <1>2, <2>1
  <2>3. \A j \in 1..k : all[j] \in S
    BY <1>1, <1>2
  <2>4. x[i] = all[1 + i - 1] /\ 1 + i - 1 = i
    <3>1. k - 1 + 1 = k /\ k \in Int
      BY <1>2
    <3>2. QED
      BY <2>2, <2>3, <3>1, SubSeqProperties
  <2>5. i \in DOMAIN x
    BY <1>3, <2>2
  <2>6. QED
    BY <2>2, <2>4, <2>5 DEF ToSet
<1> HIDE DEF x
<1>5. Placed4(q, <<>>, x, w, d \cup (ToSet(b) \ ToSet(x)), n)
  BY <1>1, <1>3, <1>4, NoneThere DEF Placed4
<1>6. QED
  BY <1>3, <1>5 DEF x, all

LEMMA WritesBatch ==
  ASSUME NEW S, NEW q, NEW b \in Seq(S), NEW s, NEW w \in Seq(S), NEW d, NEW n, Placed4(q, b, s, w, d, n)
  PROVE  Placed4(q, <<>>, s, w \o b, d, n)
<1>1. IsInjective(w \o b) /\ ToSet(w \o b) = ToSet(w) \cup ToSet(b)
  BY Together DEF Placed4
<1>2. QED
  BY <1>1, NoneThere DEF Placed4

LEMMA DropsBatch ==
  ASSUME NEW q, NEW b, NEW s, NEW w, NEW d, NEW n, Placed4(q, b, s, w, d, n)
  PROVE  Placed4(q, <<>>, s, w, d \cup ToSet(b), n)
  BY NoneThere DEF Placed4

\* As MtsAccounted says it.
LEMMA PlacesShow ==
  ASSUME NEW S, NEW q \in Seq(S), NEW b \in Seq(S), NEW s \in Seq(S), NEW w \in Seq(S), NEW d, NEW n,
         Placed4(q, b, s, w, d, n)
  PROVE  IsInjective(q \o b \o s \o w) /\ (1..n) \ ToSet(q \o b \o s \o w) = d
<1>1. q \o b \in Seq(S) /\ IsInjective(q \o b) /\ ToSet(q \o b) = ToSet(q) \cup ToSet(b)
  BY Together DEF Placed4
<1>2. PICK x \in Seq(S) : x = q \o b
  BY <1>1
<1>3. IsInjective(x) /\ ToSet(x) \cap ToSet(s) = {} /\ IsInjective(s)
  BY <1>1, <1>2 DEF Placed4
<1>4. x \o s \in Seq(S) /\ IsInjective(x \o s) /\ ToSet(x \o s) = ToSet(x) \cup ToSet(s)
  BY <1>3, Together
<1>5. PICK y \in Seq(S) : y = x \o s
  BY <1>4
<1>6. IsInjective(y) /\ ToSet(y) \cap ToSet(w) = {} /\ IsInjective(w)
  BY <1>1, <1>2, <1>4, <1>5 DEF Placed4
<1>7. IsInjective(y \o w) /\ ToSet(y \o w) = ToSet(y) \cup ToSet(w)
  BY <1>6, Together
<1>8. y \o w = q \o b \o s \o w /\ ToSet(y \o w) = ToSet(q) \cup ToSet(b) \cup ToSet(s) \cup ToSet(w)
  BY <1>1, <1>2, <1>4, <1>5, <1>7
<1>9. QED
  BY <1>7, <1>8 DEF Placed4

\* An attempt and the session it ends in.
MtsTries ==
    \/ MtsSlot \/ MtsGuest \/ MtsDial \/ MtsServerFails \/ MtsBetween \/ MtsConnected \/ MtsServeEnds \/ MtsRetrying

LEMMA MtsTriesKeep == ASSUME MtsInv, MtsTries PROVE MtsInv'
<1>1. UNCHANGED <<running, mtsStopping, mtsWake, mtsClosed, mtsForcing, mtsPanicked>>
  BY DEF MtsTries, MtsSlot, MtsGuest, MtsDial, MtsServerFails, MtsBetween, MtsConnected, MtsServeEnds, MtsRetrying,
     MtsGoes, mtsLink, mtsWaiting
<1>2. /\ connected' \in {connected, TRUE, FALSE} /\ mtsShown' \in {mtsShown, TRUE, FALSE}
      /\ mtsSocket' \in {mtsSocket, "none", "open"} /\ mtsToken' \in {mtsToken, FALSE}
      /\ mtsWriter' \in {mtsWriter, "writeOld", "writeClosed"}
      /\ mtsWriter' # mtsWriter => mtsWriter = "write"
      /\ mtsPackets' \in {mtsPackets, [mtsPackets EXCEPT !.signal = TRUE]}
  <2>1. CASE MtsSlot \/ MtsGuest \/ MtsDial \/ MtsBetween \/ MtsRetrying
    BY <2>1 DEF MtsSlot, MtsGuest, MtsDial, MtsBetween, MtsRetrying, mtsLink, mtsWaiting, mtsSending
  <2>2. CASE MtsServerFails \/ MtsConnected \/ MtsServeEnds
    BY <2>2 DEF MtsServerFails, MtsConnected, MtsServeEnds, mtsLink, mtsWaiting, NoneShown
  <2>3. QED
    BY <2>1, <2>2 DEF MtsTries
<1>3. mtsLoop' \in MtsAt
  BY DEF MtsTries, MtsSlot, MtsGuest, MtsDial, MtsServerFails, MtsBetween, MtsConnected, MtsServeEnds, MtsRetrying,
     MtsGoes, MtsAt
<1>4. mtsReserve' \in BOOLEAN
  <2>1. CASE MtsBetween
    BY <2>1 DEF MtsBetween
  <2>2. CASE ~MtsBetween
    BY <2>2, MtsNow DEF MtsTries, MtsSlot, MtsGuest, MtsDial, MtsServerFails, MtsConnected, MtsServeEnds, MtsRetrying,
       mtsLink
  <2>3. QED
    BY <2>1, <2>2
<1>5. MtsShownIsServed'
  <2>1. CASE MtsSlot \/ MtsGuest \/ MtsBetween \/ MtsRetrying
    <3>1. mtsShown' = mtsShown /\ mtsLoop \notin {"handshake", "live"} /\ mtsLoop' \notin {"handshake", "live"}
      BY <2>1 DEF MtsSlot, MtsGuest, MtsBetween, MtsRetrying, MtsGoes, mtsLink
    <3>2. QED
      BY <3>1, MtsNow DEF MtsShownIsServed
  <2>2. CASE MtsDial \/ MtsServerFails \/ MtsServeEnds
    BY <2>2 DEF MtsDial, MtsServerFails, MtsServeEnds, MtsGoes, NoneShown, MtsShownIsServed
  <2>3. CASE MtsConnected
    BY <2>3, MtsNow DEF MtsConnected, MtsGoes, mtsLink, MtsShownIsServed
  <2>4. QED
    BY <2>1, <2>2, <2>3 DEF MtsTries
<1>6. MtsPlacesInv'
  <2>1. /\ mtsPackets' \in MtsStore
        /\ mtsPackets'.queue = mtsPackets.queue /\ mtsPackets'.batch = mtsPackets.batch
        /\ mtsPackets'.stash = mtsPackets.stash /\ mtsPackets'.board = mtsPackets.board
        /\ mtsPackets'.dropped = mtsPackets.dropped /\ mtsPackets'.sent = mtsPackets.sent
    <3>1. mtsPackets \in MtsStore
      BY MtsNow DEF MtsPlacesInv
    <3>2. QED
      BY <1>2, <3>1 DEF MtsStore
  <2>2. QED
    BY <1>2, <2>1, MtsNow DEF MtsPlacesInv
<1>7. MtsWakesInv'
  BY <1>1, MtsNow DEF MtsWakesInv
<1>8. connected' \in BOOLEAN /\ mtsShown' \in BOOLEAN /\ mtsToken' \in BOOLEAN
  BY <1>2, MtsNow
<1>9. /\ mtsSocket' \in {"none", "open", "closed"}
      /\ mtsWriter' \in {"idle", "gather", "write", "writeOld", "writeClosed", "ended"}
  BY <1>2, MtsNow
<1>10. /\ running' \in BOOLEAN /\ mtsStopping' \in {"no", "closing", "flags", "done"} /\ mtsWake' \in MtsWait
       /\ mtsWake'.shown \in {0, mtsWake'.awaited} /\ mtsClosed' \subseteq MtsWakes
       /\ mtsForcing' \in [MtsForcers -> MtsCallers2]
  BY <1>1, MtsNow
<1>11. QED
  BY <1>3, <1>4, <1>5, <1>6, <1>7, <1>8, <1>9, <1>10, MtsOK

LEMMA MtsWaitKeeps == ASSUME MtsInv, MtsArm \/ MtsWaitEnds PROVE MtsInv'
<1> USE MtsAssumption
<1>1. UNCHANGED <<running, connected, mtsStopping, mtsReserve, mtsShown, mtsSocket, mtsToken, mtsForcing, mtsPanicked,
                  mtsWriter, mtsPackets>>
  BY DEF MtsArm, MtsWaitEnds, MtsGoes, mtsLink, mtsSending
<1>2. mtsLoop \in {"arm", "wait"} /\ mtsLoop' \in {"wait", "slot", "ended"}
  BY DEF MtsArm, MtsWaitEnds, MtsGoes
<1>3. /\ mtsWake' \in MtsWait /\ mtsWake'.shown \in {0, mtsWake'.awaited} /\ mtsClosed' \subseteq MtsWakes
      /\ MtsWakesInv'
  <2>1. CASE MtsArm
    <3>1. PICK w \in MtsWakes \ HeldMtsWakes :
             mtsWake' = [awaited |-> w, shown |-> w] /\ mtsClosed' = mtsClosed \ {w}
      BY <2>1 DEF MtsArm
    <3>2. \A f \in MtsForcers : mtsForcing[f].wake # w
      BY <3>1 DEF HeldMtsWakes
    <3>3. mtsWake' \in MtsWait /\ mtsWake'.shown = w /\ mtsWake'.awaited = w
      BY <3>1 DEF MtsWait
    <3>4. QED
      BY <1>1, <3>1, <3>2, <3>3, MtsNow DEF MtsWakesInv
  <2>2. CASE MtsWaitEnds
    <3>1. mtsWake' \in {mtsWake, [awaited |-> 0, shown |-> 0]} /\ mtsClosed' = mtsClosed
      BY <2>2 DEF MtsWaitEnds
    <3>2. /\ [awaited |-> 0, shown |-> 0] \in MtsWait /\ [awaited |-> 0, shown |-> 0].shown = 0
          /\ [awaited |-> 0, shown |-> 0].awaited = 0
      BY DEF MtsWait
    <3>3. QED
      BY <1>1, <3>1, <3>2, MtsNow DEF MtsWakesInv
  <2>3. QED
    BY <2>1, <2>2
<1>4. MtsShownIsServed' /\ MtsPlacesInv'
  BY <1>1, <1>2, MtsNow DEF MtsShownIsServed, MtsPlacesInv
<1>5. mtsLoop' \in MtsAt
  BY <1>2 DEF MtsAt
<1>6. QED
  BY <1>1, <1>3, <1>4, <1>5, MtsNow, MtsOK

LEMMA MtsCallsKeep ==
  ASSUME MtsInv, NEW f \in MtsForcers, MtsCall(f) \/ MtsPingFails(f) \/ MtsForce(f) \/ MtsCloseWake(f)
  PROVE  MtsInv'
<1> USE MtsAssumption
<1>1. UNCHANGED <<running, connected, mtsStopping, mtsLoop, mtsReserve, mtsShown, mtsWriter, mtsPackets>>
  BY DEF MtsCall, MtsPingFails, MtsForce, MtsCloseWake, mtsLink, mtsSending
<1>2. mtsSocket' \in {mtsSocket, "closed"} /\ mtsToken' \in {mtsToken, TRUE}
  BY DEF MtsCall, MtsPingFails, MtsForce, MtsCloseWake, mtsLink
<1>3. mtsToken' \in BOOLEAN
  BY <1>2, MtsNow
<1>4. /\ mtsWake' \in MtsWait /\ mtsWake'.shown \in {0, mtsWake'.awaited} /\ mtsClosed' \subseteq MtsWakes
      /\ mtsForcing' \in [MtsForcers -> MtsCallers2] /\ MtsWakesInv'
  <2>0. MtsNotForcing \in MtsCallers2 /\ MtsNotForcing.wake = 0
    BY DEF MtsNotForcing, MtsCallers2
  <2>1. CASE MtsCall(f) \/ MtsPingFails(f)
    <3>1. UNCHANGED <<mtsWake, mtsClosed, mtsPanicked>> /\ mtsForcing' = [mtsForcing EXCEPT ![f].begins = TRUE]
      BY <2>1 DEF MtsCall, MtsPingFails, Forces
    <3>2. mtsForcing' \in [MtsForcers -> MtsCallers2] /\ \A g \in MtsForcers : mtsForcing'[g].wake = mtsForcing[g].wake
      BY <3>1, MtsNow DEF MtsCallers2
    <3>3. QED
      BY <3>1, <3>2, MtsNow DEF MtsWakesInv
  <2>2. CASE MtsForce(f) /\ mtsShown
    <3>1. UNCHANGED <<mtsWake, mtsClosed, mtsPanicked>> /\ mtsForcing' = [mtsForcing EXCEPT ![f] = MtsNotForcing]
      BY <2>2 DEF MtsForce
    <3>2. QED
      BY <2>0, <3>1, MtsNow DEF MtsWakesInv
  <2>3. CASE MtsForce(f) /\ ~mtsShown
    <3> DEFINE w == mtsWake.shown
               x == [begins |-> FALSE, wake |-> w]
    <3>1. /\ UNCHANGED <<mtsClosed, mtsPanicked>> /\ mtsWake' = [mtsWake EXCEPT !.shown = 0]
          /\ mtsForcing' = [mtsForcing EXCEPT ![f] = x]
      BY <2>3 DEF MtsForce, MtsClaimsWake
    <3>2. mtsWake' \in MtsWait /\ mtsWake'.shown = 0
      BY <3>1, MtsNow DEF MtsWait
    <3>3. x \in MtsCallers2 /\ x.wake = w
      BY MtsNow DEF MtsCallers2, MtsWait
    <3> HIDE DEF x
    <3>4. /\ mtsForcing' \in [MtsForcers -> MtsCallers2]
          /\ \A g \in MtsForcers : mtsForcing'[g] = IF g = f THEN x ELSE mtsForcing[g]
      BY <3>1, <3>3, MtsNow
    <3>5. w # 0 => w \notin mtsClosed /\ \A g \in MtsForcers : mtsForcing[g].wake # w
      BY MtsNow DEF MtsWakesInv
    <3>6. ASSUME NEW g \in MtsForcers, mtsForcing'[g].wake # 0
          PROVE  /\ mtsForcing'[g].wake \notin mtsClosed' /\ mtsForcing'[g].wake # mtsWake'.shown
                 /\ \A h \in MtsForcers : mtsForcing'[h].wake = mtsForcing'[g].wake => h = g
      <4>1. CASE g = f
        BY <3>1, <3>2, <3>3, <3>4, <3>5, <3>6, <4>1
      <4>2. CASE g # f
        <5>1. mtsForcing'[g] = mtsForcing[g]
          BY <3>4, <4>2
        <5>2. /\ mtsForcing[g].wake \notin mtsClosed /\ mtsForcing[g].wake # w
              /\ \A h \in MtsForcers : mtsForcing[h].wake = mtsForcing[g].wake => h = g
          BY <3>6, <5>1, MtsNow DEF MtsWakesInv
        <5>3. QED
          BY <3>1, <3>2, <3>3, <3>4, <3>6, <4>2, <5>1, <5>2
      <4>3. QED
        BY <4>1, <4>2
    <3>7. mtsPanicked' = FALSE
      BY <3>1, MtsNow DEF MtsWakesInv
    <3>8. MtsWakesInv'
      BY <3>2, <3>6, <3>7 DEF MtsWakesInv
    <3>9. QED
      BY <3>1, <3>2, <3>4, <3>8, MtsNow
  <2>4. CASE MtsCloseWake(f)
    <3> DEFINE w == mtsForcing[f].wake
    <3>1. /\ w # 0 /\ mtsPanicked' = (w \in mtsClosed) /\ mtsClosed' = mtsClosed \cup {w}
          /\ mtsForcing' = [mtsForcing EXCEPT ![f] = MtsNotForcing] /\ mtsWake' = mtsWake
      BY <2>4 DEF MtsCloseWake
    <3>2. w \in MtsWakes /\ w \notin mtsClosed /\ w # mtsWake.shown
      BY <3>1, MtsNow DEF MtsWakesInv, MtsCallers2
    <3>3. mtsPanicked' = FALSE
      <4>1. (w \in mtsClosed) = FALSE
        BY <3>2
      <4>2. QED
        BY <3>1, <4>1
    <3>4. QED
      BY <2>0, <3>1, <3>2, <3>3, MtsNow DEF MtsWakesInv
  <2>5. QED
    BY <2>1, <2>2, <2>3, <2>4
<1>5. MtsShownIsServed' /\ MtsPlacesInv'
  BY <1>1, MtsNow DEF MtsShownIsServed, MtsPlacesInv
<1>6. QED
  BY <1>1, <1>2, <1>3, <1>4, <1>5, MtsNow, MtsOK

\* A record of the places, and what one is known to hold.
MtsRecord(q, b, s, w, n, d, g) ==
    [queue |-> q, batch |-> b, stash |-> s, board |-> w, sent |-> n, dropped |-> d, signal |-> g]

LEMMA MtsPut ==
  ASSUME NEW q \in Seq(MtsIds), NEW b \in Seq(MtsIds), NEW s \in Seq(MtsIds), NEW w \in Seq(MtsIds),
         NEW n \in 0..MaxMtsPackets, NEW d, NEW g \in BOOLEAN,
         mtsPackets' = MtsRecord(q, b, s, w, n, d, g), Placed4(q, b, s, w, d, n),
         mtsWriter' \in {"idle", "ended"} => b = <<>>, Len(s) <= MtsStash
  PROVE  MtsPlacesInv'
<1> USE MtsAssumption
<1>1. 1..n \subseteq MtsIds
  BY DEF MtsIds
<1>2. d \subseteq MtsIds
  BY <1>1 DEF Placed4
<1>3. mtsPackets' \in MtsStore
  BY <1>2 DEF MtsStore, MtsRecord
<1>4. /\ mtsPackets'.queue = q /\ mtsPackets'.batch = b /\ mtsPackets'.stash = s /\ mtsPackets'.board = w
      /\ mtsPackets'.sent = n /\ mtsPackets'.dropped = d
  BY DEF MtsRecord
<1>5. QED
  BY <1>3, <1>4 DEF MtsPlacesInv

LEMMA MtsHolds ==
  ASSUME MtsInv
  PROVE  \E q, b, s, w \in Seq(MtsIds), n \in 0..MaxMtsPackets, g \in BOOLEAN, d \in SUBSET MtsIds :
           /\ mtsPackets = MtsRecord(q, b, s, w, n, d, g) /\ Placed4(q, b, s, w, d, n) /\ Len(s) <= MtsStash
           /\ mtsPackets.queue = q /\ mtsPackets.batch = b /\ mtsPackets.stash = s /\ mtsPackets.board = w
           /\ mtsPackets.sent = n /\ mtsPackets.dropped = d /\ mtsPackets.signal = g
           /\ mtsWriter \in {"idle", "ended"} => b = <<>>
<1>1. mtsPackets \in MtsStore
  BY MtsNow DEF MtsPlacesInv
<1>2. /\ mtsPackets.queue \in Seq(MtsIds) /\ mtsPackets.batch \in Seq(MtsIds) /\ mtsPackets.stash \in Seq(MtsIds)
      /\ mtsPackets.board \in Seq(MtsIds) /\ mtsPackets.sent \in 0..MaxMtsPackets /\ mtsPackets.signal \in BOOLEAN
      /\ mtsPackets.dropped \in SUBSET MtsIds
  BY <1>1 DEF MtsStore
<1>3. mtsPackets = MtsRecord(mtsPackets.queue, mtsPackets.batch, mtsPackets.stash, mtsPackets.board, mtsPackets.sent,
                             mtsPackets.dropped, mtsPackets.signal)
  BY <1>1 DEF MtsStore, MtsRecord
<1>4. /\ Placed4(mtsPackets.queue, mtsPackets.batch, mtsPackets.stash, mtsPackets.board, mtsPackets.dropped,
                 mtsPackets.sent)
      /\ Len(mtsPackets.stash) <= MtsStash
      /\ mtsWriter \in {"idle", "ended"} => mtsPackets.batch = <<>>
  BY MtsNow DEF MtsPlacesInv
<1>5. QED
  BY <1>2, <1>3, <1>4

LEMMA MtsSendKeeps == ASSUME MtsInv, MtsSend PROVE MtsPlacesInv'
<1> USE MtsAssumption
<1>1. PICK q, b, s, w \in Seq(MtsIds), n \in 0..MaxMtsPackets, g \in BOOLEAN, d \in SUBSET MtsIds :
           /\ mtsPackets = MtsRecord(q, b, s, w, n, d, g) /\ Placed4(q, b, s, w, d, n) /\ Len(s) <= MtsStash
           /\ mtsPackets.queue = q /\ mtsPackets.batch = b /\ mtsPackets.stash = s /\ mtsPackets.board = w
           /\ mtsPackets.sent = n /\ mtsPackets.dropped = d /\ mtsPackets.signal = g
           /\ mtsWriter \in {"idle", "ended"} => b = <<>>
  BY MtsHolds
<1>2. n < MaxMtsPackets /\ n + 1 \in MtsIds /\ n + 1 \in 0..MaxMtsPackets
  BY <1>1 DEF MtsSend, MtsIds
<1>3. /\ mtsPackets' = [mtsPackets EXCEPT !.sent = n + 1, !.queue = Append(@, n + 1)] /\ mtsWriter' = mtsWriter
  BY <1>1 DEF MtsSend, MtsSends
<1>4. mtsPackets' = MtsRecord(Append(q, n + 1), b, s, w, n + 1, d, g)
  BY <1>1, <1>3 DEF MtsRecord
<1>5. q \in Seq(1..n)
  <2>1. ToSet(q) \subseteq 1..n
    BY <1>1 DEF Placed4
  <2>2. \A i \in 1..Len(q) : q[i] \in 1..n
    BY <2>1 DEF ToSet
  <2>3. QED
    BY <2>2
<1>6. Placed4(Append(q, n + 1), b, s, w, d, n + 1)
  BY <1>1, <1>5, SendsOne
<1>7. PICK p \in Seq(MtsIds) : p = Append(q, n + 1)
  <2>1. Append(q, n + 1) \in Seq(MtsIds)
    BY <1>2
  <2>2. QED
    BY <2>1
<1>8. PICK m \in 0..MaxMtsPackets : m = n + 1
  BY <1>2
<1>9. mtsPackets' = MtsRecord(p, b, s, w, m, d, g) /\ Placed4(p, b, s, w, d, m)
  BY <1>4, <1>6, <1>7, <1>8
<1>10. QED
  BY <1>1, <1>3, <1>9, MtsPut

LEMMA MtsTakeKeeps == ASSUME MtsInv, MtsTake PROVE MtsPlacesInv'
<1> USE MtsAssumption
<1>1. PICK q, b, s, w \in Seq(MtsIds), n \in 0..MaxMtsPackets, g \in BOOLEAN, d \in SUBSET MtsIds :
           /\ mtsPackets = MtsRecord(q, b, s, w, n, d, g) /\ Placed4(q, b, s, w, d, n) /\ Len(s) <= MtsStash
           /\ mtsPackets.queue = q /\ mtsPackets.batch = b /\ mtsPackets.stash = s /\ mtsPackets.board = w
           /\ mtsPackets.sent = n /\ mtsPackets.dropped = d /\ mtsPackets.signal = g
           /\ mtsWriter \in {"idle", "ended"} => b = <<>>
  BY MtsHolds
<1>2. b = <<>> /\ mtsWriter' = "gather"
  BY <1>1 DEF MtsTake, MtsSends
<1>3. ASSUME NEW first \in Seq(MtsIds), NEW t \in Seq(MtsIds), NEW e \in BOOLEAN, Placed4(t, first, s, w, d, n),
             Len(first) <= MtsBatch,
             mtsPackets' = MtsRecord(t, first \o SubSeq(s, 1, MtsRoom(first)), SubSeq(s, MtsRoom(first) + 1, Len(s)), w,
                                     n, d, e)
      PROVE  MtsPlacesInv'
  <2>1. PICK k \in 0..Len(s) : k = MtsRoom(first)
    <3>1. Len(first) \in Nat /\ Len(s) \in Nat /\ MtsBatch \in Nat
      OBVIOUS
    <3>2. MtsBatch - Len(first) \in Nat
      BY <1>3, <3>1
    <3>3. QED
      BY <1>1, <3>1, <3>2 DEF MtsRoom
  <2>2. PICK x \in Seq(MtsIds), y \in Seq(MtsIds) :
           /\ x = SubSeq(s, 1, k) /\ y = SubSeq(s, k + 1, Len(s)) /\ Len(y) <= Len(s)
           /\ IsInjective(x) /\ IsInjective(y) /\ ToSet(x) \cap ToSet(y) = {} /\ ToSet(x) \cup ToSet(y) = ToSet(s)
    <3>1. IsInjective(s)
      BY <1>1 DEF Placed4
    <3>2. /\ SubSeq(s, 1, k) \in Seq(MtsIds) /\ SubSeq(s, k + 1, Len(s)) \in Seq(MtsIds)
          /\ Len(SubSeq(s, k + 1, Len(s))) = Len(s) - k
          /\ ToSet(SubSeq(s, 1, k)) \cup ToSet(SubSeq(s, k + 1, Len(s))) = ToSet(s)
          /\ IsInjective(SubSeq(s, 1, k)) /\ IsInjective(SubSeq(s, k + 1, Len(s)))
          /\ ToSet(SubSeq(s, 1, k)) \cap ToSet(SubSeq(s, k + 1, Len(s))) = {}
      BY <3>1, Cut
    <3>3. Len(s) \in Nat /\ Len(s) - k <= Len(s)
      OBVIOUS
    <3>4. QED
      BY <3>2, <3>3
  <2>3. IsInjective(first) /\ ToSet(first) \cap ToSet(x) = {}
    BY <1>3, <2>2 DEF Placed4
  <2>4. PICK z \in Seq(MtsIds) : z = first \o x /\ IsInjective(z) /\ ToSet(z) = ToSet(first) \cup ToSet(x)
    <3>1. IsInjective(x)
      BY <2>2
    <3>2. first \o x \in Seq(MtsIds) /\ IsInjective(first \o x) /\ ToSet(first \o x) = ToSet(first) \cup ToSet(x)
      BY <2>3, <3>1, Together
    <3>3. QED
      BY <3>2
  <2>5. Placed4(t, z, y, w, d, n)
    BY <1>3, <2>2, <2>4 DEF Placed4
  <2>6. mtsPackets' = MtsRecord(t, z, y, w, n, d, e)
    BY <1>3, <2>1, <2>2, <2>4
  <2>7. Len(y) <= MtsStash
    <3>1. Len(y) \in Nat /\ Len(s) \in Nat /\ MtsStash \in Nat
      OBVIOUS
    <3>2. QED
      BY <1>1, <2>2, <3>1
  <2>8. QED
    BY <1>2, <2>5, <2>6, <2>7, MtsPut
<1>4. CASE q # <<>> /\ mtsPackets' = [WithStash(<<Head(q)>>) EXCEPT !.queue = Tail(@)]
  <2>1. PICK h \in MtsIds, t \in Seq(MtsIds) : h = Head(q) /\ t = Tail(q)
    <3>1. Head(q) \in MtsIds /\ Tail(q) \in Seq(MtsIds)
      BY <1>4
    <3>2. QED
      BY <3>1
  <2>2. <<h>> \in Seq(MtsIds) /\ Len(<<h>>) = 1 /\ <<h>> \o <<>> = <<h>>
    BY <2>1
  <2>3. Placed4(t, <<h>>, s, w, d, n)
    BY ZenonT(40), <1>1, <1>2, <1>4, <2>1, <2>2, TakesFirst
  <2>4. mtsPackets' = MtsRecord(t, <<h>> \o SubSeq(s, 1, MtsRoom(<<h>>)), SubSeq(s, MtsRoom(<<h>>) + 1, Len(s)), w,
                                n, d, g)
    BY <1>1, <1>4, <2>1 DEF WithStash, RestOfStash, MtsRecord
  <2>5. Len(<<h>>) <= MtsBatch
    BY <2>2
  <2>6. QED
    BY <1>3, <2>2, <2>3, <2>4, <2>5
<1>5. CASE mtsPackets' = [WithStash(<<>>) EXCEPT !.signal = FALSE]
  <2>1. mtsPackets' = MtsRecord(q, <<>> \o SubSeq(s, 1, MtsRoom(<<>>)), SubSeq(s, MtsRoom(<<>>) + 1, Len(s)), w,
                                n, d, FALSE)
    BY <1>1, <1>5 DEF WithStash, RestOfStash, MtsRecord
  <2>2. <<>> \in Seq(MtsIds) /\ Len(<<>>) <= MtsBatch
    OBVIOUS
  <2>3. QED
    BY <1>1, <1>2, <1>3, <2>1, <2>2
<1>6. QED
  BY <1>1, <1>4, <1>5 DEF MtsTake, MtsSends

LEMMA MtsGatherKeeps == ASSUME MtsInv, MtsGather PROVE MtsPlacesInv'
<1> USE MtsAssumption
<1>1. PICK q, b, s, w \in Seq(MtsIds), n \in 0..MaxMtsPackets, g \in BOOLEAN, d \in SUBSET MtsIds :
           /\ mtsPackets = MtsRecord(q, b, s, w, n, d, g) /\ Placed4(q, b, s, w, d, n) /\ Len(s) <= MtsStash
           /\ mtsPackets.queue = q /\ mtsPackets.batch = b /\ mtsPackets.stash = s /\ mtsPackets.board = w
           /\ mtsPackets.sent = n /\ mtsPackets.dropped = d /\ mtsPackets.signal = g
           /\ mtsWriter \in {"idle", "ended"} => b = <<>>
  BY MtsHolds
<1>2. /\ q # <<>> /\ mtsWriter' = "gather"
      /\ mtsPackets' = [mtsPackets EXCEPT !.batch = Append(@, Head(q)), !.queue = Tail(q)]
  BY <1>1 DEF MtsGather, MtsSends
<1>3. mtsPackets' = MtsRecord(Tail(q), Append(b, Head(q)), s, w, n, d, g)
  BY <1>1, <1>2 DEF MtsRecord
<1>4. Tail(q) \in Seq(MtsIds) /\ Append(b, Head(q)) \in Seq(MtsIds)
  BY <1>2
<1>5. Placed4(Tail(q), Append(b, Head(q)), s, w, d, n)
  BY <1>1, <1>2, TakesFirst
<1>6. QED
  BY ZenonT(40), <1>1, <1>2, <1>3, <1>4, <1>5, MtsPut

\* What Stashed makes of the places: a stash within its bound never loses what it held.
LEMMA MtsStashes ==
  ASSUME NEW q \in Seq(MtsIds), NEW b \in Seq(MtsIds), NEW s \in Seq(MtsIds), NEW w \in Seq(MtsIds),
         NEW n \in 0..MaxMtsPackets, NEW d \in SUBSET MtsIds, NEW g \in BOOLEAN,
         mtsPackets = MtsRecord(q, b, s, w, n, d, g), Placed4(q, b, s, w, d, n), Len(s) <= MtsStash,
         mtsPackets' = Stashed(b)
  PROVE  MtsPlacesInv'
<1> USE MtsAssumption
<1>1. PICK all \in Seq(MtsIds) : all = s \o b /\ Len(all) = Len(s) + Len(b)
  <2>1. s \o b \in Seq(MtsIds) /\ Len(s \o b) = Len(s) + Len(b)
    OBVIOUS
  <2>2. QED
    BY <2>1
<1>2. PICK k \in Len(s)..Len(all) : k = (IF Len(all) < MtsStash THEN Len(all) ELSE MtsStash) /\ k <= MtsStash
  <2>1. Len(s) \in Nat /\ Len(b) \in Nat /\ Len(all) \in Nat /\ MtsStash \in Nat
    OBVIOUS
  <2>2. CASE Len(all) < MtsStash
    BY <1>1, <2>1, <2>2
  <2>3. CASE ~(Len(all) < MtsStash)
    <3>1. MtsStash \in Len(s)..Len(all) /\ MtsStash <= MtsStash
      BY <2>1, <2>3
    <3>2. QED
      BY <2>3, <3>1
  <2>4. QED
    BY <2>2, <2>3
<1>3. PICK x \in Seq(MtsIds) : x = SubSeq(s \o b, 1, k) /\ Len(x) = k
  <2>1. SubSeq(s \o b, 1, k) \in Seq(MtsIds) /\ Len(SubSeq(s \o b, 1, k)) = k
    BY <1>1, <1>2, StashesBatch
  <2>2. QED
    BY <2>1
<1>4. Placed4(q, <<>>, x, w, d \cup (ToSet(b) \ ToSet(x)), n)
  BY <1>1, <1>2, <1>3, StashesBatch
<1>5. mtsPackets' = MtsRecord(q, <<>>, x, w, n, d \cup (ToSet(b) \ ToSet(x)), g)
  <2>1. mtsPackets.stash = s
    BY DEF MtsRecord
  <2>2. mtsPackets' = [mtsPackets EXCEPT !.batch = <<>>, !.stash = x, !.dropped = @ \cup (ToSet(b) \ ToSet(x))]
    BY <1>1, <1>2, <1>3, <2>1 DEF Stashed
  <2>3. QED
    BY <2>2 DEF MtsRecord
<1>6. <<>> \in Seq(MtsIds) /\ Len(x) <= MtsStash
  BY <1>2, <1>3
<1>7. QED
  BY <1>4, <1>5, <1>6, MtsPut

LEMMA MtsFlushKeeps == ASSUME MtsInv, MtsFlush PROVE MtsPlacesInv'
<1>1. PICK q, b, s, w \in Seq(MtsIds), n \in 0..MaxMtsPackets, g \in BOOLEAN, d \in SUBSET MtsIds :
           /\ mtsPackets = MtsRecord(q, b, s, w, n, d, g) /\ Placed4(q, b, s, w, d, n) /\ Len(s) <= MtsStash
           /\ mtsPackets.queue = q /\ mtsPackets.batch = b /\ mtsPackets.stash = s /\ mtsPackets.board = w
           /\ mtsPackets.sent = n /\ mtsPackets.dropped = d /\ mtsPackets.signal = g
           /\ mtsWriter \in {"idle", "ended"} => b = <<>>
  BY MtsHolds
<1>2. CASE mtsPackets' = mtsPackets /\ (mtsWriter' = "write" \/ b = <<>>)
  BY <1>1, <1>2, MtsPut
<1>3. CASE mtsPackets' = Stashed(b)
  BY <1>1, <1>3, MtsStashes
<1>4. QED
  BY <1>1, <1>2, <1>3 DEF MtsFlush, MtsSends

LEMMA MtsWritesKeeps == ASSUME MtsInv, MtsWrites PROVE MtsPlacesInv'
<1>1. PICK q, b, s, w \in Seq(MtsIds), n \in 0..MaxMtsPackets, g \in BOOLEAN, d \in SUBSET MtsIds :
           /\ mtsPackets = MtsRecord(q, b, s, w, n, d, g) /\ Placed4(q, b, s, w, d, n) /\ Len(s) <= MtsStash
           /\ mtsPackets.queue = q /\ mtsPackets.batch = b /\ mtsPackets.stash = s /\ mtsPackets.board = w
           /\ mtsPackets.sent = n /\ mtsPackets.dropped = d /\ mtsPackets.signal = g
           /\ mtsWriter \in {"idle", "ended"} => b = <<>>
  BY MtsHolds
<1>2. PICK z \in Seq(MtsIds) : z = w \o b
  <2>1. w \o b \in Seq(MtsIds)
    OBVIOUS
  <2>2. QED
    BY <2>1
<1>3. mtsPackets' = MtsRecord(q, <<>>, s, z, n, d, g)
  BY <1>1, <1>2 DEF MtsWrites, MtsSends, MtsRecord
<1>4. Placed4(q, <<>>, s, z, d, n)
  BY <1>1, <1>2, WritesBatch
<1>5. <<>> \in Seq(MtsIds)
  OBVIOUS
<1>6. QED
  BY <1>1, <1>3, <1>4, <1>5, MtsPut

LEMMA MtsFailsKeeps == ASSUME MtsInv, MtsWriteFails PROVE MtsPlacesInv'
<1>1. PICK q, b, s, w \in Seq(MtsIds), n \in 0..MaxMtsPackets, g \in BOOLEAN, d \in SUBSET MtsIds :
           /\ mtsPackets = MtsRecord(q, b, s, w, n, d, g) /\ Placed4(q, b, s, w, d, n) /\ Len(s) <= MtsStash
           /\ mtsPackets.queue = q /\ mtsPackets.batch = b /\ mtsPackets.stash = s /\ mtsPackets.board = w
           /\ mtsPackets.sent = n /\ mtsPackets.dropped = d /\ mtsPackets.signal = g
           /\ mtsWriter \in {"idle", "ended"} => b = <<>>
  BY MtsHolds
<1>2. mtsPackets' = Stashed(b)
  BY <1>1 DEF MtsWriteFails, MtsSends
<1>3. QED
  BY <1>1, <1>2, MtsStashes

LEMMA MtsWriterEndsKeeps == ASSUME MtsInv, MtsWriterEnds PROVE MtsPlacesInv'
<1>1. PICK q, b, s, w \in Seq(MtsIds), n \in 0..MaxMtsPackets, g \in BOOLEAN, d \in SUBSET MtsIds :
           /\ mtsPackets = MtsRecord(q, b, s, w, n, d, g) /\ Placed4(q, b, s, w, d, n) /\ Len(s) <= MtsStash
           /\ mtsPackets.queue = q /\ mtsPackets.batch = b /\ mtsPackets.stash = s /\ mtsPackets.board = w
           /\ mtsPackets.sent = n /\ mtsPackets.dropped = d /\ mtsPackets.signal = g
           /\ mtsWriter \in {"idle", "ended"} => b = <<>>
  BY MtsHolds
<1>2. mtsPackets' = MtsRecord(q, <<>>, s, w, n, d \cup ToSet(b), g)
  BY <1>1 DEF MtsWriterEnds, MtsSends, MtsRecord
<1>3. Placed4(q, <<>>, s, w, d \cup ToSet(b), n)
  BY <1>1, DropsBatch
<1>4. <<>> \in Seq(MtsIds)
  OBVIOUS
<1>5. QED
  BY ZenonT(40), <1>1, <1>2, <1>3, <1>4, MtsPut

MtsTraffic == MtsSend \/ MtsTake \/ MtsGather \/ MtsFlush \/ MtsWrites \/ MtsWriteFails \/ MtsWriterEnds

LEMMA MtsTrafficKeeps == ASSUME MtsInv, MtsTraffic PROVE MtsInv'
<1>1. MtsPlacesInv'
  BY MtsSendKeeps, MtsTakeKeeps, MtsGatherKeeps, MtsFlushKeeps, MtsWritesKeeps, MtsFailsKeeps, MtsWriterEndsKeeps
     DEF MtsTraffic
<1>2. /\ UNCHANGED <<running, connected, mtsStopping, mtsLoop, mtsReserve, mtsShown, mtsToken, mtsWake, mtsClosed, mtsPanicked>>
      /\ mtsSocket' \in {mtsSocket, "closed"} /\ mtsWriter' \in {mtsWriter, "gather", "idle", "write", "ended"}
      /\ mtsForcing' \in {mtsForcing, [mtsForcing EXCEPT !["writer"].begins = TRUE]}
  <2>1. CASE MtsSend \/ MtsTake \/ MtsGather \/ MtsWrites \/ MtsWriterEnds
    BY <2>1 DEF MtsSend, MtsTake, MtsGather, MtsWrites, MtsWriterEnds, MtsSends, mtsLink, mtsWaiting
  <2>2. CASE MtsFlush
    BY <2>2 DEF MtsFlush, MtsSends, mtsLink, mtsWaiting
  <2>3. CASE MtsWriteFails
    BY <2>3 DEF MtsWriteFails, MtsSends, Forces
  <2>4. QED
    BY <2>1, <2>2, <2>3 DEF MtsTraffic
<1>3. mtsForcing' \in [MtsForcers -> MtsCallers2] /\ \A g \in MtsForcers : mtsForcing'[g].wake = mtsForcing[g].wake
  BY ZenonT(40), <1>2, MtsNow DEF MtsCallers2
<1>4. MtsWakesInv'
  BY <1>2, <1>3, MtsNow DEF MtsWakesInv
<1>5. MtsShownIsServed'
  BY <1>2, MtsNow DEF MtsShownIsServed
<1>6. QED
  BY <1>1, <1>2, <1>3, <1>4, <1>5, MtsNow, MtsOK

LEMMA MtsStopKeeps == ASSUME MtsInv, MtsStop PROVE MtsInv'
<1>1. /\ UNCHANGED <<mtsLoop, mtsReserve, mtsShown, mtsToken, mtsWake, mtsClosed, mtsForcing, mtsPanicked, mtsWriter, mtsPackets>>
      /\ mtsSocket' \in {mtsSocket, "closed"}
  BY DEF MtsStop, mtsWaiting, mtsSending
<1>2. /\ mtsStopping' \in {"closing", "flags", "done"}
      /\ running' \in {running, FALSE} /\ connected' \in {connected, FALSE}
  BY DEF MtsStop, Stopped
<1>3. running' \in BOOLEAN /\ connected' \in BOOLEAN
  BY <1>2, MtsNow
<1>4. MtsWakesInv' /\ MtsShownIsServed' /\ MtsPlacesInv'
  BY <1>1, MtsNow DEF MtsWakesInv, MtsShownIsServed, MtsPlacesInv
<1>5. QED
  BY <1>1, <1>2, <1>3, <1>4, MtsNow, MtsOK

LEMMA MtsStay == ASSUME MtsInv, UNCHANGED mtsOwn, FlagsOK' PROVE MtsInv'
<1>1. UNCHANGED <<mtsStopping, mtsLoop, mtsReserve, mtsShown, mtsSocket, mtsToken, mtsWake, mtsClosed, mtsForcing, mtsPanicked,
                  mtsWriter, mtsPackets>>
  BY DEF mtsOwn, mtsLink, mtsWaiting, mtsSending
<1>2. MtsWakesInv' /\ MtsShownIsServed' /\ MtsPlacesInv'
  BY <1>1, MtsNow DEF MtsWakesInv, MtsShownIsServed, MtsPlacesInv
<1>3. QED
  BY <1>1, <1>2, MtsNow, MtsOK DEF FlagsOK

MtsCalls == \/ \E f \in MtsCallers : MtsCall(f) \/ MtsPingFails(f)
            \/ \E f \in MtsForcers : MtsForce(f) \/ MtsCloseWake(f)

LEMMA MtsKeep == MtsInv /\ [MtsNext]_mtsVars => MtsInv'
<1> SUFFICES ASSUME MtsInv, [MtsNext]_mtsVars PROVE MtsInv'
  OBVIOUS
<1>1. CASE UNCHANGED mtsVars
  BY <1>1, MtsStay, MtsNow DEF mtsVars, mtsOwn, FlagsOK
<1>2. CASE MtsTries \/ MtsArm \/ MtsWaitEnds
  BY <1>2, MtsTriesKeep, MtsWaitKeeps
<1>3. CASE MtsCalls
  BY <1>3, MtsCallsKeep DEF MtsCalls, MtsForcers
<1>4. CASE MtsTraffic \/ MtsStop
  BY <1>4, MtsTrafficKeeps, MtsStopKeeps
<1>5. QED
  BY <1>1, <1>2, <1>3, <1>4 DEF MtsNext, MtsTries, MtsCalls, MtsTraffic

LEMMA MtsShow == MtsInv => MtsTypeOK /\ MtsWakesOnce /\ MtsShownIsServed /\ MtsAccounted
<1> SUFFICES ASSUME MtsInv PROVE MtsWakesOnce /\ MtsAccounted
  BY DEF MtsInv
<1>1. MtsWakesOnce
  BY MtsNow DEF MtsWakesInv, MtsWakesOnce
<1>2. MtsAccounted
  <2>1. /\ mtsPackets.queue \in Seq(MtsIds) /\ mtsPackets.batch \in Seq(MtsIds) /\ mtsPackets.stash \in Seq(MtsIds)
        /\ mtsPackets.board \in Seq(MtsIds)
    BY MtsNow DEF MtsPlacesInv, MtsStore
  <2>2. Placed4(mtsPackets.queue, mtsPackets.batch, mtsPackets.stash, mtsPackets.board, mtsPackets.dropped,
                mtsPackets.sent)
    BY MtsNow DEF MtsPlacesInv
  <2>3. QED
    BY <2>1, <2>2, PlacesShow DEF MtsAccounted
<1>3. QED
  BY <1>1, <1>2

LEMMA MtsGo == ASSUME MtsInv, [MtsNext]_mtsVars PROVE MayGo(MtsPhase, connected, MtsPhase', connected')
<1>1. CASE UNCHANGED mtsVars
  BY <1>1 DEF mtsVars, MtsPhase, MayGo
<1>2. CASE MtsTries
  BY <1>2 DEF MtsTries, MtsSlot, MtsGuest, MtsDial, MtsServerFails, MtsBetween, MtsConnected, MtsServeEnds, MtsRetrying,
     MtsGoes, MtsPhase, MayGo
<1>3. CASE MtsArm \/ MtsWaitEnds
  BY <1>3 DEF MtsArm, MtsWaitEnds, MtsGoes, MtsPhase, MayGo
<1>4. CASE MtsCalls \/ MtsTraffic
  <2>1. UNCHANGED <<mtsLoop, connected>>
    BY <1>4 DEF MtsCalls, MtsCall, MtsPingFails, MtsForce, MtsCloseWake, MtsTraffic, MtsSend, MtsTake, MtsGather, MtsFlush,
       MtsWrites, MtsWriteFails, MtsWriterEnds, MtsSends
  <2>2. QED
    BY <2>1 DEF MtsPhase, MayGo
<1>5. CASE MtsStop
  <2>1. MtsPhase' = MtsPhase /\ connected' \in {connected, FALSE}
    BY <1>5 DEF MtsStop, Stopped, MtsPhase
  <2>2. CASE connected' = connected
    BY <2>1, <2>2 DEF MayGo
  <2>3. CASE connected' # connected
    <3>1. connected /\ connected' = FALSE
      BY <2>1, <2>3, MtsNow
    <3>2. QED
      BY <2>1, <3>1 DEF MayGo
  <2>4. QED
    BY <2>2, <2>3
<1>6. QED
  BY <1>1, <1>2, <1>3, <1>4, <1>5 DEF MtsNext, MtsTries, MtsCalls, MtsTraffic

\* So does the MTS Link carrier.
THEOREM MtsKeepOrder == MtsSpec => MtsKeepsOrder
<1>1. MtsSpec => []MtsInv
  BY MtsStarts, MtsKeep, PTL DEF MtsSpec
<1>2. Started /\ MtsInit => MtsPromised!CarrierInit
  BY DEF MtsInit, Started, MtsPromised!CarrierInit, MtsPhase
<1>3. MtsInv /\ [MtsNext]_mtsVars => [MtsPromised!CarrierNext]_(MtsPromised!carrierVars)
  <2> SUFFICES ASSUME MtsInv, [MtsNext]_mtsVars PROVE [MtsPromised!CarrierNext]_(MtsPromised!carrierVars)
    OBVIOUS
  <2>1. MayGo(MtsPhase, connected, MtsPhase', connected')
    BY MtsGo
  <2>2. QED
    BY <2>1 DEF MayGo, MtsPromised!CarrierNext, MtsPromised!carrierVars, MtsPromised!Challenged, MtsPromised!Solved,
       MtsPromised!ComesUp, MtsPromised!Fails, MtsPromised!Blocked, MtsPromised!Reports, MtsPromised!TriesAgain,
       MtsPromised!Disconnects, MtsPromised!Ends
<1>4. QED
  BY <1>1, <1>2, <1>3, PTL DEF MtsSpec, MtsKeepsOrder, MtsPromised!CarrierSpec

----------------------------------------------------------------------------
(* The Mail.ru carrier.                                                    *)

LEMMA FirstIsChain == FirstChain \in Chains
<1>1. \E c \in Chains : \A d \in Chains : c <= d
  BY LeastOf, MailruAssumption
<1>2. QED
  BY <1>1 DEF FirstChain

MailWaits(c) == chain[c].at \in {"emit", "wait"}

\* reconnecting belongs to one chain that waits: the chains that end because of it leave that one.
MailWaitInv ==
    /\ SomeChainLives
    /\ \A c \in Chains : MailWaits(c) => reconnecting /\ \A d \in Chains : MailWaits(d) => d = c
    /\ reconnecting => \E c \in Chains : MailWaits(c)

\* Without a caller of ApplyCookies there is one chain.
MailOneChain == ~mayApply => applying.at = "idle" /\ \A c \in Chains : c # FirstChain => chain[c].at = "none"

MailKeepaliveCall == [at : {"idle", "close"}, session : Chains \cup {0}]
MailApplyCall == [at : {"idle", "close", "schedule"}, session : Chains \cup {0}]

MailInv ==
    /\ FlagsOK /\ MailruTypeOK /\ mailKeepalive \in MailKeepaliveCall /\ applying \in MailApplyCall
    /\ MailWaitInv /\ MailOneChain

LEMMA MailNow ==
  ASSUME MailInv
  PROVE  /\ running \in BOOLEAN /\ connected \in BOOLEAN /\ chain \in [Chains -> Chain] /\ mailSession \in Chains \cup {0}
         /\ mailWriters \in 0..MaxMailWriters /\ reconnecting \in BOOLEAN
         /\ mailKeepalive \in MailKeepaliveCall /\ applying \in MailApplyCall
         /\ mayApply \in BOOLEAN /\ applies \in 0..MaxApplies /\ MailWaitInv /\ MailOneChain
  BY DEF MailInv, MailruTypeOK, FlagsOK

LEMMA MailOK ==
  ASSUME running' \in BOOLEAN, connected' \in BOOLEAN, chain' \in [Chains -> Chain], mailSession' \in Chains \cup {0},
         mailWriters' \in 0..MaxMailWriters, reconnecting' \in BOOLEAN,
         mailKeepalive' \in MailKeepaliveCall, applying' \in MailApplyCall,
         mayApply' \in BOOLEAN, applies' \in 0..MaxApplies, MailWaitInv', MailOneChain'
  PROVE  MailInv'
<1>1. /\ mailKeepalive'.at \in {"idle", "close"} /\ mailKeepalive'.session \in Chains \cup {0}
      /\ applying'.at \in {"idle", "close", "schedule"} /\ applying'.session \in Chains \cup {0}
  BY DEF MailKeepaliveCall, MailApplyCall
<1>2. MailruTypeOK'
  BY <1>1 DEF MailruTypeOK
<1>3. QED
  BY <1>2 DEF MailInv, FlagsOK

LEMMA MailNoChain == NoChain \in Chain /\ NoCall \in MailKeepaliveCall /\ NoCall \in MailApplyCall
  BY DEF NoChain, Chain, NoCall, MailKeepaliveCall, MailApplyCall

LEMMA MailStarts == Started /\ MailruInit => MailInv
<1> SUFFICES ASSUME Started, MailruInit PROVE MailInv
  OBVIOUS
<1> USE MailruAssumption
<1>1. running \in BOOLEAN /\ connected \in BOOLEAN
  BY DEF Started
<1>2. chain \in [Chains -> Chain]
  BY DEF MailruInit, NoChain, Chain
<1>3. chain[FirstChain].at = "slot" /\ \A c \in Chains : c # FirstChain => chain[c].at = "none"
  BY FirstIsChain DEF MailruInit, NoChain
<1>4. \A c \in Chains : ~MailWaits(c)
  BY <1>3 DEF MailWaits
<1>5. MailWaitInv
  <2>1. SomeChainLives
    BY <1>3, FirstIsChain DEF SomeChainLives, Idle
  <2>2. reconnecting = FALSE
    BY DEF MailruInit
  <2>3. QED
    BY <1>4, <2>1, <2>2 DEF MailWaitInv
<1>6. MailOneChain
  BY <1>3 DEF MailruInit, MailOneChain, NoCall
<1>7. mailKeepalive \in MailKeepaliveCall /\ applying \in MailApplyCall
  BY MailNoChain DEF MailruInit
<1>8. MailruTypeOK
  <2>1. reconnecting \in BOOLEAN /\ mayApply \in BOOLEAN
    BY DEF MailruInit
  <2>2. /\ mailKeepalive.at \in {"idle", "close"} /\ mailKeepalive.session \in Chains \cup {0}
        /\ applying.at \in {"idle", "close", "schedule"} /\ applying.session \in Chains \cup {0}
    BY <1>7 DEF MailKeepaliveCall, MailApplyCall
  <2>3. QED
    BY <1>2, <2>1, <2>2 DEF MailruInit, MailruTypeOK
<1>9. QED
  BY <1>1, <1>5, <1>6, <1>7, <1>8 DEF MailInv, FlagsOK

\* A chain moves that neither waits nor is about to, and ends only when the carrier was stopped.
LEMMA MailMoves ==
  ASSUME MailInv, NEW c \in Chains, NEW v \in Chain, chain' = [chain EXCEPT ![c] = v], ~MailWaits(c),
         v.at \notin {"emit", "wait", "none"}, v.at = "ended" => ~running, UNCHANGED <<running, reconnecting>>
  PROVE  chain' \in [Chains -> Chain] /\ MailWaitInv'
<1>1. chain' \in [Chains -> Chain] /\ \A d \in Chains : chain'[d] = IF d = c THEN v ELSE chain[d]
  BY MailNow
<1>2. \A d \in Chains : MailWaits(d)' <=> MailWaits(d)
  BY <1>1 DEF MailWaits
<1>3. SomeChainLives'
  <2>1. running => v.at \notin {"none", "ended"}
    OBVIOUS
  <2>2. QED
    BY <1>1, <2>1 DEF SomeChainLives, Idle
<1>4. QED
  BY <1>1, <1>2, <1>3, MailNow DEF MailWaitInv

\* No chain comes to another place.
LEMMA MailStands ==
  ASSUME MailInv, chain' \in [Chains -> Chain], \A c \in Chains : chain'[c].at = chain[c].at,
         reconnecting' = reconnecting, running' => running
  PROVE  MailWaitInv'
<1>1. \A d \in Chains : MailWaits(d)' <=> MailWaits(d)
  BY DEF MailWaits
<1>2. SomeChainLives'
  BY MailNow DEF MailWaitInv, SomeChainLives, Idle
<1>3. QED
  BY <1>1, <1>2, MailNow DEF MailWaitInv

MailTries(c) ==
    \/ MailSlot(c) \/ MailFetch(c) \/ MailDial(c) \/ MailAttemptFails(c) \/ MailConnected(c) \/ MailReadFails(c) \/ MailLeaves(c)

LEMMA MailTriesKeep == ASSUME MailInv, NEW c \in Chains, MailTries(c) PROVE MailInv'
<1>1. chain[c] \in Chain /\ ~MailWaits(c) /\ chain[c].at # "none"
  BY MailNow DEF MailTries, MailSlot, MailFetch, MailDial, MailAttemptFails, MailConnected, MailReadFails, MailLeaves,
     Goes, MailWaits
<1>2. PICK v \in Chain : /\ chain' = [chain EXCEPT ![c] = v] /\ v.at \notin {"emit", "wait", "none"}
                         /\ v.at = "ended" => ~running
  <2>1. CASE MailSlot(c)
    <3>1. CASE chain' = [chain EXCEPT ![c].at = "fetch", ![c].existing = (mailSession # 0)]
      <4> DEFINE e == (mailSession # 0)
      <4>1. e \in BOOLEAN
        OBVIOUS
      <4> HIDE DEF e
      <4>2. [chain[c] EXCEPT !.at = "fetch", !.existing = e] \in Chain
        BY <1>1, <4>1 DEF Chain
      <4>3. [chain[c] EXCEPT !.at = "fetch", !.existing = e].at = "fetch"
        BY <1>1 DEF Chain
      <4>4. chain' = [chain EXCEPT ![c] = [chain[c] EXCEPT !.at = "fetch", !.existing = e]]
        <5>1. chain' = [chain EXCEPT ![c].at = "fetch", ![c].existing = e]
          BY <3>1 DEF e
        <5>2. QED
          BY <1>1, <5>1, MailNow DEF Chain
      <4>5. QED
        BY <4>2, <4>3, <4>4
    <3>2. CASE ~running /\ chain' = [chain EXCEPT ![c] = [NoChain EXCEPT !.at = "ended"]]
      <4>1. [NoChain EXCEPT !.at = "ended"] \in Chain
        BY DEF NoChain, Chain
      <4>2. QED
        BY <3>2, <4>1 DEF NoChain
    <3>3. QED
      BY <2>1, <3>1, <3>2 DEF MailSlot
  <2>2. CASE MailFetch(c) \/ MailConnected(c)
    <3>1. PICK to \in {"dial", "live"} : chain' = [chain EXCEPT ![c] = [chain[c] EXCEPT !.at = to]]
      BY <2>2 DEF MailFetch, MailConnected, Goes
    <3>2. [chain[c] EXCEPT !.at = to] \in Chain /\ [chain[c] EXCEPT !.at = to].at = to
      BY <1>1 DEF Chain
    <3>3. QED
      BY <3>1, <3>2
  <2>3. CASE MailDial(c)
    <3>1. chain' = [chain EXCEPT ![c] = [chain[c] EXCEPT !.at = "handshake", !.open = TRUE]]
      BY <1>1, <2>3, MailNow DEF MailDial, Chain
    <3>2. [chain[c] EXCEPT !.at = "handshake", !.open = TRUE] \in Chain
      BY <1>1 DEF Chain
    <3>3. [chain[c] EXCEPT !.at = "handshake", !.open = TRUE].at = "handshake"
      BY <1>1 DEF Chain
    <3>4. QED
      BY <3>1, <3>2, <3>3
  <2>4. CASE MailAttemptFails(c) \/ MailReadFails(c)
    <3>1. [NoChain EXCEPT !.at = "failed"] \in Chain /\ [NoChain EXCEPT !.at = "failed"].at = "failed"
      BY DEF NoChain, Chain
    <3>2. QED
      BY <2>4, <3>1 DEF MailAttemptFails, MailReadFails
  <2>5. CASE MailLeaves(c)
    <3>1. [at |-> "ended", existing |-> FALSE, open |-> TRUE] \in Chain
      BY DEF Chain
    <3>2. QED
      BY <2>5, <3>1 DEF MailLeaves
  <2>6. QED
    BY <2>1, <2>2, <2>3, <2>4, <2>5 DEF MailTries
<1>3. UNCHANGED <<running, reconnecting, mayApply, applies>> /\ mailSession' \in {mailSession, c}
      /\ connected' \in {connected, TRUE, FALSE}
      /\ mailKeepalive' \in {mailKeepalive, Over(mailKeepalive, c)} /\ applying' \in {applying, Over(applying, c)}
  BY DEF MailTries, MailSlot, MailFetch, MailDial, MailAttemptFails, MailConnected, MailReadFails, MailLeaves, mailLink,
     mailCalls
<1>4. mailWriters' \in 0..MaxMailWriters
  <2>1. CASE MailConnected(c)
    <3>1. mailWriters' = mailWriters \/ (mailWriters < MaxMailWriters /\ mailWriters' = mailWriters + 1)
      BY <2>1 DEF MailConnected
    <3>2. QED
      BY <3>1, MailNow, MailruAssumption
  <2>2. CASE ~MailConnected(c)
    BY <2>2, MailNow DEF MailTries, MailSlot, MailFetch, MailDial, MailAttemptFails, MailReadFails, MailLeaves, mailLink
  <2>3. QED
    BY <2>1, <2>2
<1>5. /\ mailKeepalive' \in MailKeepaliveCall /\ mailKeepalive'.at = mailKeepalive.at
      /\ applying' \in MailApplyCall /\ applying'.at = applying.at
  BY <1>3, MailNow DEF Over, MailKeepaliveCall, MailApplyCall
<1>6. chain' \in [Chains -> Chain] /\ MailWaitInv'
  BY <1>1, <1>2, <1>3, MailMoves
<1>7. MailOneChain'
  <2>1. mayApply \/ c = FirstChain
    BY <1>1, MailNow DEF MailOneChain
  <2>2. \A d \in Chains : d # c => chain'[d] = chain[d]
    BY <1>2, MailNow
  <2>3. QED
    BY <1>3, <1>5, <2>1, <2>2, MailNow DEF MailOneChain
<1>8. connected' \in BOOLEAN
  BY <1>3, MailNow
<1>9. QED
  BY <1>3, <1>4, <1>5, <1>6, <1>7, <1>8, MailNow, MailOK

MailReconnects(c) == MailSchedule(c) \/ MailRetrying(c) \/ MailWaitEnds(c)

LEMMA MailReconnectsKeep == ASSUME MailInv, NEW c \in Chains, MailReconnects(c) PROVE MailInv'
<1>1. chain[c] \in Chain /\ chain[c].at # "none"
  BY MailNow DEF MailReconnects, MailSchedule, MailRetrying, MailWaitEnds, Goes
<1>2. UNCHANGED <<running, connected, mailSession, mailWriters, mailKeepalive, applying, mayApply, applies>>
  BY DEF MailReconnects, MailSchedule, MailRetrying, MailWaitEnds, mailLink, mailCalls
<1>3. PICK to \in {"emit", "ended", "wait", "slot"} : chain' = [chain EXCEPT ![c] = [chain[c] EXCEPT !.at = to]]
  BY DEF MailReconnects, MailSchedule, MailRetrying, MailWaitEnds, Goes
<1>4. [chain[c] EXCEPT !.at = to] \in Chain /\ [chain[c] EXCEPT !.at = to].at = to
  BY <1>1 DEF Chain
<1>5. chain' \in [Chains -> Chain] /\ chain'[c].at = to /\ \A d \in Chains : d # c => chain'[d] = chain[d]
  BY <1>3, <1>4, MailNow
<1>6. reconnecting' \in BOOLEAN /\ MailWaitInv'
  <2>0. \A d \in Chains : d # c => (MailWaits(d)' <=> MailWaits(d))
    BY <1>5 DEF MailWaits
  <2>1. CASE MailSchedule(c) /\ running /\ ~reconnecting
    <3>1. chain'[c].at = "emit" /\ reconnecting' = TRUE
      BY <1>1, <2>1, MailNow DEF MailSchedule, Chain
    <3>2. \A d \in Chains : ~MailWaits(d)
      BY <2>1, MailNow DEF MailWaitInv
    <3>3. SomeChainLives'
      BY <3>1 DEF SomeChainLives, Idle
    <3>4. MailWaits(c)'
      BY <3>1 DEF MailWaits
    <3>5. QED
      BY <2>0, <3>1, <3>2, <3>3, <3>4 DEF MailWaitInv
  <2>2. CASE MailSchedule(c) /\ ~(running /\ ~reconnecting)
    <3>1. chain'[c].at = "ended" /\ reconnecting' = reconnecting /\ chain[c].at = "failed"
      BY <1>1, <2>2, MailNow DEF MailSchedule, Chain
    <3>2. ~MailWaits(c) /\ ~MailWaits(c)'
      BY <3>1 DEF MailWaits
    <3>3. SomeChainLives'
      <4>1. CASE ~running
        BY <1>2, <4>1 DEF SomeChainLives
      <4>2. CASE running
        <5>1. PICK d \in Chains : MailWaits(d)
          BY <2>2, <4>2, MailNow DEF MailWaitInv
        <5>2. MailWaits(d)'
          BY <2>0, <3>2, <5>1
        <5>3. QED
          BY <5>2 DEF SomeChainLives, Idle, MailWaits
      <4>3. QED
        BY <4>1, <4>2
    <3>4. \A d \in Chains : MailWaits(d)' <=> MailWaits(d)
      BY <2>0, <3>2
    <3>5. QED
      BY <3>1, <3>3, <3>4, MailNow DEF MailWaitInv
  <2>3. CASE MailRetrying(c)
    <3>1. chain'[c].at = "wait" /\ reconnecting' = reconnecting /\ chain[c].at = "emit"
      BY <1>1, <2>3, MailNow DEF MailRetrying, Goes, Chain
    <3>2. MailWaits(c) /\ MailWaits(c)'
      BY <3>1 DEF MailWaits
    <3>3. SomeChainLives'
      BY <3>1 DEF SomeChainLives, Idle
    <3>4. \A d \in Chains : MailWaits(d)' <=> MailWaits(d)
      BY <2>0, <3>2
    <3>5. QED
      BY <3>1, <3>3, <3>4, MailNow DEF MailWaitInv
  <2>4. CASE MailWaitEnds(c)
    <3>1. chain'[c].at = (IF running THEN "slot" ELSE "ended") /\ reconnecting' = FALSE /\ chain[c].at = "wait"
      BY <1>1, <2>4, MailNow DEF MailWaitEnds, Goes, Reset, Chain
    <3>2. MailWaits(c) /\ ~MailWaits(c)'
      BY <3>1 DEF MailWaits
    <3>3. \A d \in Chains : ~MailWaits(d)'
      BY <2>0, <3>2, MailNow DEF MailWaitInv
    <3>4. SomeChainLives'
      BY <1>2, <3>1 DEF SomeChainLives, Idle
    <3>5. QED
      BY <3>1, <3>3, <3>4 DEF MailWaitInv
  <2>5. QED
    BY <2>1, <2>2, <2>3, <2>4 DEF MailReconnects
<1>7. MailOneChain'
  BY <1>1, <1>2, <1>5, MailNow DEF MailOneChain
<1>8. QED
  BY <1>2, <1>5, <1>6, <1>7, MailNow, MailOK

\* A connection is closed by another goroutine: no chain moves.
LEMMA MailCloses ==
  ASSUME MailInv, NEW s \in Chains \cup {0}
  PROVE  Closed(s) \in [Chains -> Chain] /\ \A c \in Chains : Closed(s)[c].at = chain[c].at
<1>1. CASE s = 0
  BY <1>1, MailNow DEF Closed
<1>2. CASE s # 0
  <2>1. s \in Chains /\ Closed(s) = [chain EXCEPT ![s] = [chain[s] EXCEPT !.open = FALSE]]
    BY <1>2, MailNow DEF Closed
  <2>2. [chain[s] EXCEPT !.open = FALSE] \in Chain /\ [chain[s] EXCEPT !.open = FALSE].at = chain[s].at
    BY <2>1, MailNow DEF Chain
  <2>3. QED
    BY <2>1, <2>2, MailNow
<1>3. QED
  BY <1>1, <1>2

MailOthers == MailKeepaliveFails \/ MailKeepaliveGivesUp \/ ApplyCookies \/ ApplyCloses \/ MailStop

LEMMA MailOthersKeep == ASSUME MailInv, MailOthers PROVE MailInv'
<1>1. /\ UNCHANGED <<mailWriters, reconnecting, mayApply>> /\ mailSession' \in {mailSession, 0}
      /\ running' \in {running, FALSE} /\ connected' \in {connected, FALSE}
  BY DEF MailOthers, MailKeepaliveFails, MailKeepaliveGivesUp, ApplyCookies, ApplyCloses, MailStop, mailLink, mailCalls,
     Stopped
<1>2. chain' \in [Chains -> Chain] /\ \A c \in Chains : chain'[c].at = chain[c].at
  <2>1. mailKeepalive.session \in Chains \cup {0} /\ applying.session \in Chains \cup {0}
    BY MailNow DEF MailKeepaliveCall, MailApplyCall
  <2>2. chain' \in {chain, Closed(mailKeepalive.session), Closed(applying.session)}
    BY DEF MailOthers, MailKeepaliveFails, MailKeepaliveGivesUp, ApplyCookies, ApplyCloses, MailStop
  <2>3. QED
    BY <2>1, <2>2, MailCloses, MailNow
<1>3. mailKeepalive' \in MailKeepaliveCall
  <2>1. CASE MailKeepaliveFails
    <3>1. (IF chain[mailSession].at = "live" THEN mailSession ELSE 0) \in Chains \cup {0}
      BY MailNow
    <3>2. QED
      BY <2>1, <3>1 DEF MailKeepaliveFails, MailKeepaliveCall
  <2>2. CASE ~MailKeepaliveFails
    BY <2>2, MailNow, MailNoChain DEF MailOthers, MailKeepaliveGivesUp, ApplyCookies, ApplyCloses, MailStop, mailCalls
  <2>3. QED
    BY <2>1, <2>2
<1>4. applying' \in MailApplyCall /\ (mayApply \/ applying' = applying)
  <2>1. CASE ApplyCookies
    <3>1. (IF mailSession # 0 /\ chain[mailSession].at = "live" THEN mailSession ELSE 0) \in Chains \cup {0}
      BY MailNow
    <3>2. QED
      BY <2>1, <3>1 DEF ApplyCookies, MailApplyCall
  <2>2. CASE ApplyCloses
    BY <2>2, MailNow DEF ApplyCloses, MailApplyCall, MailOneChain
  <2>3. CASE ~ApplyCookies /\ ~ApplyCloses
    BY <2>3, MailNow DEF MailOthers, MailKeepaliveFails, MailKeepaliveGivesUp, MailStop, mailCalls
  <2>4. QED
    BY <2>1, <2>2, <2>3
<1>5. applies' \in 0..MaxApplies
  <2>1. CASE ApplyCookies
    <3>1. applies < MaxApplies /\ applies' = applies + 1
      BY <2>1 DEF ApplyCookies
    <3>2. QED
      BY <3>1, MailNow, MailruAssumption
  <2>2. CASE ~ApplyCookies
    BY <2>2, MailNow DEF MailOthers, MailKeepaliveFails, MailKeepaliveGivesUp, ApplyCloses, MailStop, mailCalls
  <2>3. QED
    BY <2>1, <2>2
<1>6. running' \in BOOLEAN /\ connected' \in BOOLEAN /\ (running' => running)
  <2>1. running' \in BOOLEAN /\ connected' \in BOOLEAN
    BY <1>1, MailNow
  <2>2. CASE running' = running
    BY <2>1, <2>2
  <2>3. CASE running' = FALSE
    BY <2>1, <2>3
  <2>4. QED
    BY <1>1, <2>1, <2>2, <2>3
<1>7. MailWaitInv'
  BY <1>1, <1>2, <1>6, MailStands
<1>8. MailOneChain'
  BY <1>1, <1>2, <1>4, MailNow DEF MailOneChain
<1>9. QED
  BY <1>1, <1>2, <1>3, <1>4, <1>5, <1>6, <1>7, <1>8, MailNow, MailOK

LEMMA MailSchedulesKeep == ASSUME MailInv, ApplySchedules PROVE MailInv'
<1>1. /\ UNCHANGED <<running, connected, mailSession, mailWriters, reconnecting, mailKeepalive, mayApply, applies>>
      /\ applying' = NoCall /\ mayApply
  BY MailNow DEF ApplySchedules, mailLink, MailOneChain
<1>2. chain' \in [Chains -> Chain] /\ MailWaitInv'
  <2>1. CASE running
    <3>1. PICK c \in Chains : Idle(c) /\ chain' = [chain EXCEPT ![c] = [NoChain EXCEPT !.at = "failed"]]
      BY <2>1 DEF ApplySchedules
    <3>2. [NoChain EXCEPT !.at = "failed"] \in Chain /\ [NoChain EXCEPT !.at = "failed"].at = "failed"
      BY DEF NoChain, Chain
    <3>3. ~MailWaits(c)
      BY <3>1 DEF Idle, MailWaits
    <3>4. QED
      BY <1>1, <3>1, <3>2, <3>3, MailMoves
  <2>2. CASE ~running
    <3>1. chain' = chain
      BY <2>2 DEF ApplySchedules
    <3>2. QED
      BY <1>1, <3>1, MailNow, MailStands
  <2>3. QED
    BY <2>1, <2>2
<1>3. MailOneChain'
  BY <1>1 DEF MailOneChain
<1>4. applying' \in MailApplyCall
  BY <1>1, MailNoChain
<1>5. QED
  BY <1>1, <1>2, <1>3, <1>4, MailNow, MailOK

\* Another carrier, or none, moves; none starts this one again.
LEMMA MailStay == ASSUME MailInv, UNCHANGED mailOwn, FlagsOK', running' => running PROVE MailInv'
<1>1. UNCHANGED <<chain, mailSession, mailWriters, reconnecting, mailKeepalive, applying, mayApply, applies>>
  BY DEF mailOwn, mailLink, mailCalls
<1>2. MailWaitInv'
  BY <1>1, MailNow, MailStands
<1>3. MailOneChain'
  BY <1>1, MailNow DEF MailOneChain
<1>4. QED
  BY <1>1, <1>2, <1>3, MailNow, MailOK DEF FlagsOK

LEMMA MailKeep == MailInv /\ [MailruNext]_mailVars => MailInv'
<1> SUFFICES ASSUME MailInv, [MailruNext]_mailVars PROVE MailInv'
  OBVIOUS
<1>1. CASE UNCHANGED mailVars
  BY <1>1, MailStay, MailNow DEF mailVars, mailOwn, FlagsOK
<1>2. CASE \E c \in Chains : MailTries(c) \/ MailReconnects(c)
  BY <1>2, MailTriesKeep, MailReconnectsKeep
<1>3. CASE MailOthers \/ ApplySchedules
  BY <1>3, MailOthersKeep, MailSchedulesKeep
<1>4. QED
  BY <1>1, <1>2, <1>3 DEF MailruNext, MailTries, MailReconnects, MailOthers

LEMMA MailShow == MailInv => MailruTypeOK /\ SomeChainLives
  BY MailNow DEF MailInv, MailWaitInv

\* The one chain of a carrier whose cookies nobody applies.
LEMMA MailGo ==
  ASSUME MailInv, [MailruNext]_mailVars, ~mayApply
  PROVE  MayGo(MailruPhase, connected, MailruPhase', connected')
<1> DEFINE f == FirstChain
<1>0. f \in Chains /\ chain \in [Chains -> Chain] /\ connected \in BOOLEAN
  BY FirstIsChain, MailNow
<1>1. CASE UNCHANGED mailVars
  BY <1>1 DEF mailVars, MailruPhase, MayGo
<1>2. ASSUME NEW c \in Chains, MailTries(c) PROVE MayGo(MailruPhase, connected, MailruPhase', connected')
  <2>1. c = f
    BY <1>2, MailNow DEF MailOneChain, MailTries, MailSlot, MailFetch, MailDial, MailAttemptFails, MailConnected,
       MailReadFails, MailLeaves, Goes
  <2>2. CASE MailSlot(f) \/ MailFetch(f) \/ MailDial(f) \/ MailAttemptFails(f)
    <3>1. /\ chain[f].at \in {"slot", "fetch", "dial", "handshake"} /\ connected' = connected
          /\ chain'[f].at \in {"fetch", "ended", "dial", "handshake", "failed"}
      BY <1>0, <2>2 DEF MailSlot, MailFetch, MailDial, MailAttemptFails, Goes, Chain, NoChain
    <3>2. QED
      BY <3>1 DEF MailruPhase, MayGo
  <2>3. CASE MailConnected(f)
    <3>1. chain[f].at = "handshake" /\ chain'[f].at = "live" /\ connected' = TRUE
      BY <1>0, <2>3 DEF MailConnected, Goes, Chain
    <3>2. QED
      BY <3>1 DEF MailruPhase, MayGo
  <2>4. CASE MailReadFails(f)
    <3>1. chain[f].at = "live" /\ chain'[f].at = "failed" /\ connected' = FALSE
      BY <1>0, <2>4 DEF MailReadFails, Chain, NoChain
    <3>2. QED
      BY <3>1 DEF MailruPhase, MayGo
  <2>5. CASE MailLeaves(f)
    <3>1. chain'[f].at = "ended" /\ connected' = connected
      BY <1>0, <2>5 DEF MailLeaves, Chain
    <3>2. QED
      BY <3>1 DEF MailruPhase, MayGo
  <2>6. QED
    BY <1>2, <2>1, <2>2, <2>3, <2>4, <2>5 DEF MailTries
<1>3. ASSUME NEW c \in Chains, MailReconnects(c) PROVE MayGo(MailruPhase, connected, MailruPhase', connected')
  <2>1. c = f
    BY <1>3, MailNow DEF MailOneChain, MailReconnects, MailSchedule, MailRetrying, MailWaitEnds, Goes
  <2>2. CASE MailSchedule(f) \/ MailRetrying(f)
    <3>1. /\ chain[f].at \in {"failed", "emit"} /\ connected' = connected
          /\ chain'[f].at \in {"emit", "ended", "wait"}
      BY <1>0, <2>2 DEF MailSchedule, MailRetrying, Goes, Chain
    <3>2. QED
      BY <3>1 DEF MailruPhase, MayGo
  <2>3. CASE MailWaitEnds(f)
    <3>1. chain[f].at = "wait" /\ chain'[f].at \in {"slot", "ended"} /\ connected' = connected
      BY <1>0, <2>3 DEF MailWaitEnds, Goes, Chain
    <3>2. QED
      BY <3>1 DEF MailruPhase, MayGo
  <2>4. QED
    BY <1>3, <2>1, <2>2, <2>3 DEF MailReconnects
<1>4. CASE MailOthers
  <2>1. chain'[f].at = chain[f].at
    <3>1. mailKeepalive.session \in Chains \cup {0} /\ applying.session \in Chains \cup {0}
      BY MailNow DEF MailKeepaliveCall, MailApplyCall
    <3>2. chain' \in {chain, Closed(mailKeepalive.session), Closed(applying.session)}
      BY <1>4 DEF MailOthers, MailKeepaliveFails, MailKeepaliveGivesUp, ApplyCookies, ApplyCloses, MailStop
    <3>3. QED
      BY <1>0, <3>1, <3>2, MailCloses
  <2>2. MailruPhase' = MailruPhase
    BY <2>1 DEF MailruPhase
  <2>3. connected' \in {connected, FALSE}
    BY <1>4 DEF MailOthers, MailKeepaliveFails, MailKeepaliveGivesUp, ApplyCookies, ApplyCloses, MailStop, Stopped
  <2>4. CASE connected' = connected
    BY <2>2, <2>4 DEF MayGo
  <2>5. CASE connected' # connected
    <3>1. connected /\ connected' = FALSE
      BY <1>0, <2>3, <2>5
    <3>2. QED
      BY <2>2, <3>1 DEF MayGo
  <2>6. QED
    BY <2>4, <2>5
<1>5. CASE ApplySchedules
  BY <1>5, MailNow DEF MailOneChain, ApplySchedules
<1>6. QED
  BY <1>1, <1>2, <1>3, <1>4, <1>5 DEF MailruNext, MailTries, MailReconnects, MailOthers

LEMMA MailFixed == [MailruNext]_mailVars => UNCHANGED mayApply
  BY DEF MailruNext, MailSlot, MailFetch, MailDial, MailAttemptFails, MailConnected, MailReadFails, MailLeaves,
     MailSchedule, MailRetrying, MailWaitEnds, MailKeepaliveFails, MailKeepaliveGivesUp, ApplyCookies, ApplyCloses,
     ApplySchedules, MailStop, mailVars, mailCalls

\* So does the Mail.ru carrier, while nobody applies cookies.
THEOREM MailruKeepOrder == MailruSpec => MailruKeepsOrder
<1>1. MailruSpec => []MailInv
  BY MailStarts, MailKeep, PTL DEF MailruSpec
<1>2. Started /\ MailruInit => MailruPromised!CarrierInit
  <2> SUFFICES ASSUME Started, MailruInit PROVE MailruPromised!CarrierInit
    OBVIOUS
  <2>1. MailruPhase = "trying"
    BY FirstIsChain DEF MailruInit, MailruPhase, NoChain
  <2>2. connected = FALSE
    BY DEF Started
  <2>3. QED
    BY <2>1, <2>2 DEF MailruPromised!CarrierInit
<1>3. MailInv /\ [MailruNext]_mailVars => [MailruPromised!CarrierNext]_(MailruPromised!carrierVars)
  <2> SUFFICES ASSUME MailInv, [MailruNext]_mailVars
               PROVE  [MailruPromised!CarrierNext]_(MailruPromised!carrierVars)
    OBVIOUS
  <2>1. mayApply' = mayApply
    BY MailFixed
  <2>2. CASE mayApply
    BY <2>1, <2>2 DEF MailruPromised!carrierVars
  <2>3. CASE ~mayApply
    <3>1. MayGo(MailruPhase, connected, MailruPhase', connected')
      BY <2>3, MailGo
    <3>2. ~mayApply'
      BY <2>1, <2>3
    <3>3. QED
      BY <2>3, <3>1, <3>2 DEF MayGo, MailruPromised!CarrierNext, MailruPromised!carrierVars, MailruPromised!Challenged,
         MailruPromised!Solved, MailruPromised!ComesUp, MailruPromised!Fails, MailruPromised!Blocked,
         MailruPromised!Reports, MailruPromised!TriesAgain, MailruPromised!Disconnects, MailruPromised!Ends
  <2>4. QED
    BY <2>2, <2>3
<1>4. QED
  BY <1>1, <1>2, <1>3, PTL DEF MailruSpec, MailruKeepsOrder, MailruPromised!CarrierSpec

----------------------------------------------------------------------------
(* The MAX carrier.                                                        *)

\* While the loop is busy with a call, a reader reads its connection or has signalled its end.
\* The exit accepts a call it is connected to.
OneMeNoticed ==
    /\ caller \in {"serve", "up"} => signal \/ \E r \in CallIds : readers[r] = callConn
    /\ acceptDue => answered # 0

OneMeInv == OneMeTypeOK /\ OneMeNoticed

LEMMA OneMeStarts == OneMeInit => OneMeInv
<1> SUFFICES ASSUME OneMeInit PROVE OneMeInv
  OBVIOUS
<1>1. control \in BOOLEAN /\ signal \in BOOLEAN /\ acceptDue \in BOOLEAN /\ acceptSent \in BOOLEAN
  BY DEF OneMeInit
<1>2. wire \in [CallIds -> Seq(MaxIds)] /\ readers \in [CallIds -> CallIds \cup {0}] /\ inbound \in Seq(MaxIds)
  BY DEF OneMeInit
<1>3. QED
  BY <1>1, <1>2, OneMeAssumption DEF OneMeInit, OneMeInv, OneMeTypeOK, OneMeNoticed

LEMMA OneMeKeep == OneMeInv /\ [OneMeNext]_oneMeVars => OneMeInv'
<1> SUFFICES ASSUME OneMeInv, [OneMeNext]_oneMeVars PROVE OneMeInv'
  OBVIOUS
<1> USE OneMeAssumption
<1>0. OneMeTypeOK /\ OneMeNoticed
  BY DEF OneMeInv
<1>1. CASE UNCHANGED oneMeVars
  BY <1>0, <1>1 DEF oneMeVars, oneMeClient, oneMeExit, oneMeData, OneMeInv, OneMeTypeOK, OneMeNoticed
<1>2. CASE CallStarts \/ CallFails \/ CallInvoked \/ CallServed \/ Resignalled \/ CallPauses
  <2>1. /\ UNCHANGED <<control, callConn, callOpen, readers, answered, acceptDue, acceptSent, accepted, wire, handlers,
                       injected, inbound>>
        /\ caller' \in {"start", "invoke", "dial", "up", "pause"}
        /\ signal' \in {signal, FALSE} /\ (caller' = "up" => caller = "serve" /\ signal' = signal)
    BY <1>2 DEF CallStarts, CallFails, CallInvoked, CallServed, Resignalled, CallPauses, CallerGoes, oneMeExit, oneMeData
  <2>2. signal' \in BOOLEAN
    BY <1>0, <2>1 DEF OneMeTypeOK
  <2>3. OneMeTypeOK'
    BY <1>0, <2>1, <2>2 DEF OneMeTypeOK
  <2>4. OneMeNoticed'
    BY <1>0, <2>1 DEF OneMeNoticed
  <2>5. QED
    BY <2>3, <2>4 DEF OneMeInv
<1>3. CASE CallDialed
  <2>1. /\ UNCHANGED <<control, signal, answered, acceptDue, acceptSent, accepted, wire, handlers, injected, inbound>>
        /\ caller' = "serve" /\ callConn' = callConn + 1 /\ callOpen' = callOpen \cup {callConn + 1} /\ callConn < Calls
        /\ readers' = [readers EXCEPT ![callConn + 1] = callConn + 1]
    BY <1>3 DEF CallDialed, CallerGoes, oneMeExit, oneMeData
  <2>2. callConn + 1 \in CallIds
    BY <1>0, <2>1 DEF OneMeTypeOK, CallIds
  <2>3. readers' \in [CallIds -> CallIds \cup {0}] /\ readers'[callConn'] = callConn'
    BY <1>0, <2>1, <2>2 DEF OneMeTypeOK
  <2>4. OneMeTypeOK'
    BY <1>0, <2>1, <2>2, <2>3 DEF OneMeTypeOK
  <2>5. OneMeNoticed'
    BY <1>0, <2>1, <2>2, <2>3 DEF OneMeNoticed
  <2>6. QED
    BY <2>4, <2>5 DEF OneMeInv
<1>4. ASSUME NEW c \in CallIds, MaxForces \/ ReaderFails(c) PROVE OneMeInv'
  <2>1. /\ UNCHANGED <<control, caller, callConn, callOpen, answered, acceptDue, acceptSent, accepted, wire, handlers,
                       injected, inbound>>
        /\ signal' = TRUE /\ readers' \in {readers, [readers EXCEPT ![c] = 0]}
    BY <1>4 DEF MaxForces, ReaderFails, Signals, oneMeExit, oneMeData
  <2>2. readers' \in [CallIds -> CallIds \cup {0}]
    BY <1>0, <2>1 DEF OneMeTypeOK
  <2>3. QED
    BY <1>0, <2>1, <2>2 DEF OneMeInv, OneMeTypeOK, OneMeNoticed
<1>5. ASSUME NEW c \in CallIds, ReaderReads(c) PROVE OneMeInv'
  <2>1. /\ UNCHANGED <<control, caller, callConn, callOpen, signal, answered, acceptDue, acceptSent, accepted, wire, handlers,
                       injected, inbound>>
        /\ readers' = [readers EXCEPT ![c] = callConn]
    BY <1>5 DEF ReaderReads, oneMeExit, oneMeData
  <2>2. readers' \in [CallIds -> CallIds \cup {0}] /\ readers'[c] = callConn
    BY <1>0, <2>1 DEF OneMeTypeOK
  <2>3. QED
    BY <1>0, <2>1, <2>2 DEF OneMeInv, OneMeTypeOK, OneMeNoticed
<1>6. ASSUME NEW c \in CallIds, SignalingFails(c) \/ ControlFails \/ IncomingCall \/ AcceptCall PROVE OneMeInv'
  <2>1. /\ UNCHANGED <<caller, callConn, readers, signal, wire, handlers, injected, inbound>>
        /\ control' \in {control, FALSE} /\ callOpen' \subseteq callOpen /\ answered' \in {answered, callConn}
        /\ acceptDue' \in {acceptDue, TRUE, FALSE} /\ acceptSent' \in {acceptSent, TRUE}
    BY <1>6 DEF SignalingFails, ControlFails, IncomingCall, AcceptCall, oneMeExit, oneMeData, oneMeClient
  <2>2. control' \in BOOLEAN /\ acceptDue' \in BOOLEAN /\ acceptSent' \in BOOLEAN
    BY <1>0, <2>1 DEF OneMeTypeOK
  <2>3. accepted' \subseteq CallIds
    <3>1. CASE AcceptCall
      <4>1. answered \in CallIds
        BY <1>0, <3>1 DEF AcceptCall, OneMeTypeOK, OneMeNoticed
      <4>2. QED
        BY <1>0, <3>1, <4>1 DEF AcceptCall, OneMeTypeOK
    <3>2. CASE ~AcceptCall
      BY <1>0, <1>6, <3>2 DEF SignalingFails, ControlFails, IncomingCall, oneMeExit, OneMeTypeOK
    <3>3. QED
      BY <3>1, <3>2
  <2>4. OneMeTypeOK'
    BY <1>0, <2>1, <2>2, <2>3 DEF OneMeTypeOK
  <2>5. acceptDue' => answered' # 0
    <3>1. CASE IncomingCall
      BY <3>1 DEF IncomingCall
    <3>2. CASE AcceptCall
      BY <3>2 DEF AcceptCall
    <3>3. CASE SignalingFails(c) \/ ControlFails
      BY <1>0, <3>3 DEF SignalingFails, ControlFails, oneMeExit, OneMeNoticed
    <3>4. QED
      BY <1>6, <3>1, <3>2, <3>3
  <2>6. OneMeNoticed'
    BY <1>0, <2>1, <2>5 DEF OneMeNoticed
  <2>7. QED
    BY <2>4, <2>6 DEF OneMeInv
<1>7. CASE MaxSend
  <2>1. /\ UNCHANGED <<control, caller, callConn, callOpen, readers, signal, answered, acceptDue, acceptSent, accepted,
                       handlers, inbound>>
        /\ injected < MaxMaxPackets /\ injected' = injected + 1
    BY <1>7 DEF MaxSend, oneMeClient, oneMeExit
  <2>2. injected + 1 \in MaxIds
    BY <1>0, <2>1 DEF OneMeTypeOK, MaxIds
  <2>3. wire' \in [CallIds -> Seq(MaxIds)]
    <3>1. CASE callConn \in callOpen
      <4>1. callConn \in CallIds /\ wire[callConn] \in Seq(MaxIds)
        BY <1>0, <3>1 DEF OneMeTypeOK
      <4>2. Append(wire[callConn], injected + 1) \in Seq(MaxIds)
        BY <2>2, <4>1
      <4>3. wire' = [wire EXCEPT ![callConn] = Append(wire[callConn], injected + 1)]
        BY <1>7, <3>1 DEF MaxSend
      <4>4. QED
        BY <1>0, <4>1, <4>2, <4>3 DEF OneMeTypeOK
    <3>2. CASE callConn \notin callOpen
      BY <1>0, <1>7, <3>2 DEF MaxSend, OneMeTypeOK
    <3>3. QED
      BY <3>1, <3>2
  <2>4. injected' \in 0..MaxMaxPackets
    BY <2>1, <2>2 DEF MaxIds
  <2>5. OneMeTypeOK'
    BY <1>0, <2>1, <2>3, <2>4 DEF OneMeTypeOK
  <2>6. OneMeNoticed'
    BY <1>0, <2>1 DEF OneMeNoticed
  <2>7. QED
    BY <2>5, <2>6 DEF OneMeInv
<1>8. ASSUME NEW c \in CallIds, MaxArrives(c) PROVE OneMeInv'
  <2>1. /\ UNCHANGED <<control, caller, callConn, callOpen, readers, signal, answered, acceptDue, acceptSent, accepted,
                       injected, inbound>>
        /\ wire[c] # <<>> /\ wire' = [wire EXCEPT ![c] = Tail(wire[c])] /\ handlers' = handlers \cup {Head(wire[c])}
    BY <1>0, <1>8 DEF MaxArrives, oneMeClient, oneMeExit, OneMeTypeOK
  <2>2. Head(wire[c]) \in MaxIds /\ Tail(wire[c]) \in Seq(MaxIds)
    BY <1>0, <2>1 DEF OneMeTypeOK
  <2>3. wire' \in [CallIds -> Seq(MaxIds)] /\ handlers' \subseteq MaxIds
    BY <1>0, <2>1, <2>2 DEF OneMeTypeOK
  <2>4. QED
    BY <1>0, <2>1, <2>3 DEF OneMeInv, OneMeTypeOK, OneMeNoticed
<1>9. ASSUME NEW p \in MaxIds, MaxDelivered(p) PROVE OneMeInv'
  <2>1. /\ UNCHANGED <<control, caller, callConn, callOpen, readers, signal, answered, acceptDue, acceptSent, accepted,
                       injected, wire>>
        /\ handlers' \subseteq handlers /\ inbound' = Append(inbound, p)
    BY <1>9 DEF MaxDelivered, oneMeClient, oneMeExit
  <2>2. inbound' \in Seq(MaxIds)
    BY <1>0, <2>1 DEF OneMeTypeOK
  <2>3. QED
    BY <1>0, <2>1, <2>2 DEF OneMeInv, OneMeTypeOK, OneMeNoticed
<1>10. 1 \in CallIds
  BY DEF CallIds
<1>11. QED
  BY <1>1, <1>2, <1>3, <1>4, <1>5, <1>6, <1>7, <1>8, <1>9, <1>10 DEF OneMeNext

\* A dead connection has its reader, or the reader's signal.
LEMMA OneMeShow == OneMeInv => OneMeTypeOK /\ DeadIsNoticed
  BY DEF OneMeInv, OneMeNoticed, DeadIsNoticed

----------------------------------------------------------------------------
(* The Volga carrier.                                                      *)

VolgaBirths == {"free", "authorizing", "started", "published", "failed"}
VolgaStopper == [at : {"idle", "loaded", "cancel", "close", "drain", "after", "done"},
                 link : Links \cup {0}, held : Jars \cup {NoAuth}]

\* A listener that reads, or is about to, has shown its connection.
VolgaReads == \A l \in Links : listener[l].at \in {"checking", "reading"} => listener[l].shown

VolgaInv == VolgaTypeOK /\ VolgaReads /\ StoppedIsDeaf

LEMMA VolgaNow ==
  ASSUME VolgaInv
  PROVE  /\ volgaRunning \in BOOLEAN /\ volgaConnected \in BOOLEAN /\ jar \in Jars /\ auth \in Jars \cup {NoAuth}
         /\ birth \in [Links -> VolgaBirths] /\ made \in [Links -> Jars] /\ listener \in [Links -> Listener]
         /\ relay \in [Links -> {"off", "up", "stopped"}] /\ current \in Links \cup {0}
         /\ stopper \in [Stoppers -> VolgaStopper] /\ unanswered \in 0..StallTicks /\ mute \in BOOLEAN
         /\ VolgaReads /\ StoppedIsDeaf
  BY DEF VolgaInv, VolgaTypeOK, VolgaBirths, VolgaStopper

LEMMA VolgaOK ==
  ASSUME volgaRunning' \in BOOLEAN, volgaConnected' \in BOOLEAN, jar' \in Jars, auth' \in Jars \cup {NoAuth},
         birth' \in [Links -> VolgaBirths], made' \in [Links -> Jars], listener' \in [Links -> Listener],
         relay' \in [Links -> {"off", "up", "stopped"}], current' \in Links \cup {0},
         stopper' \in [Stoppers -> VolgaStopper], unanswered' \in 0..StallTicks, mute' \in BOOLEAN,
         VolgaReads', StoppedIsDeaf'
  PROVE  VolgaInv'
  BY DEF VolgaInv, VolgaTypeOK, VolgaBirths, VolgaStopper

LEMMA VolgaStarts == VolgaInit => VolgaInv
<1> SUFFICES ASSUME VolgaInit PROVE VolgaInv
  OBVIOUS
<1> USE VolgaAssumption
<1>1. volgaRunning \in BOOLEAN /\ volgaConnected \in BOOLEAN /\ mute \in BOOLEAN
  BY DEF VolgaInit
<1>2. jar \in Jars /\ auth \in Jars \cup {NoAuth} /\ unanswered \in 0..StallTicks /\ made \in [Links -> Jars]
  BY DEF VolgaInit, Jars
<1>3. birth \in [Links -> {"free", "authorizing", "started", "published", "failed"}]
  BY DEF VolgaInit
<1>4. listener \in [Links -> Listener] /\ \A l \in Links : listener[l].at = "off"
  BY DEF VolgaInit, Listener, Jars
<1>5. stopper \in [Stoppers -> VolgaStopper]
  BY DEF VolgaInit, IdleStopper, VolgaStopper
<1>6. relay \in [Links -> {"off", "up", "stopped"}] /\ current \in Links \cup {0}
  BY DEF VolgaInit
<1>7. VolgaReads /\ StoppedIsDeaf
  BY <1>4 DEF VolgaReads, StoppedIsDeaf
<1>8. QED
  BY <1>1, <1>2, <1>3, <1>4, <1>5, <1>6, <1>7 DEF VolgaInv, VolgaTypeOK, VolgaStopper

\* One listener moves, and does not begin to read when it was stopped.
LEMMA VolgaMoves ==
  ASSUME VolgaInv, NEW l \in Links, NEW v \in Listener, listener' = [listener EXCEPT ![l] = v],
         v.at \in {"checking", "reading"} => v.shown, stopper' = stopper, v.cancelled = listener[l].cancelled,
         v.at = "reading" /\ v.socket = "open" =>
           ~v.cancelled \/ (listener[l].at = "reading" /\ listener[l].socket = "open")
  PROVE  listener' \in [Links -> Listener] /\ VolgaReads' /\ StoppedIsDeaf'
<1>1. listener' \in [Links -> Listener] /\ \A k \in Links : listener'[k] = IF k = l THEN v ELSE listener[k]
  BY VolgaNow
<1>2. VolgaReads'
  BY <1>1, VolgaNow DEF VolgaReads
<1>3. StoppedIsDeaf'
  BY <1>1, VolgaNow DEF StoppedIsDeaf, Cancelled
<1>4. QED
  BY <1>1, <1>2, <1>3

\* What the steps of a listener make of its record.
VolgaAts == {"off", "top", "refreshing", "storing", "dialing", "publishing", "checking", "reading", "pausing", "ended"}

VolgaGoes(l, v, to) ==
    v \in Listener /\ listener' = [listener EXCEPT ![l] = v] /\ v.at = to /\ v.cancelled = listener[l].cancelled

LEMMA VolgaWalks ==
  ASSUME VolgaInv, NEW l \in Links, NEW to \in VolgaAts, listener' = [listener EXCEPT ![l].at = to]
  PROVE  \E v : VolgaGoes(l, v, to) /\ v.shown = listener[l].shown
<1> DEFINE v == [listener[l] EXCEPT !.at = to]
<1>1. listener \in [Links -> Listener] /\ listener[l] \in Listener
  BY VolgaNow
<1>2. listener' = [listener EXCEPT ![l] = v]
  BY <1>1 DEF Leave
<1>3. v \in Listener /\ v.at = to
  BY <1>1 DEF Listener, VolgaAts
<1>4. v.cancelled = listener[l].cancelled /\ v.shown = listener[l].shown
  BY <1>1 DEF Listener
<1> HIDE DEF v
<1>5. QED
  BY <1>2, <1>3, <1>4 DEF VolgaGoes

LEMMA VolgaGets ==
  ASSUME VolgaInv, NEW l \in Links, NEW to \in VolgaAts, NEW g \in Jars, listener' = [listener EXCEPT ![l].at = to, ![l].got = g]
  PROVE  \E v : VolgaGoes(l, v, to)
<1> DEFINE v == [listener[l] EXCEPT !.at = to, !.got = g]
<1>1. listener \in [Links -> Listener] /\ listener[l] \in Listener
  BY VolgaNow
<1>2. listener' = [listener EXCEPT ![l] = v]
  BY <1>1 DEF Leave
<1>3. v \in Listener /\ v.at = to
  BY <1>1 DEF Listener, VolgaAts
<1>4. v.cancelled = listener[l].cancelled
  BY <1>1 DEF Listener
<1> HIDE DEF v
<1>5. QED
  BY <1>2, <1>3, <1>4 DEF VolgaGoes

LEMMA VolgaOpens ==
  ASSUME VolgaInv, NEW l \in Links, NEW to \in VolgaAts, listener' = [listener EXCEPT ![l].at = to, ![l].socket = "open"]
  PROVE  \E v : VolgaGoes(l, v, to)
<1> DEFINE v == [listener[l] EXCEPT !.at = to, !.socket = "open"]
<1>1. listener \in [Links -> Listener] /\ listener[l] \in Listener
  BY VolgaNow
<1>2. listener' = [listener EXCEPT ![l] = v]
  BY <1>1 DEF Leave
<1>3. v \in Listener /\ v.at = to
  BY <1>1 DEF Listener, VolgaAts
<1>4. v.cancelled = listener[l].cancelled
  BY <1>1 DEF Listener
<1> HIDE DEF v
<1>5. QED
  BY <1>2, <1>3, <1>4 DEF VolgaGoes

LEMMA VolgaPauses ==
  ASSUME VolgaInv, NEW l \in Links, NEW to \in VolgaAts, listener' = [listener EXCEPT ![l].at = to, ![l].first = FALSE]
  PROVE  \E v : VolgaGoes(l, v, to)
<1> DEFINE v == [listener[l] EXCEPT !.at = to, !.first = FALSE]
<1>1. listener \in [Links -> Listener] /\ listener[l] \in Listener
  BY VolgaNow
<1>2. listener' = [listener EXCEPT ![l] = v]
  BY <1>1 DEF Leave
<1>3. v \in Listener /\ v.at = to
  BY <1>1 DEF Listener, VolgaAts
<1>4. v.cancelled = listener[l].cancelled
  BY <1>1 DEF Listener
<1> HIDE DEF v
<1>5. QED
  BY <1>2, <1>3, <1>4 DEF VolgaGoes

LEMMA VolgaLeaves ==
  ASSUME VolgaInv, NEW l \in Links, NEW to \in VolgaAts, listener' = Leave(l, to)
  PROVE  \E v : VolgaGoes(l, v, to)
<1> DEFINE v == [listener[l] EXCEPT !.at = to, !.socket = "none", !.shown = FALSE, !.first = FALSE]
<1>1. listener \in [Links -> Listener] /\ listener[l] \in Listener
  BY VolgaNow
<1>2. listener' = [listener EXCEPT ![l] = v]
  BY <1>1 DEF Leave
<1>3. v \in Listener /\ v.at = to
  BY <1>1 DEF Listener, VolgaAts
<1>4. v.cancelled = listener[l].cancelled
  BY <1>1 DEF Listener
<1> HIDE DEF v
<1>5. QED
  BY <1>2, <1>3, <1>4 DEF VolgaGoes

LEMMA VolgaShows ==
  ASSUME VolgaInv, NEW l \in Links, NEW to \in VolgaAts, listener' = [listener EXCEPT ![l].at = to, ![l].shown = TRUE]
  PROVE  \E v : VolgaGoes(l, v, to) /\ v.shown = TRUE
<1> DEFINE v == [listener[l] EXCEPT !.at = to, !.shown = TRUE]
<1>1. listener \in [Links -> Listener] /\ listener[l] \in Listener
  BY VolgaNow
<1>2. listener' = [listener EXCEPT ![l] = v]
  BY <1>1 DEF Leave
<1>3. v \in Listener /\ v.at = to
  BY <1>1 DEF Listener, VolgaAts
<1>4. v.cancelled = listener[l].cancelled /\ v.shown = TRUE
  BY <1>1 DEF Listener
<1> HIDE DEF v
<1>5. QED
  BY <1>2, <1>3, <1>4 DEF VolgaGoes

VolgaListens(l) == ListenerMoves(l) \/ ReadMessage(l) \/ StartLinks(l)

LEMMA VolgaListensKeep == ASSUME VolgaInv, NEW l \in Links, VolgaListens(l) PROVE VolgaInv'
<1> USE VolgaAssumption
<1>1. listener[l] \in Listener /\ listener[l].got \in Jars /\ 0 \in Jars /\ jar \in Jars /\ made[l] \in Jars
  BY VolgaNow DEF Listener, Jars
<1>2. /\ listener' \in [Links -> Listener] /\ VolgaReads' /\ StoppedIsDeaf'
  <2>0. stopper' = stopper
    BY DEF VolgaListens, ListenerMoves, Top, Refresh, RefreshFails, StoreAuth, Dial, ShowConn, CheckCancelled,
       ReadMessage, ReadErrs, PauseEnds, StartLinks, ListenerGoes
  <2>1. ASSUME NEW to \in {"top", "dialing", "refreshing", "ended", "pausing"},
               listener' = [listener EXCEPT ![l].at = to]
        PROVE  /\ listener' \in [Links -> Listener] /\ VolgaReads' /\ StoppedIsDeaf'
    <3>1. PICK v : VolgaGoes(l, v, to)
      BY <2>1, VolgaWalks DEF VolgaAts
    <3>2. QED
      BY <2>0, <3>1, VolgaMoves DEF VolgaGoes
  <2>2. CASE Top(l)
    BY <2>1, <2>2 DEF Top, ListenerGoes
  <2>3. CASE Refresh(l)
    <3>1. CASE Cancelled(l)
      BY <2>1, <2>3, <3>1 DEF Refresh
    <3>2. CASE ~Cancelled(l)
      <4>1. listener' = [listener EXCEPT ![l].at = "storing", ![l].got = jar]
        BY <2>3, <3>2 DEF Refresh
      <4>2. PICK v : VolgaGoes(l, v, "storing")
        BY <1>1, <4>1, VolgaGets DEF VolgaAts
      <4>3. QED
        BY <2>0, <4>2, VolgaMoves DEF VolgaGoes
    <3>3. QED
      BY <3>1, <3>2
  <2>4. CASE RefreshFails(l)
    BY <2>1, <2>4 DEF RefreshFails, ListenerGoes
  <2>5. CASE StoreAuth(l)
    <3>1. listener' = [listener EXCEPT ![l].at = "dialing", ![l].got = 0]
      BY <2>5 DEF StoreAuth
    <3>2. PICK v : VolgaGoes(l, v, "dialing")
      BY <1>1, <3>1, VolgaGets DEF VolgaAts
    <3>3. QED
      BY <2>0, <3>2, VolgaMoves DEF VolgaGoes
  <2>6. CASE Dial(l)
    <3>1. CASE listener' = [listener EXCEPT ![l].at = "publishing", ![l].socket = "open"]
      <4>1. PICK v : VolgaGoes(l, v, "publishing")
        BY <3>1, VolgaOpens DEF VolgaAts
      <4>2. QED
        BY <2>0, <4>1, VolgaMoves DEF VolgaGoes
    <3>2. QED
      BY <2>1, <2>6, <3>1 DEF Dial
  <2>7. CASE ShowConn(l)
    <3>1. listener' = [listener EXCEPT ![l].at = "checking", ![l].shown = TRUE]
      BY <2>7 DEF ShowConn
    <3>2. PICK v : VolgaGoes(l, v, "checking") /\ v.shown = TRUE
      BY <3>1, VolgaShows DEF VolgaAts
    <3>3. QED
      BY <2>0, <3>2, VolgaMoves DEF VolgaGoes
  <2>8. ASSUME NEW to \in {"ended", "pausing"}, listener' = Leave(l, to)
        PROVE  /\ listener' \in [Links -> Listener] /\ VolgaReads' /\ StoppedIsDeaf'
    <3>1. PICK v : VolgaGoes(l, v, to)
      BY <2>8, VolgaLeaves DEF VolgaAts
    <3>2. QED
      BY <2>0, <3>1, VolgaMoves DEF VolgaGoes
  <2>9. CASE CheckCancelled(l)
    <3>1. CASE ~Cancelled(l)
      <4>1. listener' = [listener EXCEPT ![l].at = "reading"] /\ listener[l].at = "checking" /\ ~listener[l].cancelled
        BY <2>9, <3>1 DEF CheckCancelled, AfterLook, Cancelled
      <4>2. PICK v : VolgaGoes(l, v, "reading") /\ v.shown = listener[l].shown
        BY <4>1, VolgaWalks DEF VolgaAts
      <4>3. v.shown
        BY <4>1, <4>2, VolgaNow DEF VolgaReads
      <4>4. QED
        BY <2>0, <4>1, <4>2, <4>3, VolgaMoves DEF VolgaGoes
    <3>2. CASE Cancelled(l)
      BY <2>8, <2>9, <3>2 DEF CheckCancelled, AfterLook
    <3>3. QED
      BY <3>1, <3>2
  <2>10. CASE ReadMessage(l)
    <3>1. CASE listener' = [listener EXCEPT ![l].at = "checking"]
      <4>1. PICK v : VolgaGoes(l, v, "checking") /\ v.shown = listener[l].shown
        BY <3>1, VolgaWalks DEF VolgaAts
      <4>2. v.shown
        BY <2>10, <4>1, VolgaNow DEF VolgaReads, ReadMessage
      <4>3. QED
        BY <2>0, <4>1, <4>2, VolgaMoves DEF VolgaGoes
    <3>2. QED
      BY <2>8, <2>10, <3>1 DEF ReadMessage
  <2>11. CASE ReadErrs(l)
    BY <2>8, <2>11 DEF ReadErrs
  <2>12. CASE PauseEnds(l)
    <3>1. PICK to \in {"ended", "top"} : listener' = [listener EXCEPT ![l].at = to, ![l].first = FALSE]
      BY <2>12 DEF PauseEnds
    <3>2. PICK v : VolgaGoes(l, v, to)
      BY <3>1, VolgaPauses DEF VolgaAts
    <3>3. QED
      BY <2>0, <3>2, VolgaMoves DEF VolgaGoes
  <2>13. CASE StartLinks(l)
    BY <2>1, <2>13 DEF StartLinks
  <2>14. QED
    BY <2>2, <2>3, <2>4, <2>5, <2>6, <2>7, <2>9, <2>10, <2>11, <2>12, <2>13 DEF VolgaListens, ListenerMoves
<1>3. UNCHANGED <<volgaRunning, volgaConnected, jar, made, current, stopper, unanswered>>
  BY DEF VolgaListens, ListenerMoves, Top, Refresh, RefreshFails, StoreAuth, Dial, ShowConn, CheckCancelled,
     ReadMessage, ReadErrs, PauseEnds, StartLinks, ListenerGoes, volgaFlags, making, traffic
<1>4. auth' \in {auth, listener[l].got, made[l]} /\ mute' \in {mute, FALSE}
  BY DEF VolgaListens, ListenerMoves, Top, Refresh, RefreshFails, StoreAuth, Dial, ShowConn, CheckCancelled,
     ReadMessage, ReadErrs, PauseEnds, StartLinks, ListenerGoes, volgaFlags, making, traffic
<1>5. /\ birth' \in {birth, [birth EXCEPT ![l] = "started"]} /\ relay' \in {relay, [relay EXCEPT ![l] = "up"]}
  BY DEF VolgaListens, ListenerMoves, Top, Refresh, RefreshFails, StoreAuth, Dial, ShowConn, CheckCancelled,
     ReadMessage, ReadErrs, PauseEnds, StartLinks, ListenerGoes, volgaFlags, making, traffic
<1>6. auth' \in Jars \cup {NoAuth} /\ mute' \in BOOLEAN
  BY <1>1, <1>4, VolgaNow
<1>7. birth' \in [Links -> VolgaBirths] /\ relay' \in [Links -> {"off", "up", "stopped"}]
  BY <1>5, VolgaNow DEF VolgaBirths
<1>8. QED
  BY <1>2, <1>3, <1>6, <1>7, VolgaNow, VolgaOK

\* A connection that its listener has shown is closed, at which the listener is stopped in its read.
LEMMA VolgaCloses ==
  ASSUME VolgaInv, NEW l \in Links, listener' = CloseShown(l)
  PROVE  /\ listener' \in [Links -> Listener]
         /\ \A k \in Links : /\ listener'[k].at = listener[k].at /\ listener'[k].cancelled = listener[k].cancelled
                             /\ listener'[k].shown = listener[k].shown
                             /\ listener'[k].socket = "open" => listener[k].socket = "open" /\ ~(k = l /\ listener[l].shown)
<1> DEFINE s == IF listener[l].shown THEN "closed" ELSE listener[l].socket
           v == [listener[l] EXCEPT !.socket = s]
<1>1. listener[l] \in Listener /\ s \in {"none", "open", "closed"}
  BY VolgaNow DEF Listener
<1>2. listener' = [listener EXCEPT ![l] = v]
  BY VolgaNow DEF CloseShown
<1>3. s = "open" => listener[l].socket = "open" /\ ~listener[l].shown
  OBVIOUS
<1> HIDE DEF s
<1>4. v \in Listener /\ v.at = listener[l].at /\ v.cancelled = listener[l].cancelled /\ v.shown = listener[l].shown /\ v.socket = s
  BY <1>1 DEF Listener
<1> HIDE DEF v
<1>5. listener' \in [Links -> Listener] /\ \A k \in Links : listener'[k] = IF k = l THEN v ELSE listener[k]
  BY <1>2, <1>4, VolgaNow
<1>6. QED
  BY <1>3, <1>4, <1>5

\* Stop or ApplyCookies moves on from where it has nothing to stop.
LEMMA VolgaStopperMoves ==
  ASSUME VolgaInv, NEW s \in Stoppers, NEW w \in VolgaStopper, stopper' = [stopper EXCEPT ![s] = w],
         stopper[s].at \notin {"cancel", "close"}, listener' = listener
  PROVE  stopper' \in [Stoppers -> VolgaStopper] /\ VolgaReads' /\ StoppedIsDeaf'
<1>1. stopper' \in [Stoppers -> VolgaStopper] /\ \A r \in Stoppers : stopper'[r] = IF r = s THEN w ELSE stopper[r]
  BY VolgaNow
<1>2. VolgaReads'
  BY VolgaNow DEF VolgaReads
<1>3. StoppedIsDeaf'
  BY <1>1, VolgaNow DEF StoppedIsDeaf, Cancelled
<1>4. QED
  BY <1>1, <1>2, <1>3

LEMMA VolgaStopperGoes ==
  ASSUME VolgaInv, NEW s \in Stoppers, NEW from, NEW to \in {"cancel", "close", "drain", "after", "done"}, StopperGoes(s, from, to)
  PROVE  \E w \in VolgaStopper : /\ stopper' = [stopper EXCEPT ![s] = w] /\ stopper[s].at = from
                                 /\ w.at = to /\ w.link = stopper[s].link
<1> DEFINE w == [stopper[s] EXCEPT !.at = to]
<1>1. stopper[s] \in VolgaStopper
  BY VolgaNow
<1>2. stopper' = [stopper EXCEPT ![s] = w] /\ stopper[s].at = from
  BY VolgaNow DEF StopperGoes
<1>3. w \in VolgaStopper /\ w.at = to /\ w.link = stopper[s].link
  BY <1>1 DEF VolgaStopper
<1> HIDE DEF w
<1>4. QED
  BY <1>2, <1>3

LEMMA VolgaCancelKeeps == ASSUME VolgaInv, NEW s \in Stoppers, CancelListener(s) PROVE VolgaInv'
<1>1. StopperGoes(s, "cancel", "close")
  BY DEF CancelListener
<1>2. PICK w \in VolgaStopper : /\ stopper' = [stopper EXCEPT ![s] = w] /\ stopper[s].at = "cancel"
                                /\ w.at = "close" /\ w.link = stopper[s].link
  BY <1>1, VolgaStopperGoes
<1>3. stopper' \in [Stoppers -> VolgaStopper] /\ \A r \in Stoppers : stopper'[r] = IF r = s THEN w ELSE stopper[r]
  BY <1>2, VolgaNow
<1>4. w.link \in Links \cup {0}
  BY <1>2 DEF VolgaStopper
<1>5. listener' \in [Links -> Listener]
      /\ \A k \in Links : /\ listener'[k].at = listener[k].at /\ listener'[k].socket = listener[k].socket
                          /\ listener'[k].shown = listener[k].shown
                          /\ k # w.link => listener'[k].cancelled = listener[k].cancelled
  <2>1. CASE w.link = 0
    BY <1>2, <2>1, VolgaNow DEF CancelListener
  <2>2. CASE w.link # 0
    <3> DEFINE v == [listener[w.link] EXCEPT !.cancelled = TRUE]
    <3>1. listener[w.link] \in Listener
      BY <1>4, <2>2, VolgaNow
    <3>2. listener' = [listener EXCEPT ![w.link] = v]
      BY <1>2, <1>4, <2>2, VolgaNow DEF CancelListener
    <3>3. v \in Listener /\ v.at = listener[w.link].at /\ v.socket = listener[w.link].socket
          /\ v.shown = listener[w.link].shown
      BY <3>1 DEF Listener
    <3> HIDE DEF v
    <3>4. listener' \in [Links -> Listener] /\ \A k \in Links : listener'[k] = IF k = w.link THEN v ELSE listener[k]
      BY <1>4, <2>2, <3>2, <3>3, VolgaNow
    <3>5. QED
      BY <3>3, <3>4
  <2>3. QED
    BY <2>1, <2>2
<1>6. VolgaReads'
  BY <1>5, VolgaNow DEF VolgaReads
<1>7. StoppedIsDeaf'
  BY <1>2, <1>3, <1>5, VolgaNow DEF StoppedIsDeaf, Cancelled
<1>8. UNCHANGED <<volgaFlags, jar, auth, making, relay, current, traffic>>
  BY DEF CancelListener
<1>9. QED
  BY <1>3, <1>5, <1>6, <1>7, <1>8, VolgaNow, VolgaOK DEF volgaFlags, making, traffic

LEMMA VolgaCloseKeeps == ASSUME VolgaInv, NEW s \in Stoppers, CloseConn(s) PROVE VolgaInv'
<1>1. StopperGoes(s, "close", "drain")
  BY DEF CloseConn
<1>2. PICK w \in VolgaStopper : /\ stopper' = [stopper EXCEPT ![s] = w] /\ stopper[s].at = "close"
                                /\ w.at = "drain" /\ w.link = stopper[s].link
  BY <1>1, VolgaStopperGoes
<1>3. stopper' \in [Stoppers -> VolgaStopper] /\ \A r \in Stoppers : stopper'[r] = IF r = s THEN w ELSE stopper[r]
  BY <1>2, VolgaNow
<1>4. w.link \in Links \cup {0} /\ 0 \notin Links
  BY <1>2, VolgaAssumption DEF VolgaStopper
<1>5. listener' \in [Links -> Listener]
      /\ \A k \in Links : /\ listener'[k].at = listener[k].at /\ listener'[k].cancelled = listener[k].cancelled
                          /\ listener'[k].shown = listener[k].shown
                          /\ listener'[k].socket = "open" =>
                               listener[k].socket = "open" /\ ~(k = w.link /\ listener[k].shown)
  <2>1. CASE w.link = 0
    BY <1>2, <1>4, <2>1, VolgaNow DEF CloseConn
  <2>2. CASE w.link # 0
    <3>1. w.link \in Links /\ listener' = CloseShown(w.link)
      BY <1>2, <1>4, <2>2 DEF CloseConn
    <3>2. QED
      BY <3>1, VolgaCloses
  <2>3. QED
    BY <2>1, <2>2
<1>6. VolgaReads'
  BY <1>5, VolgaNow DEF VolgaReads
<1>7. StoppedIsDeaf'
  <2> SUFFICES ASSUME NEW l \in Links, Cancelled(l)', listener'[l].at = "reading", listener'[l].socket = "open",
                      \A r \in Stoppers : stopper'[r].link = l => stopper'[r].at \notin {"cancel", "close"}
               PROVE  FALSE
    BY DEF StoppedIsDeaf
  <2>1. listener[l].cancelled /\ listener[l].at = "reading" /\ listener[l].socket = "open" /\ listener[l].shown
    BY <1>5, VolgaNow DEF Cancelled, VolgaReads
  <2>2. l # w.link
    BY <1>5, <2>1
  <2>3. \A r \in Stoppers : stopper[r].link = l => stopper[r].at \notin {"cancel", "close"}
    BY <1>2, <1>3, <2>2
  <2>4. QED
    BY <2>1, <2>3, VolgaNow DEF StoppedIsDeaf, Cancelled
<1>8. UNCHANGED <<volgaFlags, jar, auth, making, relay, current, traffic>>
  BY DEF CloseConn
<1>9. QED
  BY <1>3, <1>5, <1>6, <1>7, <1>8, VolgaNow, VolgaOK DEF volgaFlags, making, traffic

VolgaStopsOn == BeginStop \/ EndStop \/ BeginApply \/ StoreUpdated \/ EndApply \/ \E s \in Stoppers : StopRelay(s)

LEMMA VolgaStopsOnKeep == ASSUME VolgaInv, VolgaStopsOn PROVE VolgaInv'
<1> USE VolgaAssumption
<1>1. listener' = listener /\ UNCHANGED <<current, unanswered, mute>>
  BY DEF VolgaStopsOn, BeginStop, EndStop, BeginApply, StoreUpdated, EndApply, StopRelay, traffic
<1>2. stopper' \in [Stoppers -> VolgaStopper] /\ VolgaReads' /\ StoppedIsDeaf'
  <2>0. {"stop", "apply"} = Stoppers /\ stopper \in [Stoppers -> VolgaStopper] /\ \A s \in Stoppers : stopper[s] \in VolgaStopper
    BY VolgaNow DEF Stoppers
  <2>1. CASE BeginStop
    <3> DEFINE w == [stopper["stop"] EXCEPT !.at = "cancel", !.link = current]
    <3>1. stopper' = [stopper EXCEPT !["stop"] = w] /\ stopper["stop"].at = "idle"
      BY <2>0, <2>1 DEF BeginStop
    <3>2. w \in VolgaStopper
      BY <2>0, VolgaNow DEF VolgaStopper
    <3> HIDE DEF w
    <3>3. QED
      BY <1>1, <2>0, <3>1, <3>2, VolgaStopperMoves
  <2>2. CASE EndStop
    <3>1. StopperGoes("stop", "after", "done")
      BY <2>2 DEF EndStop, StopperGoes
    <3>2. PICK w \in VolgaStopper : stopper' = [stopper EXCEPT !["stop"] = w] /\ stopper["stop"].at = "after"
      BY <2>0, <3>1, VolgaStopperGoes
    <3>3. QED
      BY <1>1, <2>0, <3>2, VolgaStopperMoves
  <2>3. CASE BeginApply
    <3> DEFINE w == [stopper["apply"] EXCEPT !.at = "loaded", !.held = auth]
    <3>1. stopper' = [stopper EXCEPT !["apply"] = w] /\ stopper["apply"].at = "idle"
      BY <2>0, <2>3 DEF BeginApply
    <3>2. w \in VolgaStopper
      BY <2>0, VolgaNow DEF VolgaStopper
    <3> HIDE DEF w
    <3>3. QED
      BY <1>1, <2>0, <3>1, <3>2, VolgaStopperMoves
  <2>4. CASE StoreUpdated
    <3>1. [at |-> "cancel", link |-> current, held |-> NoAuth] \in VolgaStopper
      BY VolgaNow DEF VolgaStopper
    <3>2. QED
      BY <1>1, <2>0, <2>4, <3>1, VolgaStopperMoves DEF StoreUpdated
  <2>5. CASE EndApply
    <3>1. IdleStopper \in VolgaStopper
      BY DEF VolgaStopper, IdleStopper
    <3>2. QED
      BY <1>1, <2>0, <2>5, <3>1, VolgaStopperMoves DEF EndApply
  <2>6. ASSUME NEW s \in Stoppers, StopRelay(s) PROVE stopper' \in [Stoppers -> VolgaStopper] /\ VolgaReads' /\ StoppedIsDeaf'
    <3>1. StopperGoes(s, "drain", "after")
      BY <2>6 DEF StopRelay
    <3>2. PICK w \in VolgaStopper : stopper' = [stopper EXCEPT ![s] = w] /\ stopper[s].at = "drain"
      BY <3>1, VolgaStopperGoes
    <3>3. QED
      BY <1>1, <3>2, VolgaStopperMoves
  <2>7. QED
    BY <2>1, <2>2, <2>3, <2>4, <2>5, <2>6 DEF VolgaStopsOn
<1>3. volgaRunning' \in BOOLEAN /\ volgaConnected' \in BOOLEAN
  <2>1. volgaRunning' \in {volgaRunning, FALSE} /\ volgaConnected' \in {volgaConnected, FALSE}
    BY DEF VolgaStopsOn, BeginStop, EndStop, BeginApply, StoreUpdated, EndApply, StopRelay, volgaFlags
  <2>2. QED
    BY <2>1, VolgaNow
<1>4. jar' \in Jars /\ auth' \in Jars \cup {NoAuth}
  <2>1. CASE BeginApply
    BY <2>1, VolgaNow DEF BeginApply, Jars
  <2>2. CASE ~BeginApply
    <3>1. jar' = jar /\ auth' \in {auth, stopper["apply"].held}
      BY <2>2 DEF VolgaStopsOn, BeginStop, EndStop, StoreUpdated, EndApply, StopRelay
    <3>2. stopper["apply"] \in VolgaStopper
      BY VolgaNow DEF Stoppers
    <3>3. QED
      BY <3>1, <3>2, VolgaNow DEF VolgaStopper
  <2>3. QED
    BY <2>1, <2>2
<1>5. birth' \in [Links -> VolgaBirths] /\ made' \in [Links -> Jars]
  <2>1. CASE EndApply
    BY <2>1, VolgaNow DEF EndApply, VolgaBirths, making
  <2>2. CASE ~EndApply
    BY <2>2, VolgaNow DEF VolgaStopsOn, BeginStop, EndStop, StoreUpdated, BeginApply, StopRelay, making
  <2>3. QED
    BY <2>1, <2>2
<1>6. relay' \in [Links -> {"off", "up", "stopped"}]
  <2>1. relay' = relay \/ \E l \in Links \cup {0} : relay' = [relay EXCEPT ![l] = "stopped"]
    <3>1. \A s \in Stoppers : stopper[s].link \in Links \cup {0}
      BY VolgaNow DEF VolgaStopper
    <3>2. QED
      BY <3>1 DEF VolgaStopsOn, BeginStop, EndStop, StoreUpdated, EndApply, BeginApply, StopRelay
  <2>2. QED
    BY <2>1, VolgaNow
<1>7. QED
  BY <1>1, <1>2, <1>3, <1>4, <1>5, <1>6, VolgaNow, VolgaOK

LEMMA VolgaTickKeeps ==
  ASSUME VolgaInv, NEW tx \in BOOLEAN, NEW rx \in BOOLEAN, StatsTick(tx, rx)
  PROVE  VolgaInv'
<1> USE VolgaAssumption
<1>1. UNCHANGED <<volgaFlags, jar, auth, making, relay, current, stopper, mute>> /\ current \in Links
  BY VolgaNow DEF StatsTick
<1> DEFINE n == IF rx THEN 0 ELSE CountsOn(tx)
<1>2. \/ n < StallTicks /\ unanswered' = n /\ listener' = listener
      \/ unanswered' = 0 /\ listener' = CloseShown(current)
  BY DEF StatsTick
<1>3. n \in Nat
  BY VolgaNow DEF CountsOn
<1> HIDE DEF n
<1>4. unanswered' \in 0..StallTicks
  BY <1>2, <1>3
<1>5. listener' \in [Links -> Listener] /\ VolgaReads' /\ StoppedIsDeaf'
  <2>1. CASE listener' = listener
    BY <1>1, <2>1, VolgaNow DEF VolgaReads, StoppedIsDeaf, Cancelled
  <2>2. CASE listener' = CloseShown(current)
    <3>1. /\ listener' \in [Links -> Listener]
          /\ \A k \in Links : /\ listener'[k].at = listener[k].at /\ listener'[k].cancelled = listener[k].cancelled
                              /\ listener'[k].shown = listener[k].shown
                              /\ listener'[k].socket = "open" => listener[k].socket = "open"
      BY <1>1, <2>2, VolgaCloses
    <3>2. VolgaReads' /\ StoppedIsDeaf'
      BY <1>1, <3>1, VolgaNow DEF VolgaReads, StoppedIsDeaf, Cancelled
    <3>3. QED
      BY <3>1, <3>2
  <2>3. QED
    BY <1>2, <2>1, <2>2
<1>6. QED
  BY <1>1, <1>4, <1>5, VolgaNow, VolgaOK DEF volgaFlags, making

LEMMA VolgaMakesKeep == ASSUME VolgaInv, NEW l \in Links, AuthorizeFails(l) \/ PublishLink(l) \/ ServerMutes PROVE VolgaInv'
<1>1. UNCHANGED <<volgaRunning, jar, auth, made, listener, relay, stopper, unanswered>>
  BY DEF AuthorizeFails, PublishLink, ServerMutes, volgaFlags, traffic, making
<1>2. birth' \in [Links -> VolgaBirths] /\ current' \in Links \cup {0} /\ mute' \in BOOLEAN
  BY VolgaNow DEF AuthorizeFails, PublishLink, ServerMutes, volgaFlags, traffic, making, VolgaBirths
<1>3. volgaConnected' \in BOOLEAN
  <2>1. CASE PublishLink(l)
    BY <2>1 DEF PublishLink
  <2>2. CASE ~PublishLink(l)
    BY <2>2, VolgaNow DEF AuthorizeFails, ServerMutes, volgaFlags
  <2>3. QED
    BY <2>1, <2>2
<1>4. VolgaReads' /\ StoppedIsDeaf'
  BY <1>1, VolgaNow DEF VolgaReads, StoppedIsDeaf, Cancelled
<1>5. QED
  BY <1>1, <1>2, <1>3, <1>4, VolgaNow, VolgaOK

LEMMA VolgaStay == ASSUME VolgaInv, UNCHANGED volgaVars PROVE VolgaInv'
<1>1. UNCHANGED <<volgaRunning, volgaConnected, jar, auth, birth, made, listener, relay, current, stopper, unanswered, mute>>
  BY DEF volgaVars, volgaFlags, making, traffic
<1>2. VolgaReads' /\ StoppedIsDeaf'
  BY <1>1, VolgaNow DEF VolgaReads, StoppedIsDeaf, Cancelled
<1>3. QED
  BY <1>1, <1>2, VolgaNow, VolgaOK

LEMMA VolgaKeep == VolgaInv /\ [VolgaNext]_volgaVars => VolgaInv'
<1> SUFFICES ASSUME VolgaInv, [VolgaNext]_volgaVars PROVE VolgaInv'
  OBVIOUS
<1>1. ASSUME NEW l \in Links, AuthorizeFails(l) \/ StartLinks(l) \/ PublishLink(l) \/ ListenerMoves(l) \/ ReadMessage(l)
      PROVE  VolgaInv'
  BY <1>1, VolgaMakesKeep, VolgaListensKeep DEF VolgaListens
<1>2. ASSUME NEW s \in Stoppers, CancelListener(s) \/ CloseConn(s) \/ StopRelay(s) PROVE VolgaInv'
  BY <1>2, VolgaCancelKeeps, VolgaCloseKeeps, VolgaStopsOnKeep DEF VolgaStopsOn
<1>3. CASE ServerMutes
  <2>1. current # 0
    BY <1>3 DEF ServerMutes
  <2>2. current \in Links
    BY <2>1, VolgaNow
  <2>3. QED
    BY <1>3, <2>2, VolgaMakesKeep
<1>4. QED
  BY <1>1, <1>2, <1>3, VolgaStopsOnKeep, VolgaTickKeeps, VolgaStay DEF VolgaNext, VolgaStopsOn

LEMMA VolgaShow == VolgaInv => VolgaTypeOK /\ StoppedIsDeaf
BY DEF VolgaInv

----------------------------------------------------------------------------
(* The packets of the Volga carrier.                                       *)

RelayWork == [at : {"gathering", "posting", "gone"}, batch : Seq(RelayPackets), user : Users]
RelayMessage == [user : Users, packets : Seq(RelayPackets)]
RelayBatches == [w \in RelayWorkers |-> volgaWorker[w].batch]

\* Every packet numbered so far is at one place at most, and there once.
RelayPlaced(snd, q, bs, ms, got, n) ==
    /\ IsInjective(q) /\ IsInjective(got) /\ ToSet(q) \cap ToSet(got) = {}
    /\ ToSet(q) \subseteq 1..n /\ ToSet(got) \subseteq 1..n
    /\ \A s \in RelaySenders :
         /\ snd[s] \in 0..n
         /\ snd[s] # 0 => /\ snd[s] \notin ToSet(q) /\ snd[s] \notin ToSet(got)
                          /\ \A w \in RelayWorkers : snd[s] \notin ToSet(bs[w])
                          /\ \A m \in ms : snd[s] \notin ToSet(m.packets)
                          /\ \A t \in RelaySenders : snd[s] = snd[t] => s = t
    /\ \A w \in RelayWorkers :
         /\ IsInjective(bs[w]) /\ ToSet(bs[w]) \subseteq 1..n
         /\ ToSet(bs[w]) \cap ToSet(q) = {} /\ ToSet(bs[w]) \cap ToSet(got) = {}
         /\ \A m \in ms : ToSet(bs[w]) \cap ToSet(m.packets) = {}
         /\ \A v \in RelayWorkers : v # w => ToSet(bs[v]) \cap ToSet(bs[w]) = {}
    /\ \A m \in ms :
         /\ IsInjective(m.packets) /\ ToSet(m.packets) \subseteq 1..n
         /\ ToSet(m.packets) \cap ToSet(q) = {} /\ ToSet(m.packets) \cap ToSet(got) = {}
         /\ \A k \in ms : k # m => ToSet(k.packets) \cap ToSet(m.packets) = {}

\* A worker that gathers has room for a packet.
RelayRoom ==
    \A w \in RelayWorkers :
        IF volgaWorker[w].at = "gathering" THEN Len(volgaWorker[w].batch) < RelayBatch
                                           ELSE Len(volgaWorker[w].batch) <= RelayBatch

\* Once Stop has the lock nobody gets it any more.
RelayShutInv ==
    queueClosed => relayStop \in {"locked", "returned"} /\ NoSender

RelayTypes ==
    /\ relaySender \in [RelaySenders -> 0..MaxRelayPackets] /\ numbered \in 0..MaxRelayPackets
    /\ batchQueue \in Seq(RelayPackets) /\ Len(batchQueue) <= RelayQueue
    /\ queueClosed \in BOOLEAN /\ relayStop \in {"running", "cancelled", "locked", "returned"}
    /\ volgaWorker \in [RelayWorkers -> RelayWork] /\ user \in Users
    /\ posted \subseteq RelayMessage /\ peerGot \in Seq(RelayPackets) /\ ownGot \in Seq(RelayPackets)

RelayOnceInv == RelayPlaced(relaySender, batchQueue, RelayBatches, posted, peerGot, numbered)

RelayInv == RelayTypes /\ RelayRoom /\ RelayShutInv /\ RelayOnceInv

LEMMA RelayShow == RelayInv => VolgaRelayTypeOK /\ NoSendOnClosed /\ RelayedOnce
<1> SUFFICES ASSUME RelayInv PROVE VolgaRelayTypeOK /\ NoSendOnClosed /\ RelayedOnce
  OBVIOUS
<1>1. \A w \in RelayWorkers :
         /\ volgaWorker[w].at \in {"gathering", "posting", "gone"}
         /\ volgaWorker[w].batch \in Seq(RelayPackets) /\ Len(volgaWorker[w].batch) <= RelayBatch
         /\ volgaWorker[w].user \in Users
  <2> SUFFICES ASSUME NEW w \in RelayWorkers
               PROVE  /\ volgaWorker[w].at \in {"gathering", "posting", "gone"}
                      /\ volgaWorker[w].batch \in Seq(RelayPackets) /\ Len(volgaWorker[w].batch) <= RelayBatch
                      /\ volgaWorker[w].user \in Users
    OBVIOUS
  <2>1. volgaWorker[w] \in RelayWork
    BY DEF RelayInv, RelayTypes
  <2>2. volgaWorker[w].batch \in Seq(RelayPackets) /\ volgaWorker[w].at \in {"gathering", "posting", "gone"} /\ volgaWorker[w].user \in Users
    BY <2>1 DEF RelayWork
  <2>3. Len(volgaWorker[w].batch) \in Nat /\ RelayBatch \in Nat
    BY <2>2, VolgaRelayAssumption
  <2>4. Len(volgaWorker[w].batch) <= RelayBatch
    BY <2>3 DEF RelayInv, RelayRoom
  <2>5. QED
    BY <2>2, <2>4
<1>2. \A m \in posted : m.user \in Users /\ m.packets \in Seq(RelayPackets)
  BY DEF RelayInv, RelayTypes, RelayMessage
<1>3. VolgaRelayTypeOK
  BY <1>1, <1>2 DEF VolgaRelayTypeOK, RelayInv, RelayTypes
<1>4. QED
  BY <1>3 DEF RelayInv, NoSendOnClosed, RelayShutInv, NoSender, RelayedOnce, RelayOnceInv, RelayPlaced

LEMMA RelayStarts == VolgaRelayInit => RelayInv
<1> SUFFICES ASSUME VolgaRelayInit PROVE RelayInv
  OBVIOUS
<1> USE VolgaRelayAssumption
<1>1. \A w \in RelayWorkers : volgaWorker[w] = [at |-> "gathering", batch |-> <<>>, user |-> 1]
  BY DEF VolgaRelayInit
<1>2. [at |-> "gathering", batch |-> <<>>, user |-> 1] \in RelayWork
  BY DEF RelayWork, Users, RelayPackets
<1>3. volgaWorker \in [RelayWorkers -> RelayWork]
  BY <1>2 DEF VolgaRelayInit
<1>4. <<>> \in Seq(RelayPackets) /\ Len(<<>>) = 0
  OBVIOUS
<1>5. RelayTypes
  <2>1. 0 \in 0..MaxRelayPackets /\ 1 \in Users /\ 0 <= RelayQueue
    BY DEF Users
  <2>2. relaySender \in [RelaySenders -> 0..MaxRelayPackets] /\ numbered \in 0..MaxRelayPackets
    BY <2>1 DEF VolgaRelayInit
  <2>3. batchQueue \in Seq(RelayPackets) /\ peerGot \in Seq(RelayPackets) /\ ownGot \in Seq(RelayPackets)
    BY <1>4 DEF VolgaRelayInit
  <2>4. Len(batchQueue) <= RelayQueue
    BY <1>4, <2>1 DEF VolgaRelayInit
  <2>5. queueClosed \in BOOLEAN /\ relayStop \in {"running", "cancelled", "locked", "returned"} /\ user \in Users
        /\ posted \subseteq RelayMessage
    BY <2>1 DEF VolgaRelayInit
  <2>6. QED
    BY <1>3, <2>2, <2>3, <2>4, <2>5 DEF RelayTypes
<1>6. RelayRoom /\ RelayShutInv
  BY <1>1, <1>4 DEF VolgaRelayInit, RelayRoom, RelayShutInv
<1>7. \A w \in RelayWorkers : RelayBatches[w] = <<>>
  BY <1>1 DEF RelayBatches
<1>8. relaySender \in [RelaySenders -> {0}] /\ batchQueue = <<>> /\ posted = {} /\ peerGot = <<>> /\ numbered = 0
  BY DEF VolgaRelayInit
<1>9. RelayPlaced(relaySender, <<>>, RelayBatches, {}, <<>>, 0)
  BY <1>7, <1>8, NoneThere DEF RelayPlaced
<1>10. QED
  BY <1>5, <1>6, <1>8, <1>9 DEF RelayInv, RelayOnceInv

\* What becomes of the places of the packets.
LEMMA RelayNumbers ==
  ASSUME NEW n \in Nat, NEW snd \in [RelaySenders -> Nat], NEW q, NEW bs, NEW ms, NEW got,
         RelayPlaced(snd, q, bs, ms, got, n), NEW s \in RelaySenders
  PROVE  RelayPlaced([snd EXCEPT ![s] = n + 1], q, bs, ms, got, n + 1)
<1> DEFINE r == [snd EXCEPT ![s] = n + 1]
<1>1. \A t \in RelaySenders : r[t] = IF t = s THEN n + 1 ELSE snd[t]
  OBVIOUS
<1>2. 1..n \subseteq 1..n + 1 /\ 0..n \subseteq 0..n + 1 /\ n + 1 \notin 0..n /\ n + 1 \notin 1..n /\ n + 1 \in 0..n + 1
  OBVIOUS
<1> HIDE DEF r
<1>3. RelayPlaced(r, q, bs, ms, got, n + 1)
  BY ZenonT(40), <1>1, <1>2 DEF RelayPlaced
<1>4. QED
  BY <1>3 DEF r

LEMMA RelayLays ==
  ASSUME NEW S, NEW n, NEW snd \in [RelaySenders -> S], NEW q \in Seq(S), NEW bs, NEW ms, NEW got,
         RelayPlaced(snd, q, bs, ms, got, n), NEW s \in RelaySenders, snd[s] # 0, 0 \in 0..n
  PROVE  /\ RelayPlaced([snd EXCEPT ![s] = 0], q, bs, ms, got, n)
         /\ RelayPlaced([snd EXCEPT ![s] = 0], Append(q, snd[s]), bs, ms, got, n)
<1> DEFINE r == [snd EXCEPT ![s] = 0]
           x == snd[s]
           p == Append(q, x)
<1>1. \A t \in RelaySenders : r[t] = IF t = s THEN 0 ELSE snd[t]
  OBVIOUS
<1>2. x \in S /\ x \in 0..n /\ x # 0 /\ x \notin ToSet(q)
  BY DEF RelayPlaced
<1>3. x \in 1..n
  BY <1>2
<1>4. ToSet(p) = ToSet(q) \cup {x} /\ IsInjective(p)
  BY <1>2, OneMore DEF RelayPlaced
<1>5. \A t \in RelaySenders : r[t] # 0 => r[t] # x /\ r[t] = snd[t]
  BY <1>1, <1>2 DEF RelayPlaced
<1>6. \A t \in RelaySenders : r[t] \in 0..n
  BY <1>1 DEF RelayPlaced
<1>7. \A w \in RelayWorkers : x \notin ToSet(bs[w])
  BY <1>2 DEF RelayPlaced
<1>8. \A m \in ms : x \notin ToSet(m.packets)
  BY <1>2 DEF RelayPlaced
<1>9. x \notin ToSet(got)
  BY <1>2 DEF RelayPlaced
<1> HIDE DEF r, x, p
<1>10. RelayPlaced(r, q, bs, ms, got, n)
  BY <1>1, <1>5, <1>6 DEF RelayPlaced
<1>11. RelayPlaced(r, p, bs, ms, got, n)
  <2>1. /\ IsInjective(p) /\ IsInjective(got) /\ ToSet(p) \cap ToSet(got) = {}
        /\ ToSet(p) \subseteq 1..n /\ ToSet(got) \subseteq 1..n
    BY <1>3, <1>4, <1>9, <1>10 DEF RelayPlaced
  <2>2. \A t \in RelaySenders :
         /\ r[t] \in 0..n
         /\ r[t] # 0 => /\ r[t] \notin ToSet(p) /\ r[t] \notin ToSet(got)
                        /\ \A w \in RelayWorkers : r[t] \notin ToSet(bs[w])
                        /\ \A m \in ms : r[t] \notin ToSet(m.packets)
                        /\ \A z \in RelaySenders : r[t] = r[z] => t = z
    BY <1>4, <1>5, <1>10 DEF RelayPlaced
  <2>3. \A w \in RelayWorkers :
         /\ IsInjective(bs[w]) /\ ToSet(bs[w]) \subseteq 1..n
         /\ ToSet(bs[w]) \cap ToSet(p) = {} /\ ToSet(bs[w]) \cap ToSet(got) = {}
         /\ \A m \in ms : ToSet(bs[w]) \cap ToSet(m.packets) = {}
         /\ \A v \in RelayWorkers : v # w => ToSet(bs[v]) \cap ToSet(bs[w]) = {}
    <3>1. \A w \in RelayWorkers : ToSet(bs[w]) \cap ToSet(q) = {}
      BY <1>10 DEF RelayPlaced
    <3>2. \A w \in RelayWorkers : ToSet(bs[w]) \cap ToSet(p) = {}
      BY <1>4, <1>7, <3>1
    <3>3. QED
      BY <1>10, <3>2 DEF RelayPlaced
  <2>4. \A m \in ms :
         /\ IsInjective(m.packets) /\ ToSet(m.packets) \subseteq 1..n
         /\ ToSet(m.packets) \cap ToSet(p) = {} /\ ToSet(m.packets) \cap ToSet(got) = {}
         /\ \A k \in ms : k # m => ToSet(k.packets) \cap ToSet(m.packets) = {}
    <3>1. \A m \in ms : ToSet(m.packets) \cap ToSet(q) = {}
      BY <1>10 DEF RelayPlaced
    <3>2. \A m \in ms : ToSet(m.packets) \cap ToSet(p) = {}
      BY <1>4, <1>8, <3>1
    <3>3. QED
      BY <1>10, <3>2 DEF RelayPlaced
  <2>5. QED
    BY <2>1, <2>2, <2>3, <2>4 DEF RelayPlaced
<1>12. QED
  BY <1>10, <1>11 DEF r, p, x

LEMMA RelayGathers ==
  ASSUME NEW S, NEW n, NEW snd, NEW q \in Seq(S), NEW bs \in [RelayWorkers -> Seq(S)], NEW ms, NEW got,
         RelayPlaced(snd, q, bs, ms, got, n), q # <<>>, NEW w \in RelayWorkers
  PROVE  RelayPlaced(snd, Tail(q), [bs EXCEPT ![w] = Append(bs[w], Head(q))], ms, got, n)
<1> DEFINE h == Head(q)
           t == Tail(q)
           b == Append(bs[w], h)
           cs == [bs EXCEPT ![w] = b]
<1>1. h \in S /\ ToSet(q) = {h} \cup ToSet(t) /\ IsInjective(t) /\ h \notin ToSet(t)
  BY FirstTaken DEF RelayPlaced
<1>2. h \notin ToSet(bs[w]) /\ IsInjective(bs[w]) /\ bs[w] \in Seq(S)
  BY <1>1 DEF RelayPlaced
<1>3. IsInjective(b) /\ ToSet(b) = ToSet(bs[w]) \cup {h}
  BY <1>1, <1>2, OneMore
<1>4. \A v \in RelayWorkers : cs[v] = IF v = w THEN b ELSE bs[v]
  OBVIOUS
<1> HIDE DEF h, t, b, cs
<1>5. \A v \in RelayWorkers : IsInjective(cs[v]) /\ ToSet(cs[v]) \subseteq ToSet(bs[v]) \cup {h} /\ (v # w => ToSet(cs[v]) = ToSet(bs[v]))
  BY <1>3, <1>4 DEF RelayPlaced
<1>6. \A v \in RelayWorkers : h \notin ToSet(bs[v])
  BY <1>1 DEF RelayPlaced
<1>7. h \in 1..n /\ h \notin ToSet(got) /\ \A m \in ms : h \notin ToSet(m.packets)
  BY <1>1 DEF RelayPlaced
<1>8. \A s \in RelaySenders : snd[s] # 0 => snd[s] # h
  BY <1>1 DEF RelayPlaced
<1>9. RelayPlaced(snd, t, cs, ms, got, n)
  <2>1. /\ IsInjective(t) /\ IsInjective(got) /\ ToSet(t) \cap ToSet(got) = {}
        /\ ToSet(t) \subseteq 1..n /\ ToSet(got) \subseteq 1..n
    BY <1>1 DEF RelayPlaced
  <2>2. \A s \in RelaySenders :
         /\ snd[s] \in 0..n
         /\ snd[s] # 0 => /\ snd[s] \notin ToSet(t) /\ snd[s] \notin ToSet(got)
                          /\ \A v \in RelayWorkers : snd[s] \notin ToSet(cs[v])
                          /\ \A m \in ms : snd[s] \notin ToSet(m.packets)
                          /\ \A z \in RelaySenders : snd[s] = snd[z] => s = z
    BY <1>1, <1>5, <1>8 DEF RelayPlaced
  <2>3. \A v \in RelayWorkers :
         /\ IsInjective(cs[v]) /\ ToSet(cs[v]) \subseteq 1..n
         /\ ToSet(cs[v]) \cap ToSet(t) = {} /\ ToSet(cs[v]) \cap ToSet(got) = {}
         /\ \A m \in ms : ToSet(cs[v]) \cap ToSet(m.packets) = {}
    <3> SUFFICES ASSUME NEW v \in RelayWorkers
                 PROVE  /\ IsInjective(cs[v]) /\ ToSet(cs[v]) \subseteq 1..n
                        /\ ToSet(cs[v]) \cap ToSet(t) = {} /\ ToSet(cs[v]) \cap ToSet(got) = {}
                        /\ \A m \in ms : ToSet(cs[v]) \cap ToSet(m.packets) = {}
      OBVIOUS
    <3>1. IsInjective(cs[v]) /\ ToSet(cs[v]) \subseteq ToSet(bs[v]) \cup {h}
      BY <1>5
    <3>2. /\ ToSet(bs[v]) \subseteq 1..n /\ ToSet(bs[v]) \cap ToSet(q) = {} /\ ToSet(bs[v]) \cap ToSet(got) = {}
          /\ \A m \in ms : ToSet(bs[v]) \cap ToSet(m.packets) = {}
      BY DEF RelayPlaced
    <3>3. ToSet(cs[v]) \subseteq 1..n /\ ToSet(cs[v]) \cap ToSet(got) = {} /\ \A m \in ms : ToSet(cs[v]) \cap ToSet(m.packets) = {}
      BY <1>7, <3>1, <3>2
    <3>4. ToSet(cs[v]) \cap ToSet(t) = {}
      BY <1>1, <3>1, <3>2
    <3>5. QED
      BY <3>1, <3>3, <3>4
  <2>4. \A v \in RelayWorkers : \A z \in RelayWorkers : z # v => ToSet(cs[z]) \cap ToSet(cs[v]) = {}
    BY SMTT(40), <1>5, <1>6 DEF RelayPlaced
  <2>5. \A m \in ms :
         /\ IsInjective(m.packets) /\ ToSet(m.packets) \subseteq 1..n
         /\ ToSet(m.packets) \cap ToSet(t) = {} /\ ToSet(m.packets) \cap ToSet(got) = {}
         /\ \A k \in ms : k # m => ToSet(k.packets) \cap ToSet(m.packets) = {}
    BY <1>1 DEF RelayPlaced
  <2>6. QED
    BY <2>1, <2>2, <2>3, <2>4, <2>5 DEF RelayPlaced
<1>10. QED
  BY <1>9 DEF h, t, b, cs

LEMMA RelayPosts ==
  ASSUME NEW n, NEW snd, NEW q, NEW bs, NEW ms, NEW got, RelayPlaced(snd, q, bs, ms, got, n),
         NEW w \in RelayWorkers, DOMAIN bs = RelayWorkers, NEW m, m.packets = bs[w]
  PROVE  /\ RelayPlaced(snd, q, [bs EXCEPT ![w] = <<>>], ms, got, n)
         /\ RelayPlaced(snd, q, [bs EXCEPT ![w] = <<>>], ms \cup {m}, got, n)
<1> DEFINE cs == [bs EXCEPT ![w] = <<>>]
           ks == ms \cup {m}
<1>1. \A v \in RelayWorkers : cs[v] = IF v = w THEN <<>> ELSE bs[v]
  OBVIOUS
<1> HIDE DEF cs
<1>2. \A v \in RelayWorkers : IsInjective(cs[v]) /\ ToSet(cs[v]) \subseteq ToSet(bs[v]) /\ (v = w => ToSet(cs[v]) = {})
  BY <1>1, NoneThere DEF RelayPlaced
<1>3. RelayPlaced(snd, q, cs, ms, got, n)
  BY <1>2 DEF RelayPlaced
<1>4. /\ IsInjective(m.packets) /\ ToSet(m.packets) \subseteq 1..n
      /\ ToSet(m.packets) \cap ToSet(q) = {} /\ ToSet(m.packets) \cap ToSet(got) = {}
      /\ \A k \in ms : ToSet(k.packets) \cap ToSet(m.packets) = {}
      /\ \A s \in RelaySenders : snd[s] # 0 => snd[s] \notin ToSet(m.packets)
      /\ \A v \in RelayWorkers : v # w => ToSet(bs[v]) \cap ToSet(m.packets) = {}
  BY DEF RelayPlaced
<1>5. \A v \in RelayWorkers : ToSet(cs[v]) \cap ToSet(m.packets) = {}
  BY <1>2, <1>4
<1>6. RelayPlaced(snd, q, cs, ks, got, n)
  BY <1>3, <1>4, <1>5 DEF RelayPlaced
<1>7. QED
  BY <1>3, <1>6 DEF cs

LEMMA RelayRelays ==
  ASSUME NEW S, NEW n, NEW snd, NEW q, NEW bs, NEW ms, NEW got \in Seq(S), RelayPlaced(snd, q, bs, ms, got, n),
         NEW m \in ms, m.packets \in Seq(S)
  PROVE  RelayPlaced(snd, q, bs, ms \ {m}, got \o m.packets, n)
<1> DEFINE g == got \o m.packets
           ks == ms \ {m}
<1>1. IsInjective(g) /\ ToSet(g) = ToSet(got) \cup ToSet(m.packets)
  <2>1. IsInjective(got) /\ IsInjective(m.packets) /\ ToSet(got) \cap ToSet(m.packets) = {}
    BY DEF RelayPlaced
  <2>2. PICK z \in Seq(S) : z = m.packets
    OBVIOUS
  <2>3. IsInjective(got \o z) /\ ToSet(got \o z) = ToSet(got) \cup ToSet(z)
    BY <2>1, <2>2, Together
  <2>4. QED
    BY <2>2, <2>3
<1>2. \A k \in ks : k \in ms /\ k # m
  OBVIOUS
<1> HIDE DEF g, ks
<1>3. /\ ToSet(m.packets) \subseteq 1..n /\ ToSet(m.packets) \cap ToSet(q) = {}
      /\ \A k \in ks : ToSet(k.packets) \cap ToSet(m.packets) = {}
      /\ \A s \in RelaySenders : snd[s] # 0 => snd[s] \notin ToSet(m.packets)
      /\ \A v \in RelayWorkers : ToSet(bs[v]) \cap ToSet(m.packets) = {}
  BY <1>2 DEF RelayPlaced
<1>4. RelayPlaced(snd, q, bs, ks, g, n)
  BY <1>1, <1>2, <1>3 DEF RelayPlaced
<1>5. QED
  BY <1>4 DEF g, ks

LEMMA RelayNow ==
  ASSUME RelayInv
  PROVE  /\ relaySender \in [RelaySenders -> 0..MaxRelayPackets] /\ numbered \in 0..MaxRelayPackets
         /\ batchQueue \in Seq(RelayPackets) /\ Len(batchQueue) <= RelayQueue
         /\ queueClosed \in BOOLEAN /\ relayStop \in {"running", "cancelled", "locked", "returned"}
         /\ volgaWorker \in [RelayWorkers -> RelayWork] /\ user \in Users
         /\ posted \subseteq RelayMessage /\ peerGot \in Seq(RelayPackets) /\ ownGot \in Seq(RelayPackets)
         /\ RelayRoom /\ RelayShutInv
         /\ RelayPlaced(relaySender, batchQueue, RelayBatches, posted, peerGot, numbered)
         /\ RelayBatches \in [RelayWorkers -> Seq(RelayPackets)]
  BY DEF RelayInv, RelayTypes, RelayOnceInv, RelayBatches, RelayWork

LEMMA RelayOK ==
  ASSUME relaySender' \in [RelaySenders -> 0..MaxRelayPackets], numbered' \in 0..MaxRelayPackets,
         batchQueue' \in Seq(RelayPackets), Len(batchQueue') <= RelayQueue,
         queueClosed' \in BOOLEAN, relayStop' \in {"running", "cancelled", "locked", "returned"},
         volgaWorker' \in [RelayWorkers -> RelayWork], user' \in Users,
         posted' \subseteq RelayMessage, peerGot' \in Seq(RelayPackets), ownGot' \in Seq(RelayPackets),
         RelayRoom', RelayShutInv',
         RelayPlaced(relaySender', batchQueue', RelayBatches', posted', peerGot', numbered')
  PROVE  RelayInv'
  BY DEF RelayInv, RelayTypes, RelayOnceInv

LEMMA RelayBatchesStay == volgaWorker' = volgaWorker => RelayBatches' = RelayBatches
  BY DEF RelayBatches

LEMMA RelayStays == ASSUME volgaWorker' = volgaWorker, RelayRoom PROVE RelayRoom'
  BY DEF RelayRoom

LEMMA RelayTakesKeeps == ASSUME RelayInv, NEW s \in RelaySenders, SendTakesLock(s) PROVE RelayInv'
<1> USE VolgaRelayAssumption
<1>1. UNCHANGED <<batchQueue, relayStop, queueClosed, volgaWorker, user, posted, peerGot, ownGot>>
  BY DEF SendTakesLock, relayStopping
<1>2. numbered < MaxRelayPackets /\ numbered' = numbered + 1 /\ relaySender' = [relaySender EXCEPT ![s] = numbered + 1]
  BY DEF SendTakesLock
<1>3. numbered \in Nat /\ numbered + 1 \in 0..MaxRelayPackets /\ relaySender \in [RelaySenders -> Nat]
  BY <1>2, RelayNow
<1>4. relaySender' \in [RelaySenders -> 0..MaxRelayPackets]
  BY <1>2, <1>3, RelayNow
<1>5. ~queueClosed
  BY RelayNow DEF RelayShutInv, SendTakesLock
<1>6. RelayPlaced(relaySender', batchQueue, RelayBatches, posted, peerGot, numbered')
  BY <1>2, <1>3, RelayNow, RelayNumbers
<1>7. RelayRoom' /\ RelayShutInv' /\ RelayBatches' = RelayBatches
  BY <1>1, <1>5, RelayNow, RelayStays, RelayBatchesStay DEF RelayShutInv
<1>8. QED
  BY <1>1, <1>2, <1>3, <1>4, <1>6, <1>7, RelayNow, RelayOK

LEMMA RelayQueuesKeeps == ASSUME RelayInv, NEW s \in RelaySenders, SendQueues(s) PROVE RelayInv'
<1> USE VolgaRelayAssumption
<1>1. UNCHANGED <<numbered, relayStop, queueClosed, volgaWorker, user, posted, peerGot, ownGot>>
  BY DEF SendQueues, relayStopping
<1>2. relaySender[s] # 0 /\ relaySender' = [relaySender EXCEPT ![s] = 0]
  BY DEF SendQueues
<1>3. \/ batchQueue' = batchQueue
      \/ batchQueue' = Append(batchQueue, relaySender[s]) /\ Len(batchQueue) < RelayQueue
  BY DEF SendQueues
<1>4. 0 \in 0..numbered /\ numbered \in Nat /\ 0 \in 0..MaxRelayPackets
  BY RelayNow
<1>5. relaySender[s] \in RelayPackets
  BY <1>2, RelayNow DEF RelayPackets
<1>6. relaySender' \in [RelaySenders -> 0..MaxRelayPackets]
  BY <1>2, <1>4, RelayNow
<1>7. batchQueue' \in Seq(RelayPackets) /\ Len(batchQueue') <= RelayQueue
  <2>1. batchQueue \in Seq(RelayPackets) /\ Len(batchQueue) <= RelayQueue
    BY RelayNow
  <2>2. PICK x \in RelayPackets : x = relaySender[s]
    BY <1>5
  <2>3. Append(batchQueue, x) \in Seq(RelayPackets) /\ Len(Append(batchQueue, x)) = Len(batchQueue) + 1 /\ Len(batchQueue) \in Nat
    BY <2>1
  <2>4. QED
    BY <1>3, <2>1, <2>2, <2>3
<1>8. RelayPlaced(relaySender', batchQueue', RelayBatches, posted, peerGot, numbered)
  <2>1. batchQueue \in Seq(Nat) /\ relaySender \in [RelaySenders -> Nat]
    BY RelayNow DEF RelayPackets
  <2>2. RelayPlaced(relaySender, batchQueue, RelayBatches, posted, peerGot, numbered)
    BY RelayNow
  <2>3. /\ RelayPlaced([relaySender EXCEPT ![s] = 0], batchQueue, RelayBatches, posted, peerGot, numbered)
        /\ RelayPlaced([relaySender EXCEPT ![s] = 0], Append(batchQueue, relaySender[s]), RelayBatches, posted, peerGot, numbered)
    BY <1>2, <1>4, <2>1, <2>2, RelayLays
  <2>4. QED
    BY <1>2, <1>3, <2>3
<1>9. RelayRoom' /\ RelayBatches' = RelayBatches
  BY <1>1, RelayNow, RelayStays, RelayBatchesStay
<1>10. RelayShutInv'
  BY <1>1, <1>2, RelayNow DEF RelayShutInv, NoSender
<1>11. QED
  BY <1>1, <1>6, <1>7, <1>8, <1>9, <1>10, RelayNow, RelayOK

\* What a worker makes of its batch.
LEMMA RelayWorks ==
  ASSUME RelayInv, NEW w \in RelayWorkers, NEW v \in RelayWork, volgaWorker' = [volgaWorker EXCEPT ![w] = v],
         IF v.at = "gathering" THEN Len(v.batch) < RelayBatch ELSE Len(v.batch) <= RelayBatch
  PROVE  volgaWorker' \in [RelayWorkers -> RelayWork] /\ RelayRoom' /\ RelayBatches' = [RelayBatches EXCEPT ![w] = v.batch]
<1>1. volgaWorker' \in [RelayWorkers -> RelayWork]
      /\ \A u \in RelayWorkers : volgaWorker'[u] = IF u = w THEN v ELSE volgaWorker[u]
  BY RelayNow
<1>2. RelayRoom'
  BY <1>1, RelayNow DEF RelayRoom
<1>3. RelayBatches' = [RelayBatches EXCEPT ![w] = v.batch]
  BY <1>1 DEF RelayBatches
<1>4. QED
  BY <1>1, <1>2, <1>3

LEMMA RelayGatherKeeps == ASSUME RelayInv, NEW w \in RelayWorkers, Gather(w) PROVE RelayInv'
<1> USE VolgaRelayAssumption
<1> DEFINE b == Append(volgaWorker[w].batch, Head(batchQueue))
           at == IF Len(b) = RelayBatch THEN "posting" ELSE "gathering"
           v == [[volgaWorker[w] EXCEPT !.at = at, !.batch = b] EXCEPT !.user = user]
<1>1. UNCHANGED <<relaySender, numbered, relayStop, queueClosed, user, posted, peerGot, ownGot>>
  BY DEF Gather, relaySending, relayStopping
<1>2. volgaWorker[w] \in RelayWork /\ volgaWorker[w].batch \in Seq(RelayPackets) /\ Len(volgaWorker[w].batch) < RelayBatch
  <2>1. volgaWorker[w] \in RelayWork /\ volgaWorker[w].at = "gathering"
    BY RelayNow DEF Gather
  <2>2. QED
    BY <2>1, RelayNow DEF RelayWork, RelayRoom
<1>3. Head(batchQueue) \in RelayPackets /\ Tail(batchQueue) \in Seq(RelayPackets) /\ Len(Tail(batchQueue)) <= RelayQueue
      /\ batchQueue # <<>> /\ batchQueue' = Tail(batchQueue)
  BY RelayNow DEF Gather
<1>4. b \in Seq(RelayPackets) /\ Len(b) <= RelayBatch /\ Len(b) \in Nat
  BY <1>2, <1>3
<1>5. volgaWorker' = [volgaWorker EXCEPT ![w] = v]
  <2>1. volgaWorker' = [[volgaWorker EXCEPT ![w].at = at, ![w].batch = b] EXCEPT ![w].user = user]
    BY DEF Gather, Worker
  <2>2. volgaWorker \in [RelayWorkers -> RelayWork]
    BY RelayNow
  <2> HIDE DEF at, b
  <2>3. QED
    BY <2>1, <2>2
<1>6. v \in RelayWork /\ v.batch = b /\ IF v.at = "gathering" THEN Len(v.batch) < RelayBatch ELSE Len(v.batch) <= RelayBatch
  <2>1. at \in {"gathering", "posting"} /\ (at = "gathering" => Len(b) < RelayBatch)
    BY <1>4
  <2> HIDE DEF at, b
  <2>2. user \in Users
    BY RelayNow
  <2>3. v \in RelayWork /\ v.batch = b /\ v.at = at
    BY <1>2, <1>4, <2>1, <2>2 DEF RelayWork
  <2> HIDE DEF v
  <2>4. QED
    BY <1>4, <2>1, <2>3
<1>7. RelayPlaced(relaySender, Tail(batchQueue), [RelayBatches EXCEPT ![w] = Append(RelayBatches[w], Head(batchQueue))],
                  posted, peerGot, numbered)
  BY <1>3, RelayNow, RelayGathers
<1>8. RelayBatches[w] = volgaWorker[w].batch
  BY DEF RelayBatches
<1> HIDE DEF v
<1>9. volgaWorker' \in [RelayWorkers -> RelayWork] /\ RelayRoom' /\ RelayBatches' = [RelayBatches EXCEPT ![w] = b]
  BY <1>5, <1>6, RelayWorks
<1>10. RelayShutInv'
  BY <1>1, RelayNow DEF RelayShutInv, NoSender
<1>11. QED
  BY <1>1, <1>3, <1>7, <1>8, <1>9, <1>10, RelayNow, RelayOK

LEMMA RelayFlushKeeps == ASSUME RelayInv, NEW w \in RelayWorkers, FlushTimer(w) PROVE RelayInv'
<1> USE VolgaRelayAssumption
<1> DEFINE b == volgaWorker[w].batch
           v == [[volgaWorker[w] EXCEPT !.at = "posting", !.batch = b] EXCEPT !.user = user]
<1>1. UNCHANGED <<relaySender, numbered, batchQueue, relayStop, queueClosed, user, posted, peerGot, ownGot>>
  BY DEF FlushTimer, relaySending, relayStopping
<1>2. volgaWorker[w] \in RelayWork /\ b \in Seq(RelayPackets) /\ Len(b) < RelayBatch /\ Len(b) \in Nat
  <2>1. volgaWorker[w] \in RelayWork /\ volgaWorker[w].at = "gathering"
    BY RelayNow DEF FlushTimer
  <2>2. QED
    BY <2>1, RelayNow DEF RelayWork, RelayRoom
<1>3. volgaWorker' = [volgaWorker EXCEPT ![w] = v]
  <2>1. volgaWorker' = [[volgaWorker EXCEPT ![w].at = "posting", ![w].batch = b] EXCEPT ![w].user = user]
    BY DEF FlushTimer, Worker
  <2>2. volgaWorker \in [RelayWorkers -> RelayWork]
    BY RelayNow
  <2> HIDE DEF b
  <2>3. QED
    BY <2>1, <2>2
<1>4. v \in RelayWork /\ v.batch = b /\ IF v.at = "gathering" THEN Len(v.batch) < RelayBatch ELSE Len(v.batch) <= RelayBatch
  <2> HIDE DEF b
  <2>1. user \in Users
    BY RelayNow
  <2>2. v \in RelayWork /\ v.batch = b /\ v.at = "posting"
    BY <1>2, <2>1 DEF RelayWork
  <2> HIDE DEF v
  <2>3. QED
    BY <1>2, <2>2
<1> HIDE DEF v
<1>5. volgaWorker' \in [RelayWorkers -> RelayWork] /\ RelayRoom' /\ RelayBatches' = [RelayBatches EXCEPT ![w] = b]
  BY <1>3, <1>4, RelayWorks
<1>6. [RelayBatches EXCEPT ![w] = b] = RelayBatches
  BY DEF RelayBatches
<1>7. RelayShutInv'
  BY <1>1, RelayNow DEF RelayShutInv, NoSender
<1>8. QED
  BY <1>1, <1>5, <1>6, <1>7, RelayNow, RelayOK

\* The batch is posted, given up, or both.
RelayEmpties(w) == PostSucceeds(w) \/ PostFails(w) \/ WorkerReturns(w)

LEMMA RelayEmptiesKeeps == ASSUME RelayInv, NEW w \in RelayWorkers, RelayEmpties(w) PROVE RelayInv'
<1> USE VolgaRelayAssumption
<1> DEFINE m == [user |-> volgaWorker[w].user, packets |-> volgaWorker[w].batch]
<1>1. UNCHANGED <<relaySender, numbered, batchQueue, relayStop, queueClosed, user, peerGot, ownGot>>
  BY DEF RelayEmpties, PostSucceeds, PostFails, WorkerReturns, relaySending, relayStopping
<1>2. volgaWorker[w] \in RelayWork
  BY RelayNow
<1>3. m \in RelayMessage /\ m.packets = RelayBatches[w]
  BY <1>2 DEF RelayWork, RelayMessage, RelayBatches
<1>4. posted' \in {posted, posted \cup {m}}
  BY DEF RelayEmpties, PostSucceeds, PostFails, WorkerReturns
<1>5. PICK at \in {"gathering", "gone"} : volgaWorker' = [volgaWorker EXCEPT ![w].at = at, ![w].batch = <<>>]
  BY DEF RelayEmpties, PostSucceeds, PostFails, WorkerReturns, Worker, BatchAfterFailure, Given
<1> HIDE DEF m
<1>0. PICK none \in Seq(RelayPackets) : none = <<>>
  <2>1. <<>> \in Seq(RelayPackets)
    OBVIOUS
  <2>2. QED
    BY <2>1
<1> DEFINE v == [volgaWorker[w] EXCEPT !.at = at, !.batch = none]
<1>6. volgaWorker' = [volgaWorker EXCEPT ![w] = v]
  <2>1. volgaWorker \in [RelayWorkers -> RelayWork]
    BY RelayNow
  <2>2. volgaWorker' = [volgaWorker EXCEPT ![w].at = at, ![w].batch = none]
    BY <1>0, <1>5
  <2>3. QED
    BY <2>1, <2>2
<1>7. v \in RelayWork /\ v.batch = <<>>
  <2>1. v \in RelayWork /\ v.batch = none
    BY <1>2 DEF RelayWork
  <2>2. QED
    BY <1>0, <2>1
<1>8. Len(<<>>) = 0 /\ 0 < RelayBatch
  OBVIOUS
<1> HIDE DEF v
<1>9. volgaWorker' \in [RelayWorkers -> RelayWork] /\ RelayRoom' /\ RelayBatches' = [RelayBatches EXCEPT ![w] = <<>>]
  <2>1. IF v.at = "gathering" THEN Len(v.batch) < RelayBatch ELSE Len(v.batch) <= RelayBatch
    BY <1>7, <1>8
  <2>2. QED
    BY <1>6, <1>7, <2>1, RelayWorks
<1>10. RelayPlaced(relaySender, batchQueue, RelayBatches', posted', peerGot, numbered)
  <2>1. DOMAIN RelayBatches = RelayWorkers
    BY DEF RelayBatches
  <2>2. QED
    <3>1. RelayPlaced(relaySender, batchQueue, RelayBatches, posted, peerGot, numbered)
      BY RelayNow
    <3>2. /\ RelayPlaced(relaySender, batchQueue, [RelayBatches EXCEPT ![w] = <<>>], posted, peerGot, numbered)
          /\ RelayPlaced(relaySender, batchQueue, [RelayBatches EXCEPT ![w] = <<>>], posted \cup {m}, peerGot, numbered)
      BY <1>3, <2>1, <3>1, RelayPosts
    <3>3. QED
      BY <1>4, <1>9, <3>2
<1>11. posted' \subseteq RelayMessage
  BY <1>3, <1>4, RelayNow
<1>12. RelayShutInv'
  BY <1>1, RelayNow DEF RelayShutInv, NoSender
<1>13. QED
  BY <1>1, <1>9, <1>10, <1>11, <1>12, RelayNow, RelayOK

LEMMA RelayStopKeeps == ASSUME RelayInv, Cancel \/ CloseQueues \/ WaitForWorkers \/ RenewUser PROVE RelayInv'
<1> USE VolgaRelayAssumption
<1>1. UNCHANGED <<relaySender, numbered, batchQueue, volgaWorker, posted, peerGot, ownGot>>
  BY DEF Cancel, CloseQueues, WaitForWorkers, RenewUser, relaySending
<1>2. queueClosed' \in BOOLEAN /\ relayStop' \in {"running", "cancelled", "locked", "returned"} /\ RelayShutInv'
  <2>1. CASE Cancel
    BY <1>1, <2>1, RelayNow DEF Cancel, RelayShutInv, NoSender
  <2>2. CASE CloseQueues
    BY <1>1, <2>2, RelayNow DEF CloseQueues, RelayShutInv, NoSender, MayClose
  <2>3. CASE WaitForWorkers
    BY <1>1, <2>3, RelayNow DEF WaitForWorkers, RelayShutInv, NoSender
  <2>4. CASE RenewUser
    BY <1>1, <2>4, RelayNow DEF RenewUser, RelayShutInv, NoSender, relayStopping
  <2>5. QED
    BY <2>1, <2>2, <2>3, <2>4
<1>3. user' \in Users
  <2>1. CASE RenewUser
    <3>1. user < MaxUsers /\ user' = user + 1 /\ user \in Users
      BY <2>1, RelayNow DEF RenewUser
    <3>2. QED
      BY <3>1 DEF Users
  <2>2. CASE ~RenewUser
    BY <2>2, RelayNow DEF Cancel, CloseQueues, WaitForWorkers
  <2>3. QED
    BY <2>1, <2>2
<1>4. RelayRoom' /\ RelayBatches' = RelayBatches
  BY <1>1, RelayNow, RelayStays, RelayBatchesStay
<1>5. QED
  BY <1>1, <1>2, <1>3, <1>4, RelayNow, RelayOK

LEMMA RelayRelaysKeeps == ASSUME RelayInv, NEW m \in posted, ServerRelays(m) PROVE RelayInv'
<1>1. UNCHANGED <<relaySender, numbered, batchQueue, relayStop, queueClosed, volgaWorker, user>>
  BY DEF ServerRelays, relaySending, relayStopping
<1>2. posted' = posted \ {m} /\ peerGot' = peerGot \o m.packets /\ ownGot' \in {ownGot, ownGot \o m.packets}
  BY DEF ServerRelays
<1>3. m.packets \in Seq(RelayPackets)
  BY RelayNow DEF RelayMessage
<1>4. posted' \subseteq RelayMessage /\ peerGot' \in Seq(RelayPackets) /\ ownGot' \in Seq(RelayPackets)
  <2>1. PICK z \in Seq(RelayPackets) : z = m.packets
    BY <1>3
  <2>2. peerGot \o z \in Seq(RelayPackets) /\ ownGot \o z \in Seq(RelayPackets)
    BY RelayNow
  <2>3. QED
    BY <1>2, <2>1, <2>2, RelayNow
<1>5. RelayPlaced(relaySender, batchQueue, RelayBatches, posted', peerGot', numbered)
  BY <1>2, <1>3, RelayNow, RelayRelays
<1>6. RelayRoom' /\ RelayBatches' = RelayBatches
  BY <1>1, RelayNow, RelayStays, RelayBatchesStay
<1>7. RelayShutInv'
  BY <1>1, RelayNow DEF RelayShutInv, NoSender
<1>8. QED
  BY <1>1, <1>4, <1>5, <1>6, <1>7, RelayNow, RelayOK

LEMMA RelayStay == ASSUME RelayInv, UNCHANGED relayVars PROVE RelayInv'
<1>1. UNCHANGED <<relaySender, numbered, batchQueue, relayStop, queueClosed, volgaWorker, user, posted, peerGot, ownGot>>
  BY DEF relayVars, relaySending, relayStopping
<1>2. RelayRoom' /\ RelayBatches' = RelayBatches
  BY <1>1, RelayNow, RelayStays, RelayBatchesStay
<1>3. RelayShutInv'
  BY <1>1, RelayNow DEF RelayShutInv, NoSender
<1>4. QED
  BY <1>1, <1>2, <1>3, RelayNow, RelayOK

LEMMA RelayKeep == RelayInv /\ [VolgaRelayNext]_relayVars => RelayInv'
BY RelayTakesKeeps, RelayQueuesKeeps, RelayGatherKeeps, RelayFlushKeeps, RelayEmptiesKeeps, RelayStopKeeps,
   RelayRelaysKeeps, RelayStay DEF VolgaRelayNext, RelayEmpties

----------------------------------------------------------------------------
(* The stream of a cups.online room.                                       *)

PiecesFrom(m) == {x \in Pieces : x.from = m}
CupsMessages == {x \in [from : Members, chunk : Seq(Pieces)] : x.chunk \in Seq(PiecesFrom(x.from))}

\* What is on the way of a member's stream, and what the receiver has of it, is that member's.
StreamTypes ==
    /\ cupsSent \in [Members -> 0..MaxCupsPackets] /\ drops \in 0..MaxDrops
    /\ cupsUp \in [Members \cup {Receiver} -> BOOLEAN] /\ garbage \in 0..PacketPieces + 1
    /\ cupsQueue \in [Members -> Seq(1..MaxCupsPackets)] /\ cupsGathered \in [Members -> Seq(1..MaxCupsPackets)]
    /\ cupsBatch \in [Members -> Seq(Pieces)] /\ recvBufs \in [Members -> Seq(Pieces)]

StreamBounds ==
    \A m \in Members : Len(cupsQueue[m]) <= QueuePackets /\ Len(cupsGathered[m]) <= BatchPackets

StreamApart ==
    /\ \A m \in Members : cupsBatch[m] \in Seq(PiecesFrom(m)) /\ recvBufs[m] \in Seq(PiecesFrom(m))
    /\ air \in Seq(CupsMessages)

HandedApart == \A h \in handed : \E m \in Members : h \in Seq(PiecesFrom(m))

StreamInv == StreamTypes /\ StreamBounds /\ StreamApart /\ HandedApart

LEMMA PieceSeqs == ASSUME NEW m \in Members, NEW q \in Seq(PiecesFrom(m)) PROVE q \in Seq(Pieces) /\ ToSet(q) \subseteq Pieces
<1>1. q \in Seq(Pieces)
  BY DEF PiecesFrom
<1>2. QED
  BY <1>1, InSequence

LEMMA StreamShow == StreamInv => StreamTypeOK /\ MembersApart
<1> SUFFICES ASSUME StreamInv PROVE StreamTypeOK /\ MembersApart
  OBVIOUS
<1>1. \A m \in Members :
         /\ ToSet(cupsQueue[m]) \subseteq 1..MaxCupsPackets /\ Len(cupsQueue[m]) <= QueuePackets
         /\ ToSet(cupsGathered[m]) \subseteq 1..MaxCupsPackets /\ Len(cupsGathered[m]) <= BatchPackets
         /\ ToSet(cupsBatch[m]) \subseteq Pieces /\ ToSet(recvBufs[m]) \subseteq Pieces
  <2> SUFFICES ASSUME NEW m \in Members
               PROVE  /\ ToSet(cupsQueue[m]) \subseteq 1..MaxCupsPackets /\ Len(cupsQueue[m]) <= QueuePackets
                      /\ ToSet(cupsGathered[m]) \subseteq 1..MaxCupsPackets /\ Len(cupsGathered[m]) <= BatchPackets
                      /\ ToSet(cupsBatch[m]) \subseteq Pieces /\ ToSet(recvBufs[m]) \subseteq Pieces
    OBVIOUS
  <2>1. cupsQueue[m] \in Seq(1..MaxCupsPackets) /\ cupsGathered[m] \in Seq(1..MaxCupsPackets)
        /\ cupsBatch[m] \in Seq(Pieces) /\ recvBufs[m] \in Seq(Pieces)
    BY DEF StreamInv, StreamTypes
  <2>2. Len(cupsQueue[m]) <= QueuePackets /\ Len(cupsGathered[m]) <= BatchPackets
    BY DEF StreamInv, StreamBounds
  <2>3. QED
    BY <2>1, <2>2, InSequence
<1>2. \A h \in handed : ToSet(h) \subseteq Pieces
  BY PieceSeqs DEF StreamInv, HandedApart
<1>3. MembersApart
  <2> SUFFICES ASSUME NEW h \in handed, NEW i \in DOMAIN h, NEW j \in DOMAIN h PROVE h[i].from = h[j].from
    BY DEF MembersApart
  <2>1. PICK m \in Members : h \in Seq(PiecesFrom(m))
    BY DEF StreamInv, HandedApart
  <2>2. h[i] \in PiecesFrom(m) /\ h[j] \in PiecesFrom(m)
    BY <2>1
  <2>3. QED
    BY <2>2 DEF PiecesFrom
<1>4. QED
  BY <1>1, <1>2, <1>3 DEF StreamTypeOK, StreamInv, StreamTypes

LEMMA StreamStarts == StreamInit => StreamInv
<1> SUFFICES ASSUME StreamInit PROVE StreamInv
  OBVIOUS
<1> USE StreamAssumption
<1>1. <<>> \in Seq(1..MaxCupsPackets) /\ <<>> \in Seq(Pieces) /\ Len(<<>>) = 0 /\ \A S : <<>> \in Seq(S)
  OBVIOUS
<1>2. 0 \in 0..MaxCupsPackets /\ 0 \in 0..MaxDrops /\ 0 <= QueuePackets /\ 0 <= BatchPackets
  OBVIOUS
<1>3. StreamTypes
  BY <1>1, <1>2 DEF StreamInit, StreamTypes
<1>4. StreamBounds
  BY <1>1, <1>2 DEF StreamInit, StreamBounds
<1>5. StreamApart /\ HandedApart
  BY <1>1 DEF StreamInit, StreamApart, HandedApart
<1>6. QED
  BY <1>3, <1>4, <1>5 DEF StreamInv

LEMMA StreamNow ==
  ASSUME StreamInv
  PROVE  /\ cupsSent \in [Members -> 0..MaxCupsPackets] /\ drops \in 0..MaxDrops
         /\ cupsUp \in [Members \cup {Receiver} -> BOOLEAN] /\ garbage \in 0..PacketPieces + 1
         /\ cupsQueue \in [Members -> Seq(1..MaxCupsPackets)] /\ cupsGathered \in [Members -> Seq(1..MaxCupsPackets)]
         /\ cupsBatch \in [Members -> Seq(Pieces)] /\ recvBufs \in [Members -> Seq(Pieces)]
         /\ StreamBounds /\ StreamApart /\ HandedApart
  BY DEF StreamInv, StreamTypes

LEMMA StreamOK ==
  ASSUME cupsSent' \in [Members -> 0..MaxCupsPackets], drops' \in 0..MaxDrops,
         cupsUp' \in [Members \cup {Receiver} -> BOOLEAN], garbage' \in 0..PacketPieces + 1,
         cupsQueue' \in [Members -> Seq(1..MaxCupsPackets)], cupsGathered' \in [Members -> Seq(1..MaxCupsPackets)],
         cupsBatch' \in [Members -> Seq(Pieces)], recvBufs' \in [Members -> Seq(Pieces)],
         StreamBounds', StreamApart', HandedApart'
  PROVE  StreamInv'
  BY DEF StreamInv, StreamTypes

LEMMA CupsSendKeeps == ASSUME StreamInv, NEW m \in Members, CupsSend(m) PROVE StreamInv'
<1> USE StreamAssumption
<1>1. UNCHANGED <<cupsGathered, cupsBatch, cupsUp, air, recvBufs, handed, garbage, drops>>
  BY DEF CupsSend, cupsReceiver
<1>2. cupsSent[m] < MaxCupsPackets /\ cupsSent[m] \in 0..MaxCupsPackets /\ cupsSent' = [cupsSent EXCEPT ![m] = @ + 1]
  BY StreamNow DEF CupsSend
<1>3. cupsSent' \in [Members -> 0..MaxCupsPackets] /\ cupsSent[m] + 1 \in 1..MaxCupsPackets
  BY <1>2, StreamNow
<1>4. PICK q \in Seq(1..MaxCupsPackets) : q = Append(cupsQueue[m], cupsSent[m] + 1) /\ Len(q) <= QueuePackets
  <2>1. cupsQueue[m] \in Seq(1..MaxCupsPackets) /\ Len(cupsQueue[m]) < QueuePackets
    BY StreamNow DEF CupsSend, CanSend
  <2>2. /\ Append(cupsQueue[m], cupsSent[m] + 1) \in Seq(1..MaxCupsPackets)
        /\ Len(Append(cupsQueue[m], cupsSent[m] + 1)) = Len(cupsQueue[m]) + 1 /\ Len(cupsQueue[m]) \in Nat
    BY <1>3, <2>1
  <2>3. QueuePackets \in Nat
    OBVIOUS
  <2>4. Len(Append(cupsQueue[m], cupsSent[m] + 1)) <= QueuePackets
    BY <2>1, <2>2, <2>3
  <2>5. QED
    BY <2>2, <2>4
<1>5. cupsQueue' \in [Members -> Seq(1..MaxCupsPackets)] /\ \A k \in Members : cupsQueue'[k] = IF k = m THEN q ELSE cupsQueue[k]
  BY <1>4, StreamNow DEF CupsSend
<1>6. StreamBounds'
  BY <1>1, <1>4, <1>5, StreamNow DEF StreamBounds
<1>7. StreamApart' /\ HandedApart'
  BY <1>1, StreamNow DEF StreamApart, HandedApart
<1>8. QED
  BY <1>1, <1>3, <1>5, <1>6, <1>7, StreamNow, StreamOK

LEMMA CupsGatherKeeps == ASSUME StreamInv, NEW m \in Members, CupsGather(m) PROVE StreamInv'
<1> USE StreamAssumption
<1>1. UNCHANGED <<cupsSent, cupsBatch, cupsUp, air, recvBufs, handed, garbage, drops>>
  BY DEF CupsGather, cupsReceiver
<1>2. cupsQueue[m] \in Seq(1..MaxCupsPackets) /\ cupsQueue[m] # <<>> /\ cupsGathered[m] \in Seq(1..MaxCupsPackets)
      /\ Len(cupsGathered[m]) < BatchPackets /\ Len(cupsQueue[m]) <= QueuePackets
  BY StreamNow DEF CupsGather, StreamBounds
<1>3. PICK h \in 1..MaxCupsPackets : h = Head(cupsQueue[m])
  BY <1>2
<1>4. PICK t \in Seq(1..MaxCupsPackets) : t = Tail(cupsQueue[m]) /\ Len(t) <= QueuePackets
  <2>1. /\ Tail(cupsQueue[m]) \in Seq(1..MaxCupsPackets) /\ Len(Tail(cupsQueue[m])) = Len(cupsQueue[m]) - 1
        /\ Len(cupsQueue[m]) \in Nat
    BY <1>2, FirstElement
  <2>2. QueuePackets \in Nat
    OBVIOUS
  <2>3. Len(Tail(cupsQueue[m])) <= QueuePackets
    BY <1>2, <2>1, <2>2
  <2>4. QED
    BY <2>1, <2>3
<1>5. PICK g \in Seq(1..MaxCupsPackets) : g = Append(cupsGathered[m], h) /\ Len(g) <= BatchPackets
  <2>1. /\ Append(cupsGathered[m], h) \in Seq(1..MaxCupsPackets)
        /\ Len(Append(cupsGathered[m], h)) = Len(cupsGathered[m]) + 1 /\ Len(cupsGathered[m]) \in Nat
    BY <1>2
  <2>2. BatchPackets \in Nat
    OBVIOUS
  <2>3. Len(Append(cupsGathered[m], h)) <= BatchPackets
    BY <1>2, <2>1, <2>2
  <2>4. QED
    BY <2>1, <2>3
<1>6. cupsQueue' \in [Members -> Seq(1..MaxCupsPackets)] /\ \A k \in Members : cupsQueue'[k] = IF k = m THEN t ELSE cupsQueue[k]
  BY <1>4, StreamNow DEF CupsGather
<1>7. /\ cupsGathered' \in [Members -> Seq(1..MaxCupsPackets)]
      /\ \A k \in Members : cupsGathered'[k] = IF k = m THEN g ELSE cupsGathered[k]
  BY <1>3, <1>5, StreamNow DEF CupsGather
<1>8. StreamBounds'
  BY <1>4, <1>5, <1>6, <1>7, StreamNow DEF StreamBounds
<1>9. StreamApart' /\ HandedApart'
  BY <1>1, StreamNow DEF StreamApart, HandedApart
<1>10. QED
  BY <1>1, <1>6, <1>7, <1>8, <1>9, StreamNow, StreamOK

\* The batch of a member becomes another.
LEMMA CupsBatchMoves ==
  ASSUME StreamInv, NEW m \in Members, NEW b \in Seq(PiecesFrom(m)), cupsBatch' = [cupsBatch EXCEPT ![m] = b]
  PROVE  cupsBatch' \in [Members -> Seq(Pieces)] /\ \A k \in Members : cupsBatch'[k] \in Seq(PiecesFrom(k))
<1>1. b \in Seq(Pieces)
  BY PieceSeqs
<1>2. cupsBatch' \in [Members -> Seq(Pieces)] /\ \A k \in Members : cupsBatch'[k] = IF k = m THEN b ELSE cupsBatch[k]
  BY <1>1, StreamNow
<1>3. QED
  BY <1>2, StreamNow DEF StreamApart

LEMMA BatchOfMember ==
  ASSUME NEW m \in Members, NEW g \in Seq(1..MaxCupsPackets)
  PROVE  FlattenSeq([i \in DOMAIN g |-> PiecesOf(m, g[i])]) \in Seq(PiecesFrom(m))
<1> DEFINE s == [i \in DOMAIN g |-> PiecesOf(m, g[i])]
<1> USE StreamAssumption
<1>1. \A p \in 1..MaxCupsPackets : PiecesOf(m, p) \in Seq(PiecesFrom(m))
  <2> SUFFICES ASSUME NEW p \in 1..MaxCupsPackets PROVE PiecesOf(m, p) \in Seq(PiecesFrom(m))
    OBVIOUS
  <2>1. \A i \in 1..PacketPieces : [from |-> m, packet |-> p, part |-> i] \in PiecesFrom(m)
    BY DEF PiecesFrom, Pieces
  <2>2. PiecesOf(m, p) \in [1..PacketPieces -> PiecesFrom(m)]
    BY <2>1 DEF PiecesOf
  <2>3. PacketPieces \in Nat
    OBVIOUS
  <2>4. QED
    BY <2>2, <2>3
<1>2. DOMAIN g = 1..Len(g) /\ Len(g) \in Nat /\ \A i \in 1..Len(g) : g[i] \in 1..MaxCupsPackets
  OBVIOUS
<1>3. s \in [1..Len(g) -> Seq(PiecesFrom(m))]
  BY <1>1, <1>2
<1> HIDE DEF s
<1>4. s \in Seq(Seq(PiecesFrom(m)))
  BY <1>2, <1>3, FunctionIsSeq
<1>5. FlattenSeq(s) \in Seq(PiecesFrom(m))
  BY <1>4, FlattenType
<1>6. QED
  BY <1>5 DEF s

LEMMA CupsFlushKeeps == ASSUME StreamInv, NEW m \in Members, CupsFlush(m) PROVE StreamInv'
<1> USE StreamAssumption
<1>1. UNCHANGED <<cupsSent, cupsQueue, cupsUp, air, recvBufs, handed, garbage, drops>>
  BY DEF CupsFlush, cupsReceiver
<1> DEFINE b == IF cupsUp[m] THEN FlattenSeq([i \in DOMAIN cupsGathered[m] |-> PiecesOf(m, cupsGathered[m][i])]) ELSE <<>>
<1>2. b \in Seq(PiecesFrom(m))
  <2>1. cupsGathered[m] \in Seq(1..MaxCupsPackets)
    BY StreamNow
  <2>2. FlattenSeq([i \in DOMAIN cupsGathered[m] |-> PiecesOf(m, cupsGathered[m][i])]) \in Seq(PiecesFrom(m))
    BY <2>1, BatchOfMember
  <2>3. QED
    BY <2>2
<1>3. cupsBatch' = [cupsBatch EXCEPT ![m] = b]
  BY DEF CupsFlush
<1> HIDE DEF b
<1>4. cupsBatch' \in [Members -> Seq(Pieces)] /\ \A k \in Members : cupsBatch'[k] \in Seq(PiecesFrom(k))
  BY <1>2, <1>3, CupsBatchMoves
<1>5. PICK none \in Seq(1..MaxCupsPackets) : none = <<>> /\ Len(none) = 0
  <2>1. <<>> \in Seq(1..MaxCupsPackets) /\ Len(<<>>) = 0
    OBVIOUS
  <2>2. QED
    BY <2>1
<1>6. /\ cupsGathered' \in [Members -> Seq(1..MaxCupsPackets)]
      /\ \A k \in Members : cupsGathered'[k] = IF k = m THEN none ELSE cupsGathered[k]
  <2>1. cupsGathered' = [cupsGathered EXCEPT ![m] = none]
    BY <1>5 DEF CupsFlush
  <2>2. QED
    BY <2>1, StreamNow
<1>7. StreamBounds'
  <2>1. 0 <= BatchPackets
    OBVIOUS
  <2>2. QED
    BY <1>1, <1>5, <1>6, <2>1, StreamNow DEF StreamBounds
<1>8. StreamApart' /\ HandedApart'
  BY <1>1, <1>4, StreamNow DEF StreamApart, HandedApart
<1>9. QED
  BY <1>1, <1>4, <1>6, <1>7, <1>8, StreamNow, StreamOK

LEMMA ChunkKeeps == ASSUME StreamInv, NEW m \in Members, SendChunk(m) \/ ChunkFails(m) PROVE StreamInv'
<1> USE StreamAssumption
<1>1. UNCHANGED <<cupsSent, cupsQueue, cupsGathered, cupsUp, recvBufs, handed, garbage, drops>>
  BY DEF SendChunk, ChunkFails, cupsReceiver
<1>2. cupsBatch[m] \in Seq(PiecesFrom(m))
  BY StreamNow DEF StreamApart
<1>3. FirstPieces(m) \in 0..Len(cupsBatch[m])
  BY <1>2 DEF FirstPieces
<1>4. /\ SubSeq(cupsBatch[m], 1, FirstPieces(m)) \in Seq(PiecesFrom(m))
      /\ SubSeq(cupsBatch[m], FirstPieces(m) + 1, Len(cupsBatch[m])) \in Seq(PiecesFrom(m))
  BY <1>2, <1>3, Cut
<1>5. PICK b \in Seq(PiecesFrom(m)) : cupsBatch' = [cupsBatch EXCEPT ![m] = b]
  <2>1. CASE SendChunk(m)
    BY <1>4, <2>1 DEF SendChunk
  <2>2. CASE ChunkFails(m)
    <3>1. <<>> \in Seq(PiecesFrom(m))
      OBVIOUS
    <3>2. QED
      BY <2>2, <3>1 DEF ChunkFails
  <2>3. QED
    BY <2>1, <2>2
<1>6. cupsBatch' \in [Members -> Seq(Pieces)] /\ \A k \in Members : cupsBatch'[k] \in Seq(PiecesFrom(k))
  BY <1>5, CupsBatchMoves
<1>7. air' \in Seq(CupsMessages)
  <2>1. CASE SendChunk(m)
    <3>1. PICK c \in Seq(PiecesFrom(m)) : c = SubSeq(cupsBatch[m], 1, FirstPieces(m))
      BY <1>4
    <3>2. air' = Append(air, [from |-> m, chunk |-> c])
      BY <2>1, <3>1 DEF SendChunk
    <3>3. c \in Seq(Pieces)
      BY PieceSeqs
    <3>4. [from |-> m, chunk |-> c] \in CupsMessages
      BY <3>3 DEF CupsMessages
    <3>5. PICK x \in CupsMessages : x = [from |-> m, chunk |-> c]
      BY <3>4
    <3>6. QED
      BY <3>2, <3>5, StreamNow DEF StreamApart
  <2>2. CASE ChunkFails(m)
    BY <2>2, StreamNow DEF ChunkFails, StreamApart
  <2>3. QED
    BY <2>1, <2>2
<1>8. StreamBounds'
  BY <1>1, StreamNow DEF StreamBounds
<1>9. StreamApart' /\ HandedApart'
  BY <1>1, <1>6, <1>7, StreamNow DEF StreamApart, HandedApart
<1>10. QED
  BY <1>1, <1>6, <1>8, <1>9, StreamNow, StreamOK

\* What the receiver has of one member becomes other pieces of that member.
LEMMA RecvMoves ==
  ASSUME StreamInv, NEW m \in Members, NEW b \in Seq(PiecesFrom(m)), recvBufs' = [recvBufs EXCEPT ![m] = b]
  PROVE  recvBufs' \in [Members -> Seq(Pieces)] /\ \A k \in Members : recvBufs'[k] \in Seq(PiecesFrom(k))
<1>1. b \in Seq(Pieces)
  BY PieceSeqs
<1>2. recvBufs' \in [Members -> Seq(Pieces)] /\ \A k \in Members : recvBufs'[k] = IF k = m THEN b ELSE recvBufs[k]
  BY <1>1, StreamNow
<1>3. QED
  BY <1>2, StreamNow DEF StreamApart

LEMMA CupsLinksKeep ==
  ASSUME StreamInv, NEW m \in Members \cup {Receiver}, CupsDrops(m) \/ CupsReconnects(m)
  PROVE  StreamInv'
<1> USE StreamAssumption
<1>1. UNCHANGED <<cupsSent, cupsQueue, cupsGathered, cupsBatch, air, handed, garbage>>
  BY DEF CupsDrops, CupsReconnects, cupsSender, cupsReceiver
<1>2. drops' \in 0..MaxDrops /\ cupsUp' \in [Members \cup {Receiver} -> BOOLEAN]
  <2>1. CASE CupsDrops(m)
    <3>1. drops < MaxDrops /\ drops' = drops + 1 /\ drops \in 0..MaxDrops
      BY <2>1, StreamNow DEF CupsDrops
    <3>2. QED
      BY <2>1, <3>1, StreamNow DEF CupsDrops
  <2>2. CASE CupsReconnects(m)
    BY <2>2, StreamNow DEF CupsReconnects
  <2>3. QED
    BY <2>1, <2>2
<1>3. recvBufs' \in [Members -> Seq(Pieces)] /\ \A k \in Members : recvBufs'[k] \in Seq(PiecesFrom(k))
  <2>1. CASE recvBufs' = recvBufs
    BY <2>1, StreamNow DEF StreamApart
  <2>2. CASE recvBufs' = [s \in Members |-> <<>>]
    BY <2>2
  <2>3. QED
    BY <2>1, <2>2 DEF CupsDrops, CupsReconnects, cupsReceiver
<1>4. StreamBounds' /\ StreamApart' /\ HandedApart'
  BY <1>1, <1>3, StreamNow DEF StreamBounds, StreamApart, HandedApart
<1>5. QED
  BY <1>1, <1>2, <1>3, <1>4, StreamNow, StreamOK

LEMMA CupsRelayKeeps == ASSUME StreamInv, CupsRelay PROVE StreamInv'
<1>1. UNCHANGED <<cupsSent, cupsQueue, cupsGathered, cupsBatch, cupsUp, handed, garbage, drops>>
  BY DEF CupsRelay, cupsSender
<1>2. air \in Seq(CupsMessages) /\ air # <<>> /\ air' = Tail(air)
  BY StreamNow DEF CupsRelay, StreamApart
<1>3. Head(air) \in CupsMessages /\ air' \in Seq(CupsMessages)
  BY <1>2
<1>4. Head(air).from \in Members /\ Head(air).chunk \in Seq(PiecesFrom(Head(air).from))
  BY <1>3 DEF CupsMessages
<1> DEFINE m == Head(air).from
<1>5. recvBufs' \in [Members -> Seq(Pieces)] /\ \A k \in Members : recvBufs'[k] \in Seq(PiecesFrom(k))
  <2>1. CASE recvBufs' = recvBufs
    BY <2>1, StreamNow DEF StreamApart
  <2>2. CASE recvBufs' # recvBufs
    <3>1. PICK c \in Seq(PiecesFrom(m)) : c = Head(air).chunk
      BY <1>4
    <3>2. recvBufs[m] \in Seq(PiecesFrom(m))
      BY <1>4, StreamNow DEF StreamApart
    <3>3. recvBufs[m] \o c \in Seq(PiecesFrom(m))
      BY <3>2
    <3>4. PICK b \in Seq(PiecesFrom(m)) : b = recvBufs[m] \o c
      BY <3>3
    <3>5. recvBufs' = [recvBufs EXCEPT ![m] = b]
      BY <2>2, <3>1, <3>4 DEF CupsRelay, BufferOf
    <3> HIDE DEF m
    <3>6. m \in Members
      BY <1>4 DEF m
    <3>7. QED
      BY <3>5, <3>6, RecvMoves
  <2>3. QED
    BY <2>1, <2>2
<1>6. StreamBounds' /\ StreamApart' /\ HandedApart'
  BY <1>1, <1>3, <1>5, StreamNow DEF StreamBounds, StreamApart, HandedApart
<1>7. QED
  BY <1>1, <1>5, <1>6, StreamNow, StreamOK

LEMMA CupsDeliverKeeps == ASSUME StreamInv, NEW m \in Members, CupsDeliver(m) PROVE StreamInv'
<1> USE StreamAssumption
<1> DEFINE buf == recvBufs[m]
           n == LengthIn(buf)
<1>1. UNCHANGED <<cupsSent, cupsQueue, cupsGathered, cupsBatch, cupsUp, air, garbage, drops>>
  BY DEF CupsDeliver, cupsSender
<1>2. buf \in Seq(PiecesFrom(m))
  BY StreamNow DEF StreamApart
<1>3. n \in 0..Len(buf)
  <2>1. n \in Nat /\ n <= Len(buf)
    BY StreamNow DEF CupsDeliver, Yields, LengthIn
  <2>2. QED
    BY <1>2, <2>1
<1>4. SubSeq(buf, 1, n) \in Seq(PiecesFrom(m)) /\ SubSeq(buf, n + 1, Len(buf)) \in Seq(PiecesFrom(m))
  <2> HIDE DEF buf, n
  <2>1. QED
    BY <1>2, <1>3, Cut
<1>5. \/ recvBufs' = [recvBufs EXCEPT ![m] = <<>>] /\ handed' = handed
      \/ recvBufs' = [recvBufs EXCEPT ![m] = SubSeq(buf, n + 1, Len(buf))] /\ handed' = handed \cup {SubSeq(buf, 1, n)}
  BY DEF CupsDeliver
<1> HIDE DEF buf, n
<1>6. PICK b \in Seq(PiecesFrom(m)) : recvBufs' = [recvBufs EXCEPT ![m] = b]
  <2>1. <<>> \in Seq(PiecesFrom(m))
    OBVIOUS
  <2>2. QED
    BY <1>4, <1>5, <2>1
<1>7. recvBufs' \in [Members -> Seq(Pieces)] /\ \A k \in Members : recvBufs'[k] \in Seq(PiecesFrom(k))
  BY <1>6, RecvMoves
<1>8. HandedApart'
  <2>1. \A h \in handed' : h \in handed \/ h \in Seq(PiecesFrom(m))
    BY <1>4, <1>5
  <2>2. QED
    BY <2>1, StreamNow DEF HandedApart
<1>9. StreamBounds' /\ StreamApart'
  BY <1>1, <1>7, StreamNow DEF StreamBounds, StreamApart
<1>10. QED
  BY <1>1, <1>7, <1>8, <1>9, StreamNow, StreamOK

LEMMA StreamStay == ASSUME StreamInv, UNCHANGED streamVars PROVE StreamInv'
<1>1. UNCHANGED <<cupsSent, cupsQueue, cupsGathered, cupsBatch, cupsUp, air, recvBufs, handed, garbage, drops>>
  BY DEF streamVars, cupsSender, cupsReceiver
<1>2. StreamBounds' /\ StreamApart' /\ HandedApart'
  BY <1>1, StreamNow DEF StreamBounds, StreamApart, HandedApart
<1>3. QED
  BY <1>1, <1>2, StreamNow, StreamOK

LEMMA StreamKeep == StreamInv /\ [StreamNext]_streamVars => StreamInv'
BY CupsSendKeeps, CupsGatherKeeps, CupsFlushKeeps, ChunkKeeps, CupsLinksKeep, CupsRelayKeeps, CupsDeliverKeeps,
   StreamStay DEF StreamNext

----------------------------------------------------------------------------
(* The carriers side by side.                                              *)

\* What each carrier is held to goes on while another one moves.
CarriersInv ==
    /\ DocsInv /\ VolgaInv /\ RelayInv /\ BoardsInv /\ MailInv /\ MtsInv /\ StreamInv /\ OneMeInv /\ FrameTypes

LEMMA CarriersStart == CarriersInit => CarriersInv
BY DocsStarts, VolgaStarts, RelayStarts, BoardsStarts, MailStarts, MtsStarts, StreamStarts, OneMeStarts, FramesStart
   DEF CarriersInit, CarriersInv

\* A carrier that was stopped is not started again.
LEMMA NotStartedAgain == DocsNext \/ BoardsNext \/ MtsNext => running' = running \/ running' = FALSE
<1>1. DocsNext => running' = running \/ running' = FALSE
  <2>1. CASE TakeSlot \/ Challenge \/ FetchOk \/ MergeCookies \/ FetchFails \/ FetchBlocked
    BY <2>1 DEF TakeSlot, Challenge, FetchOk, MergeCookies, FetchFails, FetchBlocked, flags
  <2>2. CASE DialOk \/ DialFails \/ CheckRunning \/ Publish \/ AuthOk \/ AuthFails
    BY <2>2 DEF DialOk, DialFails, CheckRunning, Publish, AuthOk, AuthFails, flags
  <2>3. CASE ReadFails \/ LeaveReadLoop \/ EmitRetrying \/ Arm \/ WaitEnds(TRUE) \/ WaitEnds(FALSE)
    BY <2>3 DEF ReadFails, LeaveReadLoop, EmitRetrying, Arm, WaitEnds, flags
  <2>4. ASSUME NEW f \in Forcers, ForceReconnect(f) \/ ForceBegins(f) \/ ForceEnds(f) \/ Push(f) \/ DecideCut(f)
        PROVE  running' = running
    BY <2>4 DEF ForceReconnect, ForceBegins, ForceEnds, Push, ProvideCookies, DecideCut, flags
  <2>5. CASE WriteFails \/ KeepaliveFails \/ KeepaliveGivesUp \/ StopFlags \/ StopCloses
    BY <2>5 DEF WriteFails, KeepaliveFails, KeepaliveGivesUp, StopFlags, StopCloses, Stopped, flags
  <2>6. QED
    BY <2>1, <2>2, <2>3, <2>4, <2>5 DEF DocsNext
<1>2. BoardsNext => running' = running \/ running' = FALSE
  <2>1. CASE BoardsTries \/ BoardsServes \/ BoardsArm \/ BoardsWaitEnds
    BY <2>1 DEF BoardsTries, BoardsSlot, BoardsChallenge, BoardsPage, BoardsBlocked, BoardsToken, BoardsAttemptFails,
       BoardsRetrying, BoardsServes, BoardsDial, BoardsHandshakeFails, BoardsHandshake, BoardsServeEnds,
       BoardsWriteFails, BoardsWriterEnds, BoardsArm, BoardsWaitEnds
  <2>2. ASSUME NEW f \in BoardsForcers, BoardsPush(f) \/ BoardsForce(f) \/ BoardsCloseWake(f)
        PROVE  running' = running
    BY <2>2 DEF BoardsPush, BoardsForce, BoardsCloseWake
  <2>3. CASE BoardsStop \/ BoardsStopCloses \/ BoardsStopFlags
    BY <2>3 DEF BoardsStop, BoardsStopCloses, BoardsStopFlags, Stopped
  <2>4. QED
    BY <2>1, <2>2, <2>3 DEF BoardsNext, BoardsTries, BoardsServes
<1>3. MtsNext => running' = running \/ running' = FALSE
  <2>1. CASE MtsTries
    BY <2>1 DEF MtsTries, MtsSlot, MtsGuest, MtsDial, MtsServerFails, MtsBetween, MtsConnected, MtsServeEnds, MtsRetrying,
       MtsGoes
  <2>2. CASE MtsArm \/ MtsWaitEnds \/ MtsSend \/ MtsTake \/ MtsGather \/ MtsFlush \/ MtsWrites \/ MtsWriteFails \/ MtsWriterEnds
    BY <2>2 DEF MtsArm, MtsWaitEnds, MtsSend, MtsTake, MtsGather, MtsFlush, MtsWrites, MtsWriteFails, MtsWriterEnds,
       MtsGoes, MtsSends
  <2>3. ASSUME NEW f \in MtsForcers, MtsCall(f) \/ MtsPingFails(f) \/ MtsForce(f) \/ MtsCloseWake(f)
        PROVE  running' = running
    BY <2>3 DEF MtsCall, MtsPingFails, MtsForce, MtsCloseWake
  <2>4. CASE MtsStop
    BY <2>4 DEF MtsStop, Stopped
  <2>5. QED
    BY <2>1, <2>2, <2>3, <2>4 DEF MtsNext, MtsTries, MtsForcers
<1>4. QED
  BY <1>1, <1>2, <1>3

\* What a step of the composition leaves alone, by the carrier it is about.
LEMMA OthersStay ==
  ASSUME CarriersNext
  PROVE  /\ carrier' = carrier
         /\ carrier \notin {"docs", "boards", "mailru", "mts"} => UNCHANGED baseVars
         /\ IF carrier = "docs" THEN DocsNext ELSE UNCHANGED docsOwn
         /\ IF carrier = "volga" THEN VolgaNext ELSE UNCHANGED volgaVars
         /\ IF carrier = "relay" THEN VolgaRelayNext ELSE UNCHANGED relayVars
         /\ IF carrier = "boards" THEN BoardsNext ELSE UNCHANGED boardsOwn
         /\ IF carrier = "mailru" THEN MailruNext ELSE UNCHANGED mailOwn
         /\ IF carrier = "mts" THEN MtsNext ELSE UNCHANGED mtsOwn
         /\ IF carrier = "stream" THEN StreamNext ELSE UNCHANGED streamVars
         /\ IF carrier = "oneme" THEN OneMeNext ELSE UNCHANGED oneMeVars
         /\ IF carrier = "frames" THEN TmFramesNext ELSE UNCHANGED tmFrameVars
<1>1. /\ carrier' = carrier
      /\ carrier \notin {"docs", "boards", "mailru", "mts"} => UNCHANGED baseVars
      /\ carrier # "docs" => UNCHANGED docsOwn
      /\ carrier # "volga" => UNCHANGED volgaVars
      /\ carrier # "relay" => UNCHANGED relayVars
      /\ carrier # "boards" => UNCHANGED boardsOwn
      /\ carrier # "mailru" => UNCHANGED mailOwn
      /\ carrier # "mts" => UNCHANGED mtsOwn
      /\ carrier # "stream" => UNCHANGED streamVars
      /\ carrier # "oneme" => UNCHANGED oneMeVars
      /\ carrier # "frames" => UNCHANGED tmFrameVars
  BY DEF CarriersNext, Stays
<1>2. /\ carrier = "docs" => DocsNext
      /\ carrier = "volga" => VolgaNext
      /\ carrier = "relay" => VolgaRelayNext
      /\ carrier = "boards" => BoardsNext
      /\ carrier = "mailru" => MailruNext
      /\ carrier = "mts" => MtsNext
      /\ carrier = "stream" => StreamNext
      /\ carrier = "oneme" => OneMeNext
      /\ carrier = "frames" => TmFramesNext
  BY DEF CarriersNext
<1>3. QED
  BY <1>1, <1>2

LEMMA CarriersGo == ASSUME CarriersInv, CarriersNext PROVE CarriersInv'
<1>1. /\ DocsInv /\ VolgaInv /\ RelayInv /\ BoardsInv /\ MailInv /\ MtsInv /\ StreamInv /\ OneMeInv /\ FrameTypes
  BY DEF CarriersInv
<1>2. VolgaInv' /\ RelayInv' /\ StreamInv' /\ OneMeInv' /\ FrameTypes'
  <2>1. [VolgaNext]_volgaVars /\ [VolgaRelayNext]_relayVars /\ [StreamNext]_streamVars /\ [OneMeNext]_oneMeVars
        /\ [TmFramesNext]_tmFrameVars
    BY OthersStay
  <2>2. VolgaInv' /\ RelayInv'
    BY <1>1, <2>1, VolgaKeep, RelayKeep
  <2>3. StreamInv' /\ OneMeInv' /\ FrameTypes'
    BY <1>1, <2>1, StreamKeep, OneMeKeep, FramesKeep
  <2>4. QED
    BY <2>2, <2>3
<1>3. /\ carrier = "docs" => DocsInv'
      /\ carrier = "boards" => BoardsInv'
      /\ carrier = "mailru" => MailInv'
      /\ carrier = "mts" => MtsInv'
  BY <1>1, OthersStay, DocsKeep, BoardsKeep, MailKeep, MtsKeep
<1>4. FlagsOK'
  <2>1. CASE carrier \in {"docs", "boards", "mailru", "mts"}
    <3>1. DocsInv' \/ BoardsInv' \/ MailInv' \/ MtsInv'
      BY <1>3, <2>1
    <3>2. QED
      BY <3>1 DEF DocsInv, DocsTypeOK, BoardsInv, MailInv, MtsInv
  <2>2. CASE carrier \notin {"docs", "boards", "mailru", "mts"}
    <3>1. running' = running /\ connected' = connected
      BY <2>2, OthersStay DEF baseVars
    <3>2. QED
      BY <1>1, <3>1 DEF DocsInv, DocsTypeOK, FlagsOK
  <2>3. QED
    BY <2>1, <2>2
<1>5. carrier # "mailru" => (running' => running)
  <2>1. CASE carrier \in {"docs", "boards", "mts"}
    <3>1. DocsNext \/ BoardsNext \/ MtsNext
      BY <2>1, OthersStay
    <3>2. QED
      BY <3>1, NotStartedAgain
  <2>2. CASE carrier \notin {"docs", "boards", "mailru", "mts"}
    BY <2>2, OthersStay DEF baseVars
  <2>3. QED
    BY <2>1, <2>2
<1>6. /\ carrier # "docs" => DocsInv'
      /\ carrier # "boards" => BoardsInv'
      /\ carrier # "mailru" => MailInv'
      /\ carrier # "mts" => MtsInv'
  <2>1. carrier # "docs" => DocsInv'
    BY <1>1, <1>4, OthersStay, DocsStay
  <2>2. carrier # "boards" => BoardsInv'
    BY <1>1, <1>4, OthersStay, BoardsStay
  <2>3. carrier # "mailru" => MailInv'
    BY <1>1, <1>4, <1>5, OthersStay, MailStay
  <2>4. carrier # "mts" => MtsInv'
    BY <1>1, <1>4, OthersStay, MtsStay
  <2>5. QED
    BY <2>1, <2>2, <2>3, <2>4
<1>7. QED
  BY <1>2, <1>3, <1>6 DEF CarriersInv

LEMMA CarriersKeep == CarriersInv /\ [CarriersNext]_carriersVars => CarriersInv'
<1> SUFFICES ASSUME CarriersInv, [CarriersNext]_carriersVars PROVE CarriersInv'
  OBVIOUS
<1>1. CASE CarriersNext
  BY <1>1, CarriersGo
<1>2. CASE UNCHANGED carriersVars
  <2>1. /\ DocsInv /\ VolgaInv /\ RelayInv /\ BoardsInv /\ MailInv /\ MtsInv /\ StreamInv /\ OneMeInv /\ FrameTypes
    BY DEF CarriersInv
  <2>2. UNCHANGED <<carrier, baseVars, docsOwn, volgaVars, relayVars, boardsOwn, mailOwn, mtsOwn, streamVars,
      oneMeVars, tmFrameVars>>
    BY <1>2 DEF carriersVars
  <2>3. running' = running /\ connected' = connected
    BY <2>2 DEF baseVars
  <2>4. FlagsOK'
    BY <2>1, <2>3 DEF DocsInv, DocsTypeOK, FlagsOK
  <2>5. DocsInv' /\ BoardsInv' /\ MailInv' /\ MtsInv'
    BY <2>1, <2>2, <2>3, <2>4, DocsStay, BoardsStay, MailStay, MtsStay
  <2>6. VolgaInv' /\ RelayInv'
    BY <2>1, <2>2, VolgaKeep, RelayKeep
  <2>7. StreamInv' /\ OneMeInv' /\ FrameTypes'
    BY <2>1, <2>2, StreamKeep, OneMeKeep, FramesKeep
  <2>8. QED
    BY <2>5, <2>6, <2>7 DEF CarriersInv
<1>3. QED
  BY <1>1, <1>2

LEMMA CarriersAlways == CarriersSpec => []CarriersInv
BY CarriersStart, CarriersKeep, PTL DEF CarriersSpec

\* Every variable of every carrier keeps its type.
THEOREM CarriersTyped == CarriersSpec => []CarriersTypesOK
<1>1. CarriersInv => CarriersTypesOK
  BY DocsShow, VolgaShow, RelayShow, BoardsShow, MailShow, MtsShow, StreamShow, OneMeShow, FramesShow
     DEF CarriersInv, CarriersTypesOK
<1>2. QED
  BY <1>1, CarriersAlways, PTL

\* No channel is closed twice and none is used once it is closed, however many callers force a
\* carrier to connect again at once and whenever Stop is called.
THEOREM ChannelsAreSafe == CarriersSpec => []ChannelsSafe
<1>1. CarriersInv => ChannelsSafe
  BY DocsShow, RelayShow, BoardsShow, MtsShow DEF CarriersInv, ChannelsSafe
<1>2. QED
  BY <1>1, CarriersAlways, PTL

\* The session a carrier shows has its reader, one writer, and no stopped listener.
THEOREM SessionServed == CarriersSpec => []SessionIsServed
<1>1. CarriersInv => SessionIsServed
  BY DocsShow, VolgaShow, BoardsShow, MtsShow DEF CarriersInv, SessionIsServed
<1>2. QED
  BY <1>1, CarriersAlways, PTL

\* Some goroutine of a carrier that runs will connect it again.
THEOREM SomebodyAlwaysConnects == CarriersSpec => []SomebodyConnects
<1>1. CarriersInv => SomebodyConnects
  BY MailShow, OneMeShow DEF CarriersInv, SomebodyConnects
<1>2. QED
  BY <1>1, CarriersAlways, PTL

\* Whatever carrier it is, what it reports of its attempts comes in an order that Carrier allows.
THEOREM OrderIsKept == CarriersSpec => CarriersKeepOrder
<1>1. CarriersInit => Spoken!CarrierInit
  <2> SUFFICES ASSUME CarriersInit PROVE Spoken!CarrierInit
    OBVIOUS
  <2>1. connected = FALSE
    BY DEF CarriersInit, Started
  <2>2. Phase = "trying" /\ BoardsPhase = "trying" /\ MtsPhase = "trying"
    BY DEF CarriersInit, DocsInit, BoardsInit, MtsInit, Phase, BoardsPhase, MtsPhase, Started
  <2>3. MailruPhase = "trying"
    BY FirstIsChain DEF CarriersInit, MailruInit, MailruPhase, NoChain
  <2>4. SpokenPhase = "trying"
    BY <2>2, <2>3 DEF SpokenPhase, Speaks
  <2>5. (Speaks /\ connected) = FALSE
    BY <2>1
  <2>6. QED
    BY <2>4, <2>5 DEF Spoken!CarrierInit
<1>2. CarriersInv /\ [CarriersNext]_carriersVars => [Spoken!CarrierNext]_(Spoken!carrierVars)
  <2> SUFFICES ASSUME CarriersInv, [CarriersNext]_carriersVars PROVE [Spoken!CarrierNext]_(Spoken!carrierVars)
    OBVIOUS
  <2> DEFINE says == Speaks /\ connected
  <2>1. MayGo(SpokenPhase, says, SpokenPhase', says')
    <3>1. /\ DocsInv /\ BoardsInv /\ MailInv /\ MtsInv /\ connected \in BOOLEAN /\ connected' \in BOOLEAN
      BY CarriersKeep, DocsNow DEF CarriersInv, DocsInv, DocsTypeOK, FlagsOK
    <3>2. CASE ~(CarriersNext /\ Speaks)
      <4>1. CASE UNCHANGED carriersVars
        <5>1. /\ carrier' = carrier /\ connected' = connected /\ mayApply' = mayApply
              /\ Phase' = Phase /\ BoardsPhase' = BoardsPhase /\ MtsPhase' = MtsPhase /\ MailruPhase' = MailruPhase
          BY <4>1 DEF carriersVars, baseVars, docsOwn, boardsOwn, mtsOwn, mailOwn, mailCalls, Phase, BoardsPhase, MtsPhase,
             MailruPhase
        <5>2. Speaks' = Speaks /\ SpokenPhase' = SpokenPhase
          BY <5>1 DEF Speaks, SpokenPhase
        <5>3. says' = says
          BY <5>1, <5>2
        <5>4. QED
          BY <5>2, <5>3 DEF MayGo
      <4>2. CASE CarriersNext /\ ~Speaks
        <5>1. carrier' = carrier /\ (carrier = "mailru" => mayApply' = mayApply)
          BY <4>2, OthersStay, MailFixed
        <5>2. ~Speaks'
          BY <4>2, <5>1 DEF Speaks
        <5>3. SpokenPhase = "trying" /\ SpokenPhase' = "trying" /\ says = FALSE /\ says' = FALSE
          BY <4>2, <5>2 DEF SpokenPhase
        <5>4. QED
          BY <5>3 DEF MayGo
      <4>3. QED
        BY <3>2, <4>1, <4>2
    <3>3. CASE CarriersNext /\ Speaks
      <4>1. carrier' = carrier /\ (carrier = "mailru" => MailruNext /\ ~mayApply /\ mayApply' = mayApply)
        BY <3>3, OthersStay, MailFixed DEF Speaks
      <4>2. Speaks'
        BY <3>3, <4>1 DEF Speaks
      <4>3. says = connected /\ says' = connected'
        BY <3>1, <3>3, <4>2
      <4>4. CASE carrier = "docs"
        <5>1. SpokenPhase = Phase /\ SpokenPhase' = Phase'
          BY <3>3, <4>1, <4>2, <4>4 DEF SpokenPhase
        <5>2. MayGo(Phase, connected, Phase', connected')
          BY <3>1, <3>3, <4>4, OthersStay, DocsGo
        <5>3. QED
          BY <4>3, <5>1, <5>2
      <4>5. CASE carrier = "boards"
        <5>1. SpokenPhase = BoardsPhase /\ SpokenPhase' = BoardsPhase'
          BY <3>3, <4>1, <4>2, <4>5 DEF SpokenPhase
        <5>2. MayGo(BoardsPhase, connected, BoardsPhase', connected')
          BY <3>1, <3>3, <4>5, OthersStay, BoardsGo
        <5>3. QED
          BY <4>3, <5>1, <5>2
      <4>6. CASE carrier = "mts"
        <5>1. SpokenPhase = MtsPhase /\ SpokenPhase' = MtsPhase'
          BY <3>3, <4>1, <4>2, <4>6 DEF SpokenPhase
        <5>2. MayGo(MtsPhase, connected, MtsPhase', connected')
          BY <3>1, <3>3, <4>6, OthersStay, MtsGo
        <5>3. QED
          BY <4>3, <5>1, <5>2
      <4>7. CASE carrier = "mailru"
        <5>1. SpokenPhase = MailruPhase /\ SpokenPhase' = MailruPhase'
          BY <3>3, <4>1, <4>2, <4>7 DEF SpokenPhase
        <5>2. MayGo(MailruPhase, connected, MailruPhase', connected')
          BY <3>1, <4>1, <4>7, MailGo
        <5>3. QED
          BY <4>3, <5>1, <5>2
      <4>8. QED
        BY <3>3, <4>4, <4>5, <4>6, <4>7 DEF Speaks
    <3>4. QED
      BY <3>2, <3>3
  <2> HIDE DEF says
  <2>2. [Spoken!CarrierNext]_(Spoken!carrierVars)
    BY <2>1 DEF says, MayGo, Spoken!CarrierNext, Spoken!carrierVars, Spoken!Challenged, Spoken!Solved,
       Spoken!ComesUp, Spoken!Fails, Spoken!Blocked, Spoken!Reports, Spoken!TriesAgain,
       Spoken!Disconnects, Spoken!Ends
  <2>3. QED
    BY <2>2
<1>3. QED
  BY <1>1, <1>2, CarriersAlways, PTL DEF CarriersSpec, CarriersKeepOrder, Spoken!CarrierSpec
\* The frames of a call are so many that their counter does not come round: what the two theorems
\* below need and the others do not.
FewFramesInv == CarriersInv /\ FewInv

LEMMA FewFramesAlways ==
  ASSUME FewFrames
  PROVE  CarriersSpec => []FewFramesInv
<1>1. CarriersInit => FewFramesInv
  BY CarriersStart, FewStart DEF CarriersInit, FewFramesInv
<1>2. FewFramesInv /\ [CarriersNext]_carriersVars => FewFramesInv'
  <2> SUFFICES ASSUME FewFramesInv, [CarriersNext]_carriersVars PROVE FewFramesInv'
    OBVIOUS
  <2>1. [TmFramesNext]_tmFrameVars
    <3>1. CASE CarriersNext
      BY <3>1, OthersStay
    <3>2. CASE UNCHANGED carriersVars
      BY <3>2 DEF carriersVars
    <3>3. QED
      BY <3>1, <3>2
  <2>2. FewInv'
    BY <2>1, FewKeep DEF FewFramesInv
  <2>3. CarriersInv'
    BY CarriersKeep DEF FewFramesInv
  <2>4. QED
    BY <2>2, <2>3 DEF FewFramesInv
<1>3. QED
  BY <1>1, <1>2, PTL DEF CarriersSpec

\* What the carriers hand on is what one sender sent in one piece: no message of the stream is made
\* of two members' chunks, and no frame of a call is spliced, short or out of order.
THEOREM HandedOnAsSent ==
  ASSUME FewFrames
  PROVE  CarriersSpec => []HandedAsSent
<1>1. FewFramesInv => HandedAsSent
  BY StreamShow, FewShow DEF FewFramesInv, CarriersInv, HandedAsSent
<1>2. QED
  BY <1>1, FewFramesAlways, PTL

\* No packet comes twice over a relay, none that MTS took is unaccounted for, and no frame of a call
\* whose fragments are all there is forgotten.
THEOREM PacketsAreAccounted ==
  ASSUME FewFrames
  PROVE  CarriersSpec => []PacketsAccounted
<1>1. FewFramesInv => PacketsAccounted
  BY RelayShow, MtsShow, FewShow DEF FewFramesInv, CarriersInv, PacketsAccounted
<1>2. QED
  BY <1>1, FewFramesAlways, PTL

\* Of these, what is not about the frames of a call holds however many there are.
THEOREM OthersAreAccounted == CarriersSpec => [](MembersApart /\ RelayedOnce /\ MtsAccounted)
<1>1. CarriersInv => MembersApart /\ RelayedOnce /\ MtsAccounted
  BY StreamShow, RelayShow, MtsShow DEF CarriersInv
<1>2. QED
  BY <1>1, CarriersAlways, PTL
=============================================================================
