------------------------ MODULE SessionLifetimeProofs ------------------------
(***************************************************************************)
(* What SessionLifetime does for every number of logins and of packets.    *)
(***************************************************************************)
EXTENDS SessionLifetime, TLAPS

\* A session lives exactly as long as somebody holds it, a worker holds it
\* exactly while it has it pinned, and the game holds the newest one only.
RefInv ==
  /\ \A s \in Sessions : (life[s] = "alive") = (refs[s] # {})
  /\ \A s \in Sessions, t \in Workers : (t \in refs[s]) = (pc[s][t] = "pinned")
  /\ \A s \in Sessions : "game" \in refs[s] => s = logins
  /\ \A s \in Sessions : s > logins =>
       life[s] = "none" /\ \A t \in Workers : pc[s][t] = "none"

DyingBy(s, t) == life[s] \in Dying /\ destroyer[s] = t

\* The thread that destroys a session is in no other destructor, and where the
\* game goes on afterwards is waiting for it.
DestroyInv ==
  /\ \A s \in Sessions, t \in Workers : (pc[s][t] = "destroying") = DyingBy(s, t)
  /\ \A s \in Sessions : DyingBy(s, "game") =>
       /\ game = "destroying"
       /\ s # logins => "game" \in refs[logins] /\ \A t \in Workers : pc[logins][t] = "none"
  /\ \A s, r \in Sessions : DyingBy(s, "game") /\ DyingBy(r, "game") => s = r

\* The game holds the session it has set up or is setting up.
GameInv ==
  /\ game \in {"startRecv", "startSend", "destroying"} => logins > 0
  /\ game \in {"idle", "startRecv", "startSend"} /\ logins > 0 => "game" \in refs[logins]
  /\ game = "startRecv" => \A t \in Workers : pc[logins][t] = "none"
  /\ game = "startSend" => pc[logins]["send"] = "none" /\ pc[logins]["recv"] # "none"
  /\ game = "idle" /\ logins > 0 => \A t \in Workers : pc[logins][t] # "none"

\* The workers of a session that lives are in their loops once started.
WorkerInv ==
  \A s \in Sessions, t \in Workers : life[s] = "alive" =>
    /\ pc[s][t] \notin {"stopped", "wild"}
    /\ pc[s][t] # "none" => worker[s][t] = "running"

IInv == TypeOK /\ RefInv /\ DestroyInv /\ GameInv /\ WorkerInv

-----------------------------------------------------------------------------
LEMMA InitInv == ASSUME Init PROVE IInv
  BY LimitsAssumption DEF Init, IInv, TypeOK, RefInv, DestroyInv, GameInv, WorkerInv,
     DyingBy, Dying, Sessions, Workers, Threads

\* The last session is one of the sessions.
LEMMA LoginsSession == ASSUME TypeOK, logins > 0 PROVE logins \in Sessions
  BY LimitsAssumption DEF TypeOK, Sessions

LEMMA DisconnectStepInv ==
  ASSUME IInv, NEW s \in Sessions, NEW t \in Threads, DisconnectStep(s, t)
  PROVE  IInv'
<1>1. /\ life[s] \in Dying /\ destroyer[s] = t
      /\ \E next \in Dying : life' = [life EXCEPT ![s] = next]
      /\ \E u \in Workers, state \in {"told", "freed"} :
           worker' = [worker EXCEPT ![s][u] = state]
      /\ UNCHANGED <<logins, game, refs, destroyer, pc, arrivals>>
  BY DEF DisconnectStep, StopRecv, FreeRecv, StopSend, FreeSend, At, SetWorker, Dying, Workers
<1>2. /\ life' \in [Sessions -> {"none", "alive", "freed"} \cup Dying]
      /\ life'[s] \in Dying
      /\ \A r \in Sessions : r # s => life'[r] = life[r]
  BY <1>1 DEF IInv, TypeOK
<1>3. /\ worker' \in [Sessions -> [Workers -> {"none", "running", "told", "freed"}]]
      /\ \A r \in Sessions : r # s => worker'[r] = worker[r]
  BY <1>1 DEF IInv, TypeOK
<1>4. "alive" \notin Dying /\ "none" \notin Dying
  BY DEF Dying
<1>5. TypeOK'
  BY <1>1, <1>2, <1>3 DEF IInv, TypeOK
<1>6. RefInv'
  BY <1>1, <1>2, <1>4 DEF IInv, RefInv
<1>7. \A r \in Sessions, u \in Threads : DyingBy(r, u)' = DyingBy(r, u)
  BY <1>1, <1>2 DEF DyingBy
<1>8. DestroyInv'
  BY <1>1, <1>7 DEF IInv, DestroyInv, Threads
<1>9. GameInv'
  BY <1>1 DEF IInv, GameInv
<1>10. WorkerInv'
  BY <1>1, <1>2, <1>3, <1>4 DEF IInv, WorkerInv
<1> QED
  BY <1>5, <1>6, <1>8, <1>9, <1>10 DEF IInv

LEMMA FreedInv ==
  ASSUME IInv, NEW s \in Sessions, NEW t \in Threads, Freed(s, t)
  PROVE  IInv'
<1> USE DEF IInv
<1>1. /\ DyingBy(s, t) /\ life' = [life EXCEPT ![s] = "freed"]
      /\ UNCHANGED <<logins, refs, destroyer, worker, arrivals>>
  BY DEF Freed, At, DyingBy, Dying
<1>2. /\ life' \in [Sessions -> {"none", "alive", "freed"} \cup Dying]
      /\ life'[s] = "freed"
      /\ \A r \in Sessions : r # s => life'[r] = life[r]
  BY <1>1 DEF TypeOK
<1>3. "alive" \notin Dying /\ "none" \notin Dying /\ "freed" \notin Dying
  BY DEF Dying
<1>4. \A r \in Sessions, u \in Threads : DyingBy(r, u)' = (r # s /\ DyingBy(r, u))
  BY <1>1, <1>2, <1>3 DEF DyingBy
<1>5. s <= logins
  <2>1. s \in Int /\ logins \in Int
    BY DEF TypeOK, Sessions
  <2> QED
    BY <1>1, <1>3, <2>1 DEF RefInv, DyingBy
<1>6. CASE t = "game"
  <2>1. game' = (IF s = logins THEN "over" ELSE "startRecv") /\ pc' = pc
    BY <1>6 DEF Freed
  <2>2. game = "destroying" /\ logins > 0
    BY <1>1, <1>6 DEF DestroyInv, GameInv
  <2>3. TypeOK'
    BY <1>1, <1>2, <2>1 DEF TypeOK
  <2>4. RefInv'
    BY <1>1, <1>2, <1>3, <2>1 DEF RefInv, DyingBy
  <2>5. \A r \in Sessions : ~DyingBy(r, "game")'
    BY <1>1, <1>4, <1>6 DEF DestroyInv, Threads
  <2>6. \A r \in Sessions, u \in Workers : (pc'[r][u] = "destroying") = DyingBy(r, u)'
    BY <1>1, <1>4, <1>6, <2>1 DEF DestroyInv, Threads, Workers, DyingBy
  <2>7. DestroyInv'
    BY <2>5, <2>6 DEF DestroyInv
  <2>8. GameInv'
    BY <1>1, <1>6, <2>1, <2>2 DEF GameInv, DestroyInv
  <2>9. WorkerInv'
    BY <1>1, <1>2, <2>1 DEF WorkerInv
  <2> QED
    BY <2>3, <2>4, <2>7, <2>8, <2>9
<1>7. CASE t \in Workers
  <2>1. game' = game /\ pc' = [pc EXCEPT ![s][t] = "check"]
    BY <1>7 DEF Freed, Workers
  <2>2. /\ pc' \in [Sessions -> [Workers ->
             {"none", "check", "receive", "pin", "pinned", "destroying", "stopped", "wild"}]]
        /\ pc'[s][t] = "check"
        /\ \A r \in Sessions, u \in Workers : r # s \/ u # t => pc'[r][u] = pc[r][u]
    BY <1>7, <2>1 DEF TypeOK
  <2>3. pc[s][t] = "destroying"
    BY <1>1, <1>7 DEF DestroyInv
  <2>4. TypeOK'
    BY <1>1, <1>2, <2>1, <2>2 DEF TypeOK
  <2>5. RefInv'
    <3>1. ~(s > logins)
      BY <1>5 DEF TypeOK, Sessions
    <3> QED
      BY <1>1, <1>2, <1>3, <2>2, <2>3, <3>1 DEF RefInv, DyingBy
  <2>6. \A r \in Sessions : DyingBy(r, "game")' => DyingBy(r, "game")
    BY <1>4 DEF Threads
  <2>7. \A r \in Sessions, u \in Workers : (pc'[r][u] = "destroying") = DyingBy(r, u)'
    <3> SUFFICES ASSUME NEW r \in Sessions, NEW u \in Workers
                 PROVE  (pc'[r][u] = "destroying") = DyingBy(r, u)'
      OBVIOUS
    <3>1. CASE r = s /\ u = t
      BY <1>4, <1>7, <2>2, <3>1 DEF Threads
    <3>2. CASE r = s /\ u # t
      <4>1. ~DyingBy(r, u) /\ ~DyingBy(r, u)'
        BY <1>1, <1>2, <1>3, <3>2 DEF DyingBy
      <4>2. pc'[r][u] = pc[r][u]
        BY <2>2, <3>2
      <4>3. (pc[r][u] = "destroying") = DyingBy(r, u)
        BY DEF DestroyInv
      <4> QED
        BY <4>1, <4>2, <4>3 DEF DyingBy
    <3>3. CASE r # s
      BY <1>1, <1>2, <2>2, <3>3 DEF DestroyInv, DyingBy
    <3> QED
      BY <3>1, <3>2, <3>3
  <2>8. \A r \in Sessions, u \in Workers : pc[r][u] = "none" => pc'[r][u] = "none"
    BY <2>2, <2>3
  <2>9. DestroyInv'
    <3>1. ASSUME NEW r \in Sessions, DyingBy(r, "game")'
          PROVE  /\ game' = "destroying"
                 /\ r # logins' =>
                      "game" \in refs'[logins'] /\ \A u \in Workers : pc'[logins'][u] = "none"
      <4>1. DyingBy(r, "game")
        BY <2>6, <3>1
      <4>2. game = "destroying" /\ logins \in Sessions
        BY <4>1, LoginsSession DEF DestroyInv, GameInv
      <4> QED
        BY <1>1, <2>1, <2>8, <4>1, <4>2 DEF DestroyInv
    <3> QED
      BY <2>6, <2>7, <3>1 DEF DestroyInv
  <2>10. GameInv'
    <3>1. logins > 0 => \A u \in Workers : (pc'[logins][u] = "none") = (pc[logins][u] = "none")
      BY <2>2, <2>3, LoginsSession
    <3> QED
      BY <1>1, <2>1, <3>1 DEF GameInv, Workers
  <2>11. WorkerInv'
    BY <1>1, <1>2, <2>2 DEF WorkerInv
  <2> QED
    BY <2>4, <2>5, <2>9, <2>10, <2>11
<1> QED
  BY <1>6, <1>7 DEF Threads

\* A session that the game lets go of, while another may take its place.
LEMMA ConnectInv == ASSUME IInv, Connect PROVE IInv'
<1> USE DEF IInv
<1> DEFINE new == logins + 1
           old == logins
<1>1. /\ game = "idle" /\ logins \in Nat /\ logins' = new /\ new \in Sessions
      /\ UNCHANGED <<worker, pc, arrivals>>
  BY LimitsAssumption DEF Connect, TypeOK, Sessions
<1>2. life[new] = "none" /\ refs[new] = {} /\ \A t \in Workers : pc[new][t] = "none"
  BY <1>1 DEF RefInv, Sessions
<1>3. \A r \in Sessions : ~DyingBy(r, "game")
  BY <1>1 DEF DestroyInv
<1>4. "alive" \notin Dying /\ "none" \notin Dying /\ "disconnecting" \in Dying
      /\ "alive" # "none"
  BY DEF Dying
<1>5. CASE old = 0
  <2>1. /\ refs' = [refs EXCEPT ![new] = {"game"}]
        /\ life' = [life EXCEPT ![new] = "alive"]
        /\ game' = "startRecv" /\ destroyer' = destroyer
    BY <1>5 DEF Connect
  <2>2. /\ refs' \in [Sessions -> SUBSET Threads] /\ refs'[new] = {"game"}
        /\ \A r \in Sessions : r # new => refs'[r] = refs[r]
        /\ life' \in [Sessions -> {"none", "alive", "freed"} \cup Dying]
        /\ life'[new] = "alive"
        /\ \A r \in Sessions : r # new => life'[r] = life[r]
    BY <1>1, <2>1 DEF TypeOK, Threads
  <2>3. TypeOK'
    BY <1>1, <2>1, <2>2 DEF TypeOK, Sessions
  <2>4. RefInv'
    BY <1>1, <1>2, <1>5, <2>2 DEF RefInv, Sessions, Workers
  <2>5. \A r \in Sessions, u \in Threads : DyingBy(r, u)' = DyingBy(r, u)
    BY <1>2, <1>4, <2>1, <2>2 DEF DyingBy
  <2>6. DestroyInv'
    BY <1>1, <1>3, <2>5 DEF DestroyInv, Threads
  <2>7. GameInv'
    BY <1>1, <1>2, <2>1, <2>2 DEF GameInv
  <2>8. WorkerInv'
    BY <1>1, <1>2, <2>2 DEF WorkerInv
  <2> QED
    BY <2>3, <2>4, <2>6, <2>7, <2>8
<1>6. CASE old # 0
  <2>1. old \in Sessions /\ old # new /\ logins > 0
    BY <1>1, <1>6, LimitsAssumption DEF Sessions
  <2>2. "game" \in refs[old] /\ life[old] = "alive"
    BY <1>1, <2>1 DEF GameInv, RefInv
  <2>3. /\ refs' = [refs EXCEPT ![new] = {"game"}, ![old] = @ \ {"game"}]
        /\ life' = [life EXCEPT ![new] = "alive", ![old] = LifeWithout(old, "game")]
        /\ IF Last(old, "game")
           THEN game' = "destroying" /\ destroyer' = [destroyer EXCEPT ![old] = "game"]
           ELSE game' = "startRecv" /\ UNCHANGED destroyer
    BY <1>6 DEF Connect
  <2>4. /\ refs' \in [Sessions -> SUBSET Threads] /\ refs'[new] = {"game"}
        /\ refs'[old] = refs[old] \ {"game"}
        /\ \A r \in Sessions : r # new /\ r # old => refs'[r] = refs[r]
    BY <1>1, <2>1, <2>3 DEF TypeOK, Threads
  <2>5. LifeWithout(old, "game") = IF refs'[old] = {} THEN "disconnecting" ELSE "alive"
    BY <2>2, <2>4 DEF LifeWithout, Last
  <2>6. /\ life' \in [Sessions -> {"none", "alive", "freed"} \cup Dying]
        /\ life'[new] = "alive"
        /\ life'[old] = IF refs'[old] = {} THEN "disconnecting" ELSE "alive"
        /\ \A r \in Sessions : r # new /\ r # old => life'[r] = life[r]
    BY <1>1, <1>4, <2>1, <2>3, <2>5 DEF TypeOK
  <2>7. /\ game' = IF refs'[old] = {} THEN "destroying" ELSE "startRecv"
        /\ destroyer' \in [Sessions -> Threads]
        /\ refs'[old] = {} => destroyer'[old] = "game"
        /\ \A r \in Sessions : r # old => destroyer'[r] = destroyer[r]
    BY <2>1, <2>2, <2>3, <2>4 DEF Last, TypeOK, Threads
  <2>8. TypeOK'
    BY <1>1, <2>4, <2>6, <2>7 DEF TypeOK, Sessions
  <2>9. RefInv'
    <3>1. \A r \in Sessions : (life'[r] = "alive") = (refs'[r] # {})
      BY <1>1, <1>4, <2>4, <2>6 DEF RefInv, Dying
    <3>2. \A r \in Sessions, t \in Workers : (t \in refs'[r]) = (pc'[r][t] = "pinned")
      BY <1>1, <1>2, <2>1, <2>4 DEF RefInv, Workers
    <3>3. \A r \in Sessions : "game" \in refs'[r] => r = logins'
      BY <1>1, <2>1, <2>4 DEF RefInv
    <3>4. \A r \in Sessions : r > logins' =>
            life'[r] = "none" /\ \A t \in Workers : pc'[r][t] = "none"
      BY <1>1, <2>1, <2>6 DEF RefInv, Sessions
    <3> QED
      BY <3>1, <3>2, <3>3, <3>4 DEF RefInv
  <2>10. \A r \in Sessions : DyingBy(r, "game")' => r = old /\ refs'[old] = {}
    BY <1>3, <1>4, <2>1, <2>6, <2>7 DEF DyingBy
  <2>11. \A r \in Sessions, t \in Workers : DyingBy(r, t)' = DyingBy(r, t)
    <3> SUFFICES ASSUME NEW r \in Sessions, NEW t \in Workers
                 PROVE  DyingBy(r, t)' = DyingBy(r, t)
      OBVIOUS
    <3>1. t # "game"
      BY DEF Workers
    <3>2. CASE r = old
      BY <1>4, <2>2, <2>6, <2>7, <3>1, <3>2 DEF DyingBy
    <3>3. CASE r = new
      BY <1>2, <1>4, <2>6, <3>3 DEF DyingBy
    <3>4. CASE r # old /\ r # new
      BY <2>6, <2>7, <3>4 DEF DyingBy
    <3> QED
      BY <3>2, <3>3, <3>4
  <2>12. DestroyInv'
    BY <1>1, <1>2, <2>4, <2>7, <2>10, <2>11 DEF DestroyInv
  <2>13. GameInv'
    BY <1>1, <1>2, <2>4, <2>7 DEF GameInv
  <2>14. WorkerInv'
    BY <1>1, <1>2, <2>2, <2>6 DEF WorkerInv
  <2> QED
    BY <2>8, <2>9, <2>12, <2>13, <2>14
<1> QED
  BY <1>5, <1>6

LEMMA GameOverInv == ASSUME IInv, GameOver PROVE IInv'
<1> USE DEF IInv
<1> DEFINE old == logins
<1>1. /\ game = "idle" /\ logins \in Nat /\ logins > 0 /\ old \in Sessions
      /\ UNCHANGED <<logins, worker, pc, arrivals>>
  BY LoginsSession DEF GameOver, TypeOK
<1>2. "game" \in refs[old] /\ life[old] = "alive"
  BY <1>1 DEF GameInv, RefInv
<1>3. \A r \in Sessions : ~DyingBy(r, "game")
  BY <1>1 DEF DestroyInv
<1>4. "alive" \notin Dying /\ "disconnecting" \in Dying
  BY DEF Dying
<1>5. /\ refs' \in [Sessions -> SUBSET Threads]
      /\ refs'[old] = refs[old] \ {"game"}
      /\ \A r \in Sessions : r # old => refs'[r] = refs[r]
  BY <1>1 DEF GameOver, TypeOK
<1>6. LifeWithout(old, "game") = IF refs'[old] = {} THEN "disconnecting" ELSE "alive"
  BY <1>2, <1>5 DEF LifeWithout, Last
<1>7. /\ life' \in [Sessions -> {"none", "alive", "freed"} \cup Dying]
      /\ life'[old] = IF refs'[old] = {} THEN "disconnecting" ELSE "alive"
      /\ \A r \in Sessions : r # old => life'[r] = life[r]
  BY <1>1, <1>4, <1>6 DEF TypeOK, GameOver
<1>8. /\ game' = IF refs'[old] = {} THEN "destroying" ELSE "over"
      /\ destroyer' \in [Sessions -> Threads]
      /\ refs'[old] = {} => destroyer'[old] = "game"
      /\ \A r \in Sessions : r # old => destroyer'[r] = destroyer[r]
  BY <1>1, <1>2, <1>5 DEF Last, TypeOK, Threads, GameOver
<1>9. TypeOK'
  BY <1>1, <1>5, <1>7, <1>8 DEF TypeOK
<1>10. RefInv'
  <2>1. \A r \in Sessions : (life'[r] = "alive") = (refs'[r] # {})
    BY <1>1, <1>4, <1>5, <1>7 DEF RefInv, Dying
  <2>2. \A r \in Sessions, t \in Workers : (t \in refs'[r]) = (pc'[r][t] = "pinned")
    BY <1>1, <1>5 DEF RefInv, Workers
  <2>3. \A r \in Sessions : "game" \in refs'[r] => r = logins'
    BY <1>1, <1>5 DEF RefInv
  <2>4. \A r \in Sessions : r > logins' =>
          life'[r] = "none" /\ \A t \in Workers : pc'[r][t] = "none"
    BY <1>1, <1>7 DEF RefInv
  <2> QED
    BY <2>1, <2>2, <2>3, <2>4 DEF RefInv
<1>11. \A r \in Sessions : DyingBy(r, "game")' => r = old /\ refs'[old] = {}
  BY <1>3, <1>4, <1>7, <1>8 DEF DyingBy
<1>12. \A r \in Sessions, t \in Workers : DyingBy(r, t)' = DyingBy(r, t)
  <2> SUFFICES ASSUME NEW r \in Sessions, NEW t \in Workers
               PROVE  DyingBy(r, t)' = DyingBy(r, t)
    OBVIOUS
  <2>1. t # "game"
    BY DEF Workers
  <2>2. CASE r = old
    BY <1>2, <1>4, <1>7, <1>8, <2>1, <2>2 DEF DyingBy
  <2>3. CASE r # old
    BY <1>7, <1>8, <2>3 DEF DyingBy
  <2> QED
    BY <2>2, <2>3
<1>13. DestroyInv'
  BY <1>1, <1>8, <1>11, <1>12 DEF DestroyInv
<1>14. GameInv'
  BY <1>1, <1>8 DEF GameInv
<1>15. WorkerInv'
  <2>1. \A r \in Sessions : life'[r] = "alive" => life[r] = "alive"
    BY <1>2, <1>7
  <2>2. pc' = pc /\ worker' = worker
    BY <1>1
  <2> QED
    BY <2>1, <2>2 DEF WorkerInv
<1> QED
  BY <1>9, <1>10, <1>13, <1>14, <1>15

\* A thread that is started is one that was not there before.
LEMMA StartInv ==
  ASSUME IInv, StartRecv \/ StartSend PROVE IInv'
<1> USE DEF IInv
<1>1. PICK u \in Workers, next \in {"startSend", "idle"} :
        /\ worker' = [worker EXCEPT ![logins][u] = "running"]
        /\ pc' = [pc EXCEPT ![logins][u] = "check"]
        /\ game' = next
        /\ \/ game = "startRecv" /\ u = "recv" /\ next = "startSend"
           \/ game = "startSend" /\ u = "send" /\ next = "idle"
  BY DEF StartRecv, StartSend, Start, SetWorker, Workers
<1>2. UNCHANGED <<logins, refs, life, destroyer, arrivals>>
  BY DEF StartRecv, StartSend, Start
<1>3. logins > 0 /\ logins \in Sessions /\ "game" \in refs[logins] /\ life[logins] = "alive"
  BY <1>1, LoginsSession DEF GameInv, RefInv
<1>4. pc[logins][u] = "none"
  BY <1>1 DEF GameInv
<1>5. /\ pc' \in [Sessions -> [Workers ->
           {"none", "check", "receive", "pin", "pinned", "destroying", "stopped", "wild"}]]
      /\ pc'[logins][u] = "check"
      /\ \A r \in Sessions, v \in Workers : r # logins \/ v # u => pc'[r][v] = pc[r][v]
  BY <1>1, <1>3 DEF TypeOK
<1>6. /\ worker' \in [Sessions -> [Workers -> {"none", "running", "told", "freed"}]]
      /\ worker'[logins][u] = "running"
      /\ \A r \in Sessions, v \in Workers : r # logins \/ v # u => worker'[r][v] = worker[r][v]
  BY <1>1, <1>3 DEF TypeOK
<1>7. TypeOK'
  BY <1>1, <1>2, <1>5, <1>6 DEF TypeOK
<1>8. RefInv'
  <2>1. ~(logins > logins)
    BY <1>3 DEF Sessions
  <2> QED
    BY <1>2, <1>4, <1>5, <2>1 DEF RefInv
<1>9. DestroyInv'
  <2>1. \A r \in Sessions, v \in Workers : (pc'[r][v] = "destroying") = (pc[r][v] = "destroying")
    BY <1>4, <1>5
  <2>2. \A r \in Sessions : ~DyingBy(r, "game")
    BY <1>1 DEF DestroyInv
  <2> QED
    BY <1>2, <2>1, <2>2 DEF DestroyInv, DyingBy
<1>10. GameInv'
  <2>1. \A v \in Workers : pc'[logins][v] = IF v = u THEN "check" ELSE pc[logins][v]
    BY <1>3, <1>5
  <2> QED
    BY <1>1, <1>2, <1>3, <2>1 DEF GameInv, Workers
<1>11. WorkerInv'
  <2> SUFFICES ASSUME NEW r \in Sessions, NEW v \in Workers, life[r] = "alive"
               PROVE  /\ pc'[r][v] \notin {"stopped", "wild"}
                      /\ pc'[r][v] # "none" => worker'[r][v] = "running"
    BY <1>2 DEF WorkerInv
  <2>1. CASE r = logins /\ v = u
    BY <1>5, <1>6, <2>1
  <2>2. CASE r # logins \/ v # u
    BY <1>5, <1>6, <2>2 DEF WorkerInv
  <2> QED
    BY <2>1, <2>2
<1> QED
  BY <1>7, <1>8, <1>9, <1>10, <1>11

\* A worker thread goes from one place in its loop to another.
LEMMA MoveInv ==
  ASSUME IInv, NEW s \in Sessions, NEW t \in Workers, Check(s, t) \/ (t = "recv" /\ Receive(s))
  PROVE  IInv'
<1> USE DEF IInv
<1>1. PICK label \in {"receive", "check", "pin", "stopped", "wild"} :
        /\ pc' = [pc EXCEPT ![s][t] = label]
        /\ label \in {"stopped", "wild"} => worker[s][t] \in {"told", "freed"}
  BY DEF Check, Receive, Goto
<1>2. /\ pc[s][t] \in {"check", "receive"}
      /\ UNCHANGED <<logins, game, refs, life, destroyer, worker>>
      /\ arrivals' \in [Sessions -> 0..MaxArrivals]
  BY LimitsAssumption DEF Check, Receive, TypeOK
<1>3. /\ pc' \in [Sessions -> [Workers ->
           {"none", "check", "receive", "pin", "pinned", "destroying", "stopped", "wild"}]]
      /\ pc'[s][t] = label
      /\ \A r \in Sessions, v \in Workers : r # s \/ v # t => pc'[r][v] = pc[r][v]
  BY <1>1 DEF TypeOK
<1>4. \A r \in Sessions, v \in Workers :
        /\ (pc'[r][v] = "none") = (pc[r][v] = "none")
        /\ (pc'[r][v] = "pinned") = (pc[r][v] = "pinned")
        /\ (pc'[r][v] = "destroying") = (pc[r][v] = "destroying")
  BY <1>2, <1>3
<1>5. TypeOK'
  BY <1>2, <1>3 DEF TypeOK
<1>6. RefInv'
  BY <1>2, <1>4 DEF RefInv
<1>7. logins > 0 => logins \in Sessions
  BY LoginsSession
<1>8. DestroyInv'
  <2>1. \A r \in Sessions : DyingBy(r, "game") => logins \in Sessions
    BY <1>7 DEF DestroyInv, GameInv
  <2> QED
    BY <1>2, <1>4, <2>1 DEF DestroyInv, DyingBy
<1>9. GameInv'
  <2>1. logins > 0 => \A v \in Workers : (pc'[logins][v] = "none") = (pc[logins][v] = "none")
    BY <1>4, <1>7
  <2> QED
    BY <1>2, <2>1 DEF GameInv, Workers
<1>10. WorkerInv'
  <2> SUFFICES ASSUME NEW r \in Sessions, NEW v \in Workers, life[r] = "alive"
               PROVE  /\ pc'[r][v] \notin {"stopped", "wild"}
                      /\ pc'[r][v] # "none" => worker'[r][v] = "running"
    BY <1>2 DEF WorkerInv
  <2>1. pc[r][v] # "none" => worker[r][v] = "running"
    BY DEF WorkerInv
  <2>2. CASE r = s /\ v = t
    BY <1>1, <1>2, <1>3, <2>1, <2>2
  <2>3. CASE r # s \/ v # t
    BY <1>2, <1>3, <2>3 DEF WorkerInv
  <2> QED
    BY <2>2, <2>3
<1> QED
  BY <1>5, <1>6, <1>8, <1>9, <1>10

LEMMA PinInv ==
  ASSUME IInv, NEW s \in Sessions, NEW t \in Workers, Pin(s, t) PROVE IInv'
<1> USE DEF IInv
<1>1. /\ pc[s][t] = "pin"
      /\ UNCHANGED <<logins, game, life, destroyer, worker, arrivals>>
  BY DEF Pin
<1>2. PICK label \in {"wild", "pinned", "check"} :
        /\ pc' = [pc EXCEPT ![s][t] = label]
        /\ label = "wild" => worker[s][t] = "freed"
        /\ label = "pinned" => refs[s] # {} /\ refs' = [refs EXCEPT ![s] = @ \cup {t}]
        /\ label # "pinned" => refs' = refs
  BY DEF Pin, Goto, CanPin
<1>3. /\ pc' \in [Sessions -> [Workers ->
           {"none", "check", "receive", "pin", "pinned", "destroying", "stopped", "wild"}]]
      /\ pc'[s][t] = label
      /\ \A r \in Sessions, v \in Workers : r # s \/ v # t => pc'[r][v] = pc[r][v]
  BY <1>2 DEF TypeOK
<1>4. t \notin refs[s] /\ t # "game"
  BY <1>1 DEF RefInv, Workers
<1>5. /\ refs' \in [Sessions -> SUBSET Threads]
      /\ refs'[s] = IF label = "pinned" THEN refs[s] \cup {t} ELSE refs[s]
      /\ \A r \in Sessions : r # s => refs'[r] = refs[r]
  <2>1. refs \in [Sessions -> SUBSET Threads] /\ t \in Threads
    BY DEF TypeOK, Threads
  <2>2. CASE label = "pinned"
    BY <1>2, <2>1, <2>2
  <2>3. CASE label # "pinned"
    BY <1>2, <2>1, <2>3
  <2> QED
    BY <2>2, <2>3
<1>6. \A r \in Sessions, v \in Workers :
        /\ (pc'[r][v] = "none") = (pc[r][v] = "none")
        /\ (pc'[r][v] = "destroying") = (pc[r][v] = "destroying")
  BY <1>1, <1>3
<1>7. \A r \in Sessions : ("game" \in refs'[r]) = ("game" \in refs[r])
  BY <1>4, <1>5
<1>8. TypeOK'
  BY <1>1, <1>3, <1>5 DEF TypeOK
<1>9. RefInv'
  <2>1. \A r \in Sessions : (life'[r] = "alive") = (refs'[r] # {})
    BY <1>1, <1>2, <1>5 DEF RefInv
  <2>2. \A r \in Sessions, v \in Workers : (v \in refs'[r]) = (pc'[r][v] = "pinned")
    <3> SUFFICES ASSUME NEW r \in Sessions, NEW v \in Workers
                 PROVE  (v \in refs'[r]) = (pc'[r][v] = "pinned")
      OBVIOUS
    <3>1. CASE r = s /\ v = t
      BY <1>3, <1>4, <1>5, <3>1
    <3>2. CASE r # s \/ v # t
      <4>1. (v \in refs'[r]) = (v \in refs[r]) /\ pc'[r][v] = pc[r][v]
        BY <1>3, <1>5, <3>2
      <4> QED
        BY <4>1 DEF RefInv
    <3> QED
      BY <3>1, <3>2
  <2>3. \A r \in Sessions : "game" \in refs'[r] => r = logins'
    BY <1>1, <1>7 DEF RefInv
  <2>4. \A r \in Sessions : r > logins' =>
          life'[r] = "none" /\ \A v \in Workers : pc'[r][v] = "none"
    BY <1>1, <1>6 DEF RefInv
  <2> QED
    BY <2>1, <2>2, <2>3, <2>4 DEF RefInv
<1>10. logins > 0 => logins \in Sessions
  BY LoginsSession
<1>11. DestroyInv'
  <2>1. \A r \in Sessions : DyingBy(r, "game") => logins \in Sessions
    BY <1>10 DEF DestroyInv, GameInv
  <2> QED
    BY <1>1, <1>6, <1>7, <2>1 DEF DestroyInv, DyingBy
<1>12. GameInv'
  <2>1. logins > 0 => \A v \in Workers : (pc'[logins][v] = "none") = (pc[logins][v] = "none")
    BY <1>6, <1>10
  <2>2. logins > 0 => (("game" \in refs'[logins]) = ("game" \in refs[logins]))
    BY <1>7, <1>10
  <2> QED
    BY <1>1, <2>1, <2>2 DEF GameInv, Workers
<1>13. WorkerInv'
  <2> SUFFICES ASSUME NEW r \in Sessions, NEW v \in Workers, life[r] = "alive"
               PROVE  /\ pc'[r][v] \notin {"stopped", "wild"}
                      /\ pc'[r][v] # "none" => worker'[r][v] = "running"
    BY <1>1 DEF WorkerInv
  <2>1. pc[r][v] # "none" => worker[r][v] = "running"
    BY DEF WorkerInv
  <2>2. CASE r = s /\ v = t
    BY <1>1, <1>2, <1>3, <2>1, <2>2
  <2>3. CASE r # s \/ v # t
    BY <1>1, <1>3, <2>3 DEF WorkerInv
  <2> QED
    BY <2>2, <2>3
<1> QED
  BY <1>8, <1>9, <1>11, <1>12, <1>13

LEMMA UnpinInv ==
  ASSUME IInv, NEW s \in Sessions, NEW t \in Workers, Unpin(s, t) PROVE IInv'
<1> USE DEF IInv
<1>1. /\ pc[s][t] = "pinned" /\ refs' = [refs EXCEPT ![s] = @ \ {t}]
      /\ UNCHANGED <<logins, game, worker, arrivals>>
  BY DEF Unpin
<1>2. t \in refs[s] /\ t # "game" /\ life[s] = "alive"
  BY <1>1 DEF RefInv, Workers
<1>3. "alive" \notin Dying /\ "disconnecting" \in Dying
  BY DEF Dying
<1>4. /\ refs' \in [Sessions -> SUBSET Threads] /\ refs'[s] = refs[s] \ {t}
      /\ \A r \in Sessions : r # s => refs'[r] = refs[r]
  BY <1>1 DEF TypeOK
<1>5. Last(s, t) = (refs'[s] = {})
  BY <1>2, <1>4 DEF Last
<1>6. /\ life' \in [Sessions -> {"none", "alive", "freed"} \cup Dying]
      /\ life'[s] = IF refs'[s] = {} THEN "disconnecting" ELSE "alive"
      /\ \A r \in Sessions : r # s => life'[r] = life[r]
  BY <1>2, <1>3, <1>5 DEF Unpin, LifeWithout, TypeOK
<1>7. /\ destroyer' \in [Sessions -> Threads]
      /\ refs'[s] = {} => destroyer'[s] = t
      /\ \A r \in Sessions : r # s => destroyer'[r] = destroyer[r]
  BY <1>5 DEF Unpin, TypeOK, Threads
<1>8. /\ pc' \in [Sessions -> [Workers ->
           {"none", "check", "receive", "pin", "pinned", "destroying", "stopped", "wild"}]]
      /\ pc'[s][t] = IF refs'[s] = {} THEN "destroying" ELSE "check"
      /\ \A r \in Sessions, v \in Workers : r # s \/ v # t => pc'[r][v] = pc[r][v]
  <2> DEFINE label == IF refs'[s] = {} THEN "destroying" ELSE "check"
  <2>1. pc' = [pc EXCEPT ![s][t] = label]
    BY <1>5 DEF Unpin, Goto
  <2>2. label \in {"destroying", "check"}
    OBVIOUS
  <2> HIDE DEF label
  <2>3. /\ pc' \in [Sessions -> [Workers ->
             {"none", "check", "receive", "pin", "pinned", "destroying", "stopped", "wild"}]]
        /\ pc'[s][t] = label
        /\ \A r \in Sessions, v \in Workers : r # s \/ v # t => pc'[r][v] = pc[r][v]
    BY <2>1, <2>2 DEF TypeOK
  <2> QED
    BY <2>3 DEF label
<1>9. \A r \in Sessions, v \in Workers : (pc'[r][v] = "none") = (pc[r][v] = "none")
  BY <1>1, <1>8
<1>10. \A r \in Sessions : ("game" \in refs'[r]) = ("game" \in refs[r])
  BY <1>2, <1>4
<1>11. TypeOK'
  BY <1>1, <1>4, <1>6, <1>7, <1>8 DEF TypeOK
<1>12. RefInv'
  <2>1. \A r \in Sessions : (life'[r] = "alive") = (refs'[r] # {})
    BY <1>3, <1>4, <1>6 DEF RefInv
  <2>2. \A r \in Sessions, v \in Workers : (v \in refs'[r]) = (pc'[r][v] = "pinned")
    <3> SUFFICES ASSUME NEW r \in Sessions, NEW v \in Workers
                 PROVE  (v \in refs'[r]) = (pc'[r][v] = "pinned")
      OBVIOUS
    <3>1. CASE r = s /\ v = t
      BY <1>4, <1>8, <3>1
    <3>2. CASE r # s \/ v # t
      <4>1. (v \in refs'[r]) = (v \in refs[r]) /\ pc'[r][v] = pc[r][v]
        BY <1>4, <1>8, <3>2
      <4> QED
        BY <4>1 DEF RefInv
    <3> QED
      BY <3>1, <3>2
  <2>3. \A r \in Sessions : "game" \in refs'[r] => r = logins'
    BY <1>1, <1>10 DEF RefInv
  <2>4. \A r \in Sessions : r > logins' =>
          life'[r] = "none" /\ \A v \in Workers : pc'[r][v] = "none"
    <3>1. ~(s > logins)
      BY <1>2 DEF RefInv
    <3> QED
      BY <1>1, <1>6, <1>9, <3>1 DEF RefInv
  <2> QED
    BY <2>1, <2>2, <2>3, <2>4 DEF RefInv
<1>13. logins > 0 => logins \in Sessions
  BY LoginsSession
<1>14. \A r \in Sessions : DyingBy(r, "game")' => DyingBy(r, "game")
  BY <1>2, <1>3, <1>6, <1>7 DEF DyingBy
<1>15. DestroyInv'
  <2>1. \A r \in Sessions : DyingBy(r, "game")' =>
          /\ game' = "destroying"
          /\ r # logins' =>
               "game" \in refs'[logins'] /\ \A v \in Workers : pc'[logins'][v] = "none"
    BY <1>1, <1>9, <1>10, <1>13, <1>14 DEF DestroyInv, GameInv
  <2>2. \A r \in Sessions, v \in Workers : (pc'[r][v] = "destroying") = DyingBy(r, v)'
    <3> SUFFICES ASSUME NEW r \in Sessions, NEW v \in Workers
                 PROVE  (pc'[r][v] = "destroying") = DyingBy(r, v)'
      OBVIOUS
    <3>1. CASE r # s
      BY <1>6, <1>7, <1>8, <3>1 DEF DestroyInv, DyingBy
    <3>2. CASE r = s /\ v = t
      BY <1>3, <1>6, <1>7, <1>8, <3>2 DEF DyingBy
    <3>3. CASE r = s /\ v # t
      <4>1. pc[r][v] # "destroying"
        BY <1>2, <1>3, <3>3 DEF DestroyInv, DyingBy
      <4> QED
        BY <1>3, <1>6, <1>7, <1>8, <3>3, <4>1 DEF DyingBy
    <3> QED
      BY <3>1, <3>2, <3>3
  <2> QED
    BY <1>14, <2>1, <2>2 DEF DestroyInv
<1>16. GameInv'
  <2>1. logins > 0 => \A v \in Workers : (pc'[logins][v] = "none") = (pc[logins][v] = "none")
    BY <1>9, <1>13
  <2>2. logins > 0 => (("game" \in refs'[logins]) = ("game" \in refs[logins]))
    BY <1>10, <1>13
  <2> QED
    BY <1>1, <2>1, <2>2 DEF GameInv, Workers
<1>17. WorkerInv'
  <2> SUFFICES ASSUME NEW r \in Sessions, NEW v \in Workers, life'[r] = "alive"
               PROVE  /\ pc'[r][v] \notin {"stopped", "wild"}
                      /\ pc'[r][v] # "none" => worker'[r][v] = "running"
    BY DEF WorkerInv
  <2>1. life[r] = "alive"
    BY <1>2, <1>6
  <2>2. CASE r = s /\ v = t
    BY <1>1, <1>8, <2>1, <2>2 DEF WorkerInv
  <2>3. CASE r # s \/ v # t
    BY <1>1, <1>8, <2>1, <2>3 DEF WorkerInv
  <2> QED
    BY <2>2, <2>3
<1> QED
  BY <1>11, <1>12, <1>15, <1>16, <1>17

LEMMA StutterInv == ASSUME IInv, UNCHANGED vars PROVE IInv'
<1>1. TypeOK'
  BY DEF vars, IInv, TypeOK
<1>2. RefInv' /\ WorkerInv'
  BY DEF vars, IInv, RefInv, WorkerInv
<1>3. DestroyInv' /\ GameInv'
  BY DEF vars, IInv, DestroyInv, GameInv, DyingBy
<1> QED
  BY <1>1, <1>2, <1>3 DEF IInv

LEMMA Invariance == SafeSpec => []IInv
<1>1. Init => IInv
  BY InitInv
<1>2. ASSUME IInv, [Next]_vars PROVE IInv'
  <2>1. CASE Connect \/ GameOver \/ StartRecv \/ StartSend \/ UNCHANGED vars
    BY <1>2, <2>1, ConnectInv, GameOverInv, StartInv, StutterInv
  <2>2. CASE \E s \in Sessions, t \in Threads : Destructor(s, t)
    BY <1>2, <2>2, DisconnectStepInv, FreedInv DEF Destructor
  <2>3. CASE \E s \in Sessions, t \in Workers :
               Check(s, t) \/ (t = "recv" /\ Receive(s)) \/ Pin(s, t) \/ Unpin(s, t)
    BY <1>2, <2>3, MoveInv, PinInv, UnpinInv
  <2>4. "game" \in Threads /\ Workers \subseteq Threads
    BY DEF Threads
  <2> QED
    BY <1>2, <2>1, <2>2, <2>3, <2>4 DEF Next, Game, Worker
<1> QED
  BY <1>1, <1>2, PTL DEF SafeSpec

-----------------------------------------------------------------------------
(* What it comes to. *)

\* The variables keep their types through any number of logins.
THEOREM TypeCorrect == SafeSpec => []TypeOK
<1>1. IInv => TypeOK
  BY DEF IInv
<1> QED
  BY <1>1, Invariance, PTL

\* However the game's logins fall between the steps of the workers, none of them
\* ever has a session in its hands that is being destroyed.
THEOREM PinnedTheorem == SafeSpec => []PinnedAlive
<1>1. IInv => PinnedAlive
  BY DEF IInv, RefInv, PinnedAlive
<1> QED
  BY <1>1, Invariance, PTL

\* Whichever thread lets go last, it alone runs the destructor.
THEOREM DestroyerTheorem == SafeSpec => []SoleDestroyer
<1>1. ASSUME IInv PROVE SoleDestroyer
  <2>1. "alive" \notin Dying
    BY DEF Dying
  <2>2. \A s \in Sessions : life[s] \in Dying => refs[s] = {}
    BY <1>1, <2>1 DEF IInv, RefInv
  <2> QED
    BY <1>1, <2>2 DEF IInv, DestroyInv, DyingBy, SoleDestroyer
<1> QED
  BY <1>1, Invariance, PTL

\* The workers of the session the game holds are never stopped or freed under
\* their threads: that only ever happens to a session it has let go of.
THEOREM ServeTheorem == SafeSpec => []WorkersServe
<1>1. ASSUME IInv PROVE WorkersServe
  <2> SUFFICES ASSUME game = "idle", logins > 0, NEW t \in Workers
               PROVE  /\ worker[logins][t] = "running"
                      /\ pc[logins][t] \in {"check", "receive", "pin", "pinned"}
    BY DEF WorkersServe
  <2>1. logins \in Sessions /\ pc[logins][t] # "none" /\ life[logins] = "alive"
    BY <1>1, LoginsSession DEF IInv, GameInv, RefInv
  <2>2. worker[logins][t] = "running" /\ pc[logins][t] \notin {"stopped", "wild"}
    BY <1>1, <2>1 DEF IInv, WorkerInv
  <2>3. pc[logins][t] # "destroying"
    BY <1>1, <2>1 DEF IInv, DestroyInv, DyingBy, Dying
  <2>4. pc[logins][t] \in
          {"none", "check", "receive", "pin", "pinned", "destroying", "stopped", "wild"}
    BY <1>1, <2>1 DEF IInv, TypeOK
  <2> QED
    BY <2>1, <2>2, <2>3, <2>4
<1> QED
  BY <1>1, Invariance, PTL

-----------------------------------------------------------------------------
(* How a session ends. *)

Workers2(s, recv, send) == worker[s]["recv"] = recv /\ worker[s]["send"] = send

\* How far the destructor is says how far its workers are.
Stage(s) ==
  /\ life[s] = "disconnecting" => Workers2(s, "running", "running")
  /\ life[s] = "recvTold"      => Workers2(s, "told", "running")
  /\ life[s] = "recvFreed"     => Workers2(s, "freed", "running")
  /\ life[s] = "sendTold"      => Workers2(s, "freed", "told")
  /\ life[s] \in {"sendFreed", "freed"} => Workers2(s, "freed", "freed")

\* Every login makes a session, and the game lets go only of one it has set up.
Made(s) ==
  /\ s <= logins => life[s] # "none"
  /\ \A t \in Workers : pc[s][t] = "none" <=> worker[s][t] = "none"
  /\ life[s] # "none" /\ "game" \notin refs[s] => \A t \in Workers : pc[s][t] # "none"
  /\ game = "over" => "game" \notin refs[s]

EndInv == \A s \in Sessions : Stage(s) /\ Made(s)

\* The workers of a session that lives and has been set up run.
LEMMA BothRun ==
  ASSUME IInv, NEW s \in Sessions, life[s] = "alive", \A t \in Workers : pc[s][t] # "none"
  PROVE  Workers2(s, "running", "running")
<1>1. \A t \in Workers : worker[s][t] = "running"
  BY DEF IInv, WorkerInv
<1> QED
  BY <1>1 DEF Workers, Workers2

LEMMA DisconnectStepEnd ==
  ASSUME IInv, EndInv, NEW s \in Sessions, NEW t \in Threads, DisconnectStep(s, t)
  PROVE  EndInv'
<1>1. UNCHANGED <<logins, game, refs, pc>>
  BY DEF DisconnectStep
<1>2. Stage(s) /\ Made(s) /\ worker \in [Sessions -> [Workers -> {"none", "running", "told", "freed"}]]
      /\ life \in [Sessions -> {"none", "alive", "freed"} \cup Dying]
  BY DEF EndInv, IInv, TypeOK
<1>3. Stage(s)' /\ life'[s] # "none" /\ \A u \in Workers : worker'[s][u] = "none" <=> worker[s][u] = "none"
  <2>1. CASE StopRecv(s, t)
    <3>1. /\ life[s] = "disconnecting" /\ life'[s] = "recvTold" /\ worker[s]["recv"] = "running"
          /\ worker'[s]["recv"] = "told" /\ worker'[s]["send"] = worker[s]["send"]
      BY <1>2, <2>1 DEF StopRecv, At, SetWorker, Stage, Workers2, Workers
    <3> QED
      BY <1>2, <3>1 DEF Stage, Workers2, Workers
  <2>2. CASE FreeRecv(s, t)
    <3>1. /\ life[s] = "recvTold" /\ life'[s] = "recvFreed" /\ worker[s]["recv"] = "told"
          /\ worker'[s]["recv"] = "freed" /\ worker'[s]["send"] = worker[s]["send"]
      BY <1>2, <2>2 DEF FreeRecv, At, SetWorker, Stage, Workers2, Workers
    <3> QED
      BY <1>2, <3>1 DEF Stage, Workers2, Workers
  <2>3. CASE StopSend(s, t)
    <3>1. /\ life[s] = "recvFreed" /\ life'[s] = "sendTold" /\ worker[s]["send"] = "running"
          /\ worker'[s]["send"] = "told" /\ worker'[s]["recv"] = worker[s]["recv"]
      BY <1>2, <2>3 DEF StopSend, At, SetWorker, Stage, Workers2, Workers
    <3> QED
      BY <1>2, <3>1 DEF Stage, Workers2, Workers
  <2>4. CASE FreeSend(s, t)
    <3>1. /\ life[s] = "sendTold" /\ life'[s] = "sendFreed" /\ worker[s]["send"] = "told"
          /\ worker'[s]["send"] = "freed" /\ worker'[s]["recv"] = worker[s]["recv"]
      BY <1>2, <2>4 DEF FreeSend, At, SetWorker, Stage, Workers2, Workers
    <3> QED
      BY <1>2, <3>1 DEF Stage, Workers2, Workers
  <2> QED
    BY <2>1, <2>2, <2>3, <2>4 DEF DisconnectStep
<1>4. \A r \in Sessions : r # s => life'[r] = life[r] /\ worker'[r] = worker[r]
  BY <1>2 DEF DisconnectStep, StopRecv, FreeRecv, StopSend, FreeSend, At, SetWorker
<1>5. Made(s)'
  <2>1. life[s] # "none"
    BY DEF DisconnectStep, StopRecv, FreeRecv, StopSend, FreeSend, At
  <2> QED
    BY <1>1, <1>2, <1>3, <2>1 DEF Made
<1>6. ASSUME NEW r \in Sessions, r # s PROVE Stage(r)' /\ Made(r)'
  BY <1>1, <1>4, <1>6 DEF EndInv, Stage, Made, Workers2
<1> QED
  BY <1>3, <1>5, <1>6 DEF EndInv

LEMMA FreedEnd ==
  ASSUME IInv, EndInv, NEW s \in Sessions, NEW t \in Threads, Freed(s, t)
  PROVE  EndInv'
<1>1. /\ life[s] = "sendFreed" /\ destroyer[s] = t /\ life' = [life EXCEPT ![s] = "freed"]
      /\ UNCHANGED <<logins, refs, worker>>
      /\ life \in [Sessions -> {"none", "alive", "freed"} \cup Dying]
  BY DEF Freed, At, IInv, TypeOK
<1>2. life'[s] = "freed" /\ \A r \in Sessions : r # s => life'[r] = life[r]
  BY <1>1
<1>3. \A r \in Sessions, u \in Workers : pc'[r][u] = "none" <=> pc[r][u] = "none"
  <2>1. CASE t = "game"
    BY <2>1 DEF Freed
  <2>2. CASE t # "game"
    <3>1. t \in Workers /\ pc' = [pc EXCEPT ![s][t] = "check"]
      BY <2>2 DEF Freed, Threads
    <3>2. pc[s][t] = "destroying"
      BY <1>1, <3>1 DEF IInv, DestroyInv, DyingBy, Dying
    <3> QED
      BY <3>1, <3>2 DEF IInv, TypeOK
  <2> QED
    BY <2>1, <2>2
<1>4. game' = "over" => \A r \in Sessions : "game" \notin refs[r]
  <2>1. CASE game' = game
    BY <2>1 DEF EndInv, Made
  <2>2. CASE s = logins
    <3>1. refs[s] = {}
      BY <1>1 DEF IInv, RefInv
    <3> QED
      BY <2>2, <3>1 DEF IInv, RefInv
  <2> QED
    BY <2>1, <2>2 DEF Freed
<1>5. ASSUME NEW r \in Sessions PROVE Stage(r)' /\ Made(r)'
  <2>1. Stage(r) /\ Made(r)
    BY DEF EndInv
  <2>2. CASE r = s
    BY <1>1, <1>2, <1>3, <1>4, <2>1, <2>2 DEF Stage, Made, Workers2
  <2>3. CASE r # s
    BY <1>1, <1>2, <1>3, <1>4, <2>1, <2>3 DEF Stage, Made, Workers2
  <2> QED
    BY <2>2, <2>3
<1> QED
  BY <1>5 DEF EndInv

\* The game lets go of the session it holds, which it has set up.
LEMMA LetGoEnd ==
  ASSUME IInv, EndInv, Connect \/ GameOver
  PROVE  EndInv'
<1>1. /\ game = "idle" /\ game' # "idle" /\ UNCHANGED <<worker, pc>> /\ logins \in Nat
      /\ life \in [Sessions -> {"none", "alive", "freed"} \cup Dying]
      /\ refs \in [Sessions -> SUBSET Threads]
      /\ logins' = logins \/ (logins' = logins + 1 /\ logins + 1 \in Sessions)
  BY LimitsAssumption DEF Connect, GameOver, IInv, TypeOK, Sessions
<1>2. CASE logins = 0
  <2>1. /\ Connect /\ logins' = 1 /\ 1 \in Sessions
        /\ refs' = [refs EXCEPT ![1] = {"game"}] /\ life' = [life EXCEPT ![1] = "alive"]
        /\ game' = "startRecv"
    BY <1>1, <1>2 DEF Connect, GameOver
  <2>2. ASSUME NEW r \in Sessions PROVE Stage(r)' /\ Made(r)'
    <3>0. Stage(r) /\ Made(r) /\ r \in Nat
      BY DEF EndInv, Sessions
    <3>1. CASE r = 1
      <4>1. life'[r] = "alive" /\ refs'[r] = {"game"}
        BY <1>1, <2>1, <3>1
      <4> QED
        BY <1>1, <2>1, <3>0, <4>1 DEF Stage, Made
    <3>2. CASE r # 1
      <4>1. life'[r] = life[r] /\ refs'[r] = refs[r] /\ ~(r <= 1)
        BY <1>1, <2>1, <3>0, <3>2 DEF Sessions
      <4> QED
        BY <1>1, <2>1, <3>0, <4>1 DEF Stage, Made, Workers2
    <3> QED
      BY <3>1, <3>2
  <2> QED
    BY <2>2 DEF EndInv
<1>3. CASE logins # 0
  <2>1. /\ logins \in Sessions /\ logins > 0 /\ "game" \in refs[logins]
        /\ life[logins] = "alive" /\ \A u \in Workers : pc[logins][u] # "none"
    BY <1>1, <1>3, LoginsSession DEF IInv, GameInv, RefInv
  <2>2. Workers2(logins, "running", "running")
    BY <2>1, BothRun
  <2>3. /\ refs'[logins] = refs[logins] \ {"game"}
        /\ life'[logins] \in {"alive", "disconnecting"}
        /\ \A r \in Sessions : r # logins /\ r # logins + 1 =>
             refs'[r] = refs[r] /\ life'[r] = life[r]
        /\ logins' = logins + 1 =>
             refs'[logins + 1] = {"game"} /\ life'[logins + 1] = "alive" /\ game' # "over"
        /\ logins' = logins /\ logins + 1 \in Sessions =>
             refs'[logins + 1] = refs[logins + 1] /\ life'[logins + 1] = life[logins + 1]
    <3>1. CASE Connect
      <4>1. /\ logins' = logins + 1 /\ logins + 1 \in Sessions /\ logins + 1 # logins
            /\ refs' = [refs EXCEPT ![logins + 1] = {"game"}, ![logins] = @ \ {"game"}]
            /\ life' = [life EXCEPT ![logins + 1] = "alive",
                                    ![logins] = LifeWithout(logins, "game")]
            /\ game' \in {"destroying", "startRecv"}
        BY <1>1, <1>3, <3>1 DEF Connect
      <4>2. LifeWithout(logins, "game") \in {"alive", "disconnecting"}
        BY <2>1 DEF LifeWithout
      <4> QED
        BY <1>1, <2>1, <4>1, <4>2
    <3>2. CASE GameOver
      <4>1. /\ logins' = logins /\ logins + 1 # logins
            /\ refs' = [refs EXCEPT ![logins] = @ \ {"game"}]
            /\ life' = [life EXCEPT ![logins] = LifeWithout(logins, "game")]
        BY <1>1, <3>2 DEF GameOver
      <4>2. LifeWithout(logins, "game") \in {"alive", "disconnecting"}
        BY <2>1 DEF LifeWithout
      <4> QED
        BY <1>1, <2>1, <4>1, <4>2
    <3> QED
      BY <3>1, <3>2
  <2>4. ASSUME NEW r \in Sessions PROVE Stage(r)' /\ Made(r)'
    <3>0. Stage(r) /\ Made(r) /\ r \in Nat /\ ("game" \in refs[r] => r = logins)
      BY DEF EndInv, Sessions, IInv, RefInv
    <3>1. CASE r = logins
      BY <1>1, <2>1, <2>2, <2>3, <3>0, <3>1 DEF Stage, Made, Workers2
    <3>2. CASE r # logins /\ logins' = logins + 1 /\ r = logins + 1
      BY <1>1, <2>3, <3>0, <3>2 DEF Stage, Made
    <3>3. CASE r # logins /\ ~(logins' = logins + 1 /\ r = logins + 1)
      <4>1. refs'[r] = refs[r] /\ life'[r] = life[r] /\ (r <= logins' => r <= logins)
        BY <1>1, <2>3, <3>0, <3>3
      <4> QED
        BY <1>1, <3>0, <3>3, <4>1 DEF Stage, Made, Workers2
    <3> QED
      BY <3>1, <3>2, <3>3
  <2> QED
    BY <2>4 DEF EndInv
<1> QED
  BY <1>2, <1>3

LEMMA StartEnd == ASSUME IInv, EndInv, StartRecv \/ StartSend PROVE EndInv'
<1>1. PICK t \in Workers : SetWorker(logins, t, "running") /\ pc' = [pc EXCEPT ![logins][t] = "check"]
  BY DEF StartRecv, StartSend, Start, Workers
<1>2. /\ UNCHANGED <<logins, refs, life>> /\ game' # "over"
      /\ game \in {"startRecv", "startSend"}
  BY DEF StartRecv, StartSend, Start
<1>3. logins \in Sessions /\ "game" \in refs[logins] /\ life[logins] = "alive"
  BY <1>2, LoginsSession DEF IInv, GameInv, RefInv
<1>4. /\ worker'[logins][t] = "running" /\ pc'[logins][t] = "check"
      /\ \A r \in Sessions, u \in Workers : r # logins \/ u # t =>
           worker'[r][u] = worker[r][u] /\ pc'[r][u] = pc[r][u]
  BY <1>1, <1>3 DEF SetWorker, IInv, TypeOK
<1>5. ASSUME NEW r \in Sessions PROVE Stage(r)' /\ Made(r)'
  <2>0. Stage(r) /\ Made(r)
    BY DEF EndInv
  <2>1. CASE r = logins
    <3>1. \A u \in Workers : pc'[r][u] = "none" <=> worker'[r][u] = "none"
      BY <1>4, <2>0, <2>1 DEF Made
    <3> QED
      BY <1>2, <1>3, <2>0, <2>1, <3>1 DEF Stage, Made
  <2>2. CASE r # logins
    <3>1. \A u \in Workers : worker'[r][u] = worker[r][u] /\ pc'[r][u] = pc[r][u]
      BY <1>4, <2>2
    <3> QED
      BY <1>2, <2>0, <3>1 DEF Stage, Made, Workers2, Workers
  <2> QED
    BY <2>1, <2>2
<1> QED
  BY <1>5 DEF EndInv

\* A worker thread's own steps start and free nothing; the last to let go of a session
\* finds both workers running.
LEMMA LoopEnd ==
  ASSUME IInv, EndInv, NEW s \in Sessions, NEW t \in Workers,
         Check(s, t) \/ (t = "recv" /\ Receive(s)) \/ Pin(s, t) \/ Unpin(s, t)
  PROVE  EndInv'
<1>1. /\ UNCHANGED <<logins, game, worker>>
      /\ \E label : label # "none" /\ pc' = [pc EXCEPT ![s][t] = label]
      /\ pc[s][t] # "none"
  BY DEF Check, Receive, Pin, Unpin, Goto
<1>2. \A r \in Sessions, u \in Workers : pc'[r][u] = "none" <=> pc[r][u] = "none"
  BY <1>1 DEF IInv, TypeOK
<1>3. \A r \in Sessions : "game" \in refs'[r] <=> "game" \in refs[r]
  BY DEF Check, Receive, Pin, Unpin, IInv, TypeOK, Workers
<1>4. CASE UNCHANGED life
  BY <1>1, <1>2, <1>3, <1>4 DEF EndInv, Stage, Made, Workers2
<1>5. CASE Unpin(s, t)
  <2>1. /\ life' = [life EXCEPT ![s] = LifeWithout(s, t)] /\ t \in refs[s] /\ life[s] = "alive"
        /\ life \in [Sessions -> {"none", "alive", "freed"} \cup Dying]
    BY <1>5 DEF Unpin, IInv, RefInv, TypeOK
  <2>2. /\ life'[s] = LifeWithout(s, t)
        /\ \A r \in Sessions : r # s => life'[r] = life[r]
    BY <2>1
  <2>3. CASE Last(s, t)
    <3>1. life'[s] = "disconnecting" /\ "game" \notin refs[s]
      BY <2>2, <2>3 DEF LifeWithout, Last, Workers
    <3>2. \A u \in Workers : pc[s][u] # "none"
      BY <2>1, <3>1 DEF EndInv, Made
    <3>3. Workers2(s, "running", "running")
      BY <2>1, <3>2, BothRun
    <3>4. ASSUME NEW r \in Sessions PROVE Stage(r)' /\ Made(r)'
      <4>1. Stage(r) /\ Made(r)
        BY DEF EndInv
      <4>2. CASE r = s
        BY <1>1, <1>2, <1>3, <2>1, <3>1, <3>2, <3>3, <4>1, <4>2 DEF Stage, Made, Workers2
      <4>3. CASE r # s
        BY <1>1, <1>2, <1>3, <2>2, <4>1, <4>3 DEF Stage, Made, Workers2
      <4> QED
        BY <4>2, <4>3
    <3> QED
      BY <3>4 DEF EndInv
  <2>4. CASE ~Last(s, t)
    <3>1. \A r \in Sessions : life'[r] = life[r]
      BY <2>2, <2>4 DEF LifeWithout
    <3> QED
      BY <1>1, <1>2, <1>3, <3>1 DEF EndInv, Stage, Made, Workers2
  <2> QED
    BY <2>3, <2>4
<1> QED
  BY <1>4, <1>5 DEF Check, Receive, Pin

\* Every step is one of the destructor's, of the game's, or of a worker's loop.
LEMMA Steps ==
  ASSUME [Next]_vars
  PROVE  \/ Connect \/ GameOver \/ StartRecv \/ StartSend \/ UNCHANGED vars
         \/ \E s \in Sessions, t \in Threads : DisconnectStep(s, t) \/ Freed(s, t)
         \/ \E s \in Sessions, t \in Workers :
              Check(s, t) \/ (t = "recv" /\ Receive(s)) \/ Pin(s, t) \/ Unpin(s, t)
<1>1. "game" \in Threads /\ Workers \subseteq Threads
  BY DEF Threads
<1> QED
  BY <1>1 DEF Next, Game, Worker, Destructor

LEMMA EndInvariance == SafeSpec => [](IInv /\ EndInv)
<1>1. ASSUME Init PROVE EndInv
  BY <1>1 DEF Init, EndInv, Stage, Made, Workers2, Sessions, Workers
<1>2. ASSUME IInv, EndInv, [Next]_vars PROVE EndInv'
  <2>1. CASE UNCHANGED vars
    BY <1>2, <2>1 DEF vars, EndInv, Stage, Made, Workers2
  <2> QED
    BY <1>2, <2>1, Steps, DisconnectStepEnd, FreedEnd, LetGoEnd, StartEnd, LoopEnd
<1>3. SafeSpec => []IInv
  BY Invariance
<1> QED
  BY <1>1, <1>2, <1>3, PTL DEF SafeSpec

\* The safe half of ReplacedEnds: a session the game has let go of is held by nobody but
\* workers that are about to let go of it too, or a thread is in its destructor, or
\* it is gone, its workers freed and no thread using it.
OnItsWay ==
  \A s \in Sessions : s <= logins /\ Abandoned(s) =>
    \/ /\ life[s] = "alive" /\ refs[s] # {}
       /\ \A t \in refs[s] : t \in Workers /\ pc[s][t] = "pinned"
    \/ /\ life[s] \in Dying
       /\ IF destroyer[s] = "game" THEN game = "destroying"
                                   ELSE pc[s][destroyer[s]] = "destroying"
    \/ /\ life[s] = "freed"
       /\ \A t \in Workers :
            /\ worker[s][t] = "freed"
            /\ pc[s][t] \in {"check", "receive", "pin", "stopped", "wild"}

\* No session is left without somebody who will end it, for every number of logins.
THEOREM OnItsWayTheorem == SafeSpec => []OnItsWay
<1>1. ASSUME IInv, EndInv PROVE OnItsWay
  <2> SUFFICES ASSUME NEW s \in Sessions, s <= logins, Abandoned(s)
               PROVE  \/ /\ life[s] = "alive" /\ refs[s] # {}
                         /\ \A t \in refs[s] : t \in Workers /\ pc[s][t] = "pinned"
                      \/ /\ life[s] \in Dying
                         /\ IF destroyer[s] = "game" THEN game = "destroying"
                                                     ELSE pc[s][destroyer[s]] = "destroying"
                      \/ /\ life[s] = "freed"
                         /\ \A t \in Workers :
                              /\ worker[s][t] = "freed"
                              /\ pc[s][t] \in {"check", "receive", "pin", "stopped", "wild"}
    BY DEF OnItsWay
  <2>1. /\ Stage(s) /\ Made(s) /\ life[s] \in {"none", "alive", "freed"} \cup Dying
        /\ refs[s] \subseteq Threads /\ destroyer[s] \in Threads /\ s \in Nat /\ logins \in Nat
    BY <1>1 DEF EndInv, IInv, TypeOK, Sessions
  <2>2. "game" \notin refs[s]
    BY <1>1, <2>1 DEF Abandoned, Made, IInv, RefInv
  <2>3. life[s] # "none" /\ \A t \in Workers : pc[s][t] # "none"
    BY <2>1, <2>2 DEF Made
  <2>4. CASE life[s] = "alive"
    BY <1>1, <2>1, <2>2, <2>4 DEF IInv, RefInv, Threads
  <2>5. CASE life[s] \in Dying
    BY <1>1, <2>1, <2>5 DEF IInv, DestroyInv, DyingBy, Threads
  <2>6. CASE life[s] = "freed"
    <3>1. \A t \in Workers : worker[s][t] = "freed"
      BY <2>1, <2>6 DEF Stage, Workers2, Workers
    <3>2. \A t \in Workers : pc[s][t] \notin {"pinned", "destroying"}
      <4>1. refs[s] = {} /\ life[s] \notin Dying
        BY <1>1, <2>6 DEF IInv, RefInv, Dying
      <4> QED
        BY <1>1, <4>1 DEF IInv, RefInv, DestroyInv, DyingBy
    <3>3. \A t \in Workers : pc[s][t] \in
            {"none", "check", "receive", "pin", "pinned", "destroying", "stopped", "wild"}
      BY <1>1 DEF IInv, TypeOK
    <3> QED
      BY <2>3, <2>6, <3>1, <3>2, <3>3
  <2> QED
    BY <2>1, <2>3, <2>4, <2>5, <2>6
<1> QED
  BY <1>1, EndInvariance, PTL

\* A thread that finds its session gone makes one more step in the freed worker, not
\* more: it sees that it has been told to stop, or runs wild.
LastStep ==
  [][\A s \in Sessions, t \in Workers :
       life[s] = "freed" /\ pc'[s][t] # pc[s][t] => pc'[s][t] \in {"stopped", "wild"}]_vars

THEOREM LastStepTheorem == SafeSpec => LastStep
<1> DEFINE L == \A s \in Sessions, t \in Workers :
                  life[s] = "freed" /\ pc'[s][t] # pc[s][t] => pc'[s][t] \in {"stopped", "wild"}
<1>1. ASSUME IInv, EndInv, [Next]_vars PROVE L
  <2> SUFFICES ASSUME NEW s \in Sessions, NEW t \in Workers, life[s] = "freed",
                      pc'[s][t] # pc[s][t]
               PROVE  pc'[s][t] \in {"stopped", "wild"}
    OBVIOUS
  <2>1. /\ worker[s][t] = "freed" /\ pc[s][t] # "pinned"
        /\ pc \in [Sessions -> [Workers ->
             {"none", "check", "receive", "pin", "pinned", "destroying", "stopped", "wild"}]]
    <3>1. Stage(s)
      BY <1>1 DEF EndInv
    <3>2. worker[s][t] = "freed"
      BY <3>1 DEF Stage, Workers2, Workers
    <3>3. pc[s][t] # "pinned"
      BY <1>1 DEF IInv, RefInv
    <3> QED
      BY <1>1, <3>2, <3>3 DEF IInv, TypeOK
  <2>2. ASSUME NEW r \in Sessions, NEW u \in Workers,
               Check(r, u) \/ (u = "recv" /\ Receive(r)) \/ Pin(r, u) \/ Unpin(r, u)
        PROVE  pc'[s][t] \in {"stopped", "wild"}
    <3>1. r = s /\ u = t
      BY <2>1, <2>2 DEF Check, Receive, Pin, Unpin, Goto
    <3> QED
      BY <2>1, <2>2, <3>1 DEF Check, Receive, Pin, Unpin, Goto
  <2>3. ASSUME NEW r \in Sessions, NEW u \in Threads, Freed(r, u) PROVE FALSE
    <3>1. pc' = pc \/ (u \in Workers /\ pc' = [pc EXCEPT ![r][u] = "check"])
      BY <2>3 DEF Freed, Threads
    <3>2. r = s /\ u = t
      BY <2>1, <3>1
    <3> QED
      BY <2>3, <3>2 DEF Freed, At
  <2>4. CASE StartRecv \/ StartSend
    <3>1. PICK u \in Workers : pc' = [pc EXCEPT ![logins][u] = "check"]
      BY <2>4 DEF StartRecv, StartSend, Start, Workers
    <3>2. s = logins
      BY <2>1, <3>1
    <3>3. life[logins] = "alive"
      BY <1>1, <2>4, LoginsSession DEF StartRecv, StartSend, IInv, GameInv, RefInv
    <3> QED
      BY <3>2, <3>3
  <2> QED
    BY <1>1, <2>2, <2>3, <2>4, Steps DEF Connect, GameOver, DisconnectStep, vars
<1>2. IInv /\ EndInv /\ [Next]_vars => [L]_vars
  BY <1>1
<1> QED
  BY <1>2, EndInvariance, PTL DEF SafeSpec, LastStep

\* A session goes through its life once, from MakeShared to the end of ~PacketSession, and
\* each of its workers from its constructor through Destroy to its own end.
LifeSteps ==
  {<<"none", "alive">>, <<"alive", "disconnecting">>, <<"disconnecting", "recvTold">>,
   <<"recvTold", "recvFreed">>, <<"recvFreed", "sendTold">>, <<"sendTold", "sendFreed">>,
   <<"sendFreed", "freed">>}
WorkerSteps == {<<"none", "running">>, <<"running", "told">>, <<"told", "freed">>}

LifeStep(s)   == life'[s] # life[s] => <<life[s], life'[s]>> \in LifeSteps
WorkerStep(s) ==
  \A t \in Workers :
    worker'[s][t] # worker[s][t] => <<worker[s][t], worker'[s][t]>> \in WorkerSteps

Once == \A s \in Sessions : LifeStep(s) /\ WorkerStep(s)

OnceEach == [][Once]_vars

THEOREM OnceEachTheorem == SafeSpec => OnceEach
<1> USE DEF Once, LifeStep, WorkerStep, LifeSteps, WorkerSteps
<1>1. ASSUME IInv, EndInv, [Next]_vars PROVE Once
  <2>0. /\ life \in [Sessions -> {"none", "alive", "freed"} \cup Dying]
        /\ worker \in [Sessions -> [Workers -> {"none", "running", "told", "freed"}]]
    BY <1>1 DEF IInv, TypeOK
  <2>1. ASSUME NEW s \in Sessions, NEW t \in Threads, DisconnectStep(s, t) PROVE Once
    <3>1. Stage(s)
      BY <1>1 DEF EndInv
    <3>2. \A r \in Sessions : r # s => life'[r] = life[r] /\ worker'[r] = worker[r]
      BY <2>0, <2>1 DEF DisconnectStep, StopRecv, FreeRecv, StopSend, FreeSend, At, SetWorker
    <3>3. LifeStep(s) /\ WorkerStep(s)
      <4>1. CASE StopRecv(s, t)
        BY <2>0, <3>1, <4>1 DEF StopRecv, At, SetWorker, Stage, Workers2, Workers
      <4>2. CASE FreeRecv(s, t)
        BY <2>0, <3>1, <4>2 DEF FreeRecv, At, SetWorker, Stage, Workers2, Workers
      <4>3. CASE StopSend(s, t)
        BY <2>0, <3>1, <4>3 DEF StopSend, At, SetWorker, Stage, Workers2, Workers
      <4>4. CASE FreeSend(s, t)
        BY <2>0, <3>1, <4>4 DEF FreeSend, At, SetWorker, Stage, Workers2, Workers
      <4> QED
        BY <2>1, <4>1, <4>2, <4>3, <4>4 DEF DisconnectStep
    <3> QED
      BY <3>2, <3>3
  <2>2. ASSUME NEW s \in Sessions, NEW t \in Threads, Freed(s, t) PROVE Once
    BY <2>0, <2>2 DEF Freed, At
  <2>3. CASE Connect \/ GameOver
    <3>1. worker' = worker /\ game = "idle" /\ logins \in Nat
      BY <1>1, <2>3 DEF Connect, GameOver, IInv, TypeOK
    <3>2. logins > 0 => logins \in Sessions /\ life[logins] = "alive"
      BY <1>1, <3>1, LoginsSession DEF IInv, GameInv, RefInv
    <3>3. logins + 1 \in Sessions => life[logins + 1] = "none"
      BY <1>1, <3>1 DEF IInv, RefInv, Sessions
    <3>4. LifeWithout(logins, "game") \in {life[logins], "disconnecting"}
      BY DEF LifeWithout
    <3>5. ASSUME NEW s \in Sessions PROVE LifeStep(s)
      <4>1. CASE Connect
        <5>1. logins + 1 \in Sessions
          BY <3>1, <4>1, LimitsAssumption DEF Connect, Sessions
        <5>2. CASE logins = 0
          BY <2>0, <3>3, <4>1, <5>1, <5>2 DEF Connect
        <5>3. CASE logins # 0
          <6>1. life' = [life EXCEPT ![logins + 1] = "alive",
                                     ![logins] = LifeWithout(logins, "game")]
            BY <4>1, <5>3 DEF Connect
          <6>2. life[logins] = "alive" /\ logins \in Sessions /\ logins + 1 # logins
            BY <3>1, <3>2, <5>3
          <6> QED
            BY <2>0, <3>3, <3>4, <5>1, <6>1, <6>2
        <5> QED
          BY <5>2, <5>3
      <4>2. CASE GameOver
        <5>1. life' = [life EXCEPT ![logins] = LifeWithout(logins, "game")] /\ logins > 0
          BY <4>2 DEF GameOver
        <5> QED
          BY <2>0, <3>2, <3>4, <5>1
      <4> QED
        BY <2>3, <4>1, <4>2
    <3> QED
      BY <3>1, <3>5
  <2>4. CASE StartRecv \/ StartSend
    <3>1. PICK t \in Workers :
            worker' = [worker EXCEPT ![logins][t] = "running"] /\ pc[logins][t] = "none"
      BY <1>1, <2>4 DEF StartRecv, StartSend, Start, SetWorker, Workers, IInv, GameInv
    <3>2. logins \in Sessions
      BY <1>1, <2>4, LoginsSession DEF StartRecv, StartSend, IInv, GameInv
    <3>3. worker[logins][t] = "none" /\ life' = life
      BY <1>1, <2>4, <3>1, <3>2 DEF EndInv, Made, StartRecv, StartSend, Start
    <3> QED
      BY <2>0, <3>1, <3>2, <3>3
  <2>5. ASSUME NEW s \in Sessions, NEW t \in Workers, Unpin(s, t) PROVE Once
    <3>1. /\ worker' = worker /\ life' = [life EXCEPT ![s] = LifeWithout(s, t)]
          /\ life[s] = "alive" /\ LifeWithout(s, t) \in {"alive", "disconnecting"}
      BY <1>1, <2>5 DEF Unpin, IInv, RefInv, LifeWithout
    <3> QED
      BY <2>0, <3>1
  <2>6. CASE UNCHANGED <<life, worker>>
    BY <2>6
  <2> QED
    BY <1>1, <2>1, <2>2, <2>3, <2>4, <2>5, <2>6, Steps DEF Check, Receive, Pin, vars
<1>2. IInv /\ EndInv /\ [Next]_vars => [Once]_vars
  BY <1>1
<1> HIDE DEF Once
<1> QED
  BY <1>2, EndInvariance, PTL DEF SafeSpec, OnceEach

=============================================================================
