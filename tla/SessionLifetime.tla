--------------------------- MODULE SessionLifetime ---------------------------
(***************************************************************************)
(* Who keeps a PacketSession alive and who ends it: the game instance's    *)
(* reference GameServerSession, the references the RecvWorker and the      *)
(* SendWorker thread take for a moment through their weak pointer          *)
(* (Network/NetworkWorker.cpp), the destructor, which runs on whichever    *)
(* thread lets go last, and the two worker objects, which belong to the    *)
(* session and not to the threads that run in them                         *)
(* (Network/PacketSession.cpp, S1GameInstance.cpp).                        *)
(*                                                                         *)
(* Sessions are numbered in the order of the logins.                       *)
(***************************************************************************)
EXTENDS Integers

CONSTANTS
  MaxSessions,  \* bound: successful logins in a run
  MaxArrivals   \* bound: packets that arrive for one session

ASSUME LimitsAssumption == MaxSessions \in Nat /\ MaxArrivals \in Nat

Sessions == 1..MaxSessions
Workers  == {"recv", "send"}
Threads  == Workers \cup {"game"}

VARIABLES
  logins,     \* the number of sessions there have been
  game,       \* the game thread: idle, in PacketSession::Run, or in a destructor
  refs,       \* the threads that hold a shared reference to a session
  life,       \* the session object
  destroyer,  \* the thread ~PacketSession runs on
  worker,     \* the worker object: running, told to stop, or freed
  pc,         \* where the worker's thread is in its Run
  arrivals    \* packets that have arrived for a session

vars == <<logins, game, refs, life, destroyer, worker, pc, arrivals>>

Init ==
  /\ logins = 0 /\ game = "idle"
  /\ refs = [s \in Sessions |-> {}]
  /\ life = [s \in Sessions |-> "none"]
  /\ destroyer = [s \in Sessions |-> "game"]
  /\ worker = [s \in Sessions |-> [t \in Workers |-> "none"]]
  /\ pc = [s \in Sessions |-> [t \in Workers |-> "none"]]
  /\ arrivals = [s \in Sessions |-> 0]

-----------------------------------------------------------------------------
(* References. *)

\* Mutant: Run hands its workers a TSharedPtr made from this instead of
\* AsShared(), and the two have reference counts of their own.
Last_OwnCount(s, t) == refs[s] \cap (IF t = "game" THEN {"game"} ELSE Workers) = {t}

\* Whether thread t holds the last reference to s.
Last(s, t) == refs[s] = {t}

\* Mutant: a session nobody holds is kept by a cycle.
LifeWithout_Leak(s, t) == IF Last(s, t) THEN "leaked" ELSE life[s]

\* What the life of s is when t lets go of it.
LifeWithout(s, t) == IF Last(s, t) THEN "disconnecting" ELSE life[s]

\* A weak pointer yields a reference as long as there is another one.
CanPin(s) == refs[s] # {}

-----------------------------------------------------------------------------
(* ~PacketSession, on the thread that let go last: Disconnect stops and frees *)
(* one worker after the other, then the queues and the object go.             *)

At(s, t, from, to) ==
  /\ life[s] = from /\ destroyer[s] = t /\ life' = [life EXCEPT ![s] = to]

SetWorker(s, t, state) == worker' = [worker EXCEPT ![s][t] = state]

\* RecvWorkerThread->Destroy()
StopRecv(s, t)  == At(s, t, "disconnecting", "recvTold") /\ SetWorker(s, "recv", "told")
\* RecvWorkerThread = nullptr, the only reference to the worker.
FreeRecv(s, t)  == At(s, t, "recvTold", "recvFreed") /\ SetWorker(s, "recv", "freed")
StopSend(s, t)  == At(s, t, "recvFreed", "sendTold") /\ SetWorker(s, "send", "told")
FreeSend(s, t)  == At(s, t, "sendTold", "sendFreed") /\ SetWorker(s, "send", "freed")

DisconnectStep(s, t) ==
  /\ StopRecv(s, t) \/ FreeRecv(s, t) \/ StopSend(s, t) \/ FreeSend(s, t)
  /\ UNCHANGED <<logins, game, refs, destroyer, pc, arrivals>>

\* The destructor returns to where the reference was let go.
Freed(s, t) ==
  /\ At(s, t, "sendFreed", "freed")
  /\ IF t = "game"
     THEN game' = (IF s = logins THEN "over" ELSE "startRecv") /\ UNCHANGED pc
     ELSE pc' = [pc EXCEPT ![s][t] = "check"] /\ UNCHANGED game
  /\ UNCHANGED <<logins, refs, destroyer, worker, arrivals>>

Destructor(s, t) == DisconnectStep(s, t) \/ Freed(s, t)

-----------------------------------------------------------------------------
(* The game thread. *)

\* ConnectToGameServer: MakeShared<PacketSession>, which GameServerSession then
\* names instead of the session of the login before.
Connect ==
  /\ game = "idle" /\ logins < MaxSessions
  /\ logins' = logins + 1
  /\ LET new == logins + 1
         old == logins IN
     IF old = 0
     THEN /\ refs' = [refs EXCEPT ![new] = {"game"}]
          /\ life' = [life EXCEPT ![new] = "alive"]
          /\ game' = "startRecv" /\ UNCHANGED destroyer
     ELSE /\ refs' = [refs EXCEPT ![new] = {"game"}, ![old] = @ \ {"game"}]
          /\ life' = [life EXCEPT ![new] = "alive", ![old] = LifeWithout(old, "game")]
          /\ IF Last(old, "game")
             THEN game' = "destroying" /\ destroyer' = [destroyer EXCEPT ![old] = "game"]
             ELSE game' = "startRecv" /\ UNCHANGED destroyer
  /\ UNCHANGED <<worker, pc, arrivals>>

\* PacketSession::Run: each worker's constructor starts its thread.
Start(t, next) ==
  /\ SetWorker(logins, t, "running")
  /\ pc' = [pc EXCEPT ![logins][t] = "check"]
  /\ game' = next
  /\ UNCHANGED <<logins, refs, life, destroyer, arrivals>>

StartRecv == game = "startRecv" /\ Start("recv", "startSend")
StartSend == game = "startSend" /\ Start("send", "idle")

\* GameServerSession goes with the game instance.
GameOver ==
  /\ game = "idle" /\ logins > 0
  /\ refs' = [refs EXCEPT ![logins] = @ \ {"game"}]
  /\ life' = [life EXCEPT ![logins] = LifeWithout(logins, "game")]
  /\ IF Last(logins, "game")
     THEN game' = "destroying" /\ destroyer' = [destroyer EXCEPT ![logins] = "game"]
     ELSE game' = "over" /\ UNCHANGED destroyer
  /\ UNCHANGED <<logins, worker, pc, arrivals>>

-----------------------------------------------------------------------------
(* The worker threads. *)

Goto(s, t, label) == pc' = [pc EXCEPT ![s][t] = label]

\* while (Running), read from an object that may have been freed: the value
\* Destroy left in it, or whatever the memory is used for by then.
Check(s, t) ==
  /\ pc[s][t] = "check"
  /\ \/ worker[s][t] = "running" /\ Goto(s, t, IF t = "recv" THEN "receive" ELSE "pin")
     \/ worker[s][t] \in {"told", "freed"} /\ Goto(s, t, "stopped")
     \/ worker[s][t] = "freed" /\ Goto(s, t, "wild")
  /\ UNCHANGED <<logins, game, refs, life, destroyer, worker, arrivals>>

\* ReceivePacket, through Socket of the worker object.
Receive(s) ==
  /\ pc[s]["recv"] = "receive"
  /\ \/ worker[s]["recv"] = "freed" /\ Goto(s, "recv", "wild") /\ UNCHANGED arrivals
     \/ worker[s]["recv"] # "freed" /\ Goto(s, "recv", "check") /\ UNCHANGED arrivals
     \/ /\ worker[s]["recv"] # "freed" /\ arrivals[s] < MaxArrivals
        /\ Goto(s, "recv", "pin")
        /\ arrivals' = [arrivals EXCEPT ![s] = @ + 1]
  /\ UNCHANGED <<logins, game, refs, life, destroyer, worker>>

\* Mutant: the worker has a raw pointer to the session.
Pin_Raw(s, t) ==
  /\ pc[s][t] = "pin"
  /\ \/ worker[s][t] = "freed" /\ Goto(s, t, "wild") /\ UNCHANGED refs
     \/ worker[s][t] # "freed" /\ Goto(s, t, "pinned") /\ UNCHANGED refs
  /\ UNCHANGED <<logins, game, life, destroyer, worker, arrivals>>

\* SessionRef.Pin(), SessionRef being in the worker object too.
Pin(s, t) ==
  /\ pc[s][t] = "pin"
  /\ \/ worker[s][t] = "freed" /\ Goto(s, t, "wild") /\ UNCHANGED refs
     \/ /\ worker[s][t] # "freed" /\ CanPin(s)
        /\ Goto(s, t, "pinned") /\ refs' = [refs EXCEPT ![s] = @ \cup {t}]
     \/ /\ worker[s][t] # "freed" /\ ~CanPin(s)
        /\ Goto(s, t, "check") /\ UNCHANGED refs
  /\ UNCHANGED <<logins, game, life, destroyer, worker, arrivals>>

\* Mutant: the SendWorker keeps its reference from one round to the next.
Unpin_Keep(s, t) ==
  /\ pc[s][t] = "pinned" /\ Goto(s, t, "check")
  /\ refs' = IF t = "send" THEN refs ELSE [refs EXCEPT ![s] = @ \ {t}]
  /\ UNCHANGED <<logins, game, life, destroyer, worker, arrivals>>

\* The queue has been used, the reference goes out of scope: the destructor
\* runs here when it was the last one.
Unpin(s, t) ==
  /\ pc[s][t] = "pinned"
  /\ refs' = [refs EXCEPT ![s] = @ \ {t}]
  /\ life' = [life EXCEPT ![s] = LifeWithout(s, t)]
  /\ IF Last(s, t)
     THEN Goto(s, t, "destroying") /\ destroyer' = [destroyer EXCEPT ![s] = t]
     ELSE Goto(s, t, "check") /\ UNCHANGED destroyer
  /\ UNCHANGED <<logins, game, worker, arrivals>>

-----------------------------------------------------------------------------
Game ==
  \/ StartRecv \/ StartSend
  \/ \E s \in Sessions : Destructor(s, "game")

Worker(s, t) ==
  \/ Check(s, t) \/ Pin(s, t) \/ Unpin(s, t) \/ Destructor(s, t)
  \/ t = "recv" /\ Receive(s)

Next ==
  \/ Connect
  \/ GameOver
  \/ Game
  \/ \E s \in Sessions, t \in Workers : Worker(s, t)

SafeSpec == Init /\ [][Next]_vars

\* The operating system runs every thread; a blocked Send or Recv returns.
Spec ==
  /\ SafeSpec /\ WF_vars(Game)
  /\ \A s \in Sessions, t \in Workers : WF_vars(Worker(s, t))

-----------------------------------------------------------------------------
Dying == {"disconnecting", "recvTold", "recvFreed", "sendTold", "sendFreed"}

TypeOK ==
  /\ logins \in 0..MaxSessions
  /\ game \in {"idle", "startRecv", "startSend", "destroying", "over"}
  /\ refs \in [Sessions -> SUBSET Threads]
  /\ life \in [Sessions -> {"none", "alive", "freed"} \cup Dying]
  /\ destroyer \in [Sessions -> Threads]
  /\ worker \in [Sessions -> [Workers -> {"none", "running", "told", "freed"}]]
  /\ pc \in [Sessions -> [Workers ->
       {"none", "check", "receive", "pin", "pinned", "destroying", "stopped", "wild"}]]
  /\ arrivals \in [Sessions -> 0..MaxArrivals]

\* A worker thread that uses the queue of a session keeps the session whole: the
\* game replacing GameServerSession meanwhile does not pull it from under Enqueue,
\* Dequeue and SendPacket.
PinnedAlive ==
  \A s \in Sessions, t \in Workers :
    pc[s][t] = "pinned" => life[s] = "alive"

\* A session is destroyed once, by one thread, after all others have let go.
SoleDestroyer ==
  \A s \in Sessions :
    /\ life[s] \in Dying => refs[s] = {}
    /\ \A t \in Workers :
         (pc[s][t] = "destroying") = (life[s] \in Dying /\ destroyer[s] = t)
    /\ life[s] \in Dying /\ destroyer[s] = "game" => game = "destroying"

\* While the game holds a session and is not just setting it up, both of its
\* workers are there and in their loops, whatever becomes of older sessions: no
\* thread of the current session runs on in a worker that has been freed.
WorkersServe ==
  (game = "idle" /\ logins > 0) =>
    \A t \in Workers :
      /\ worker[logins][t] = "running"
      /\ pc[logins][t] \in {"check", "receive", "pin", "pinned"}

Abandoned(s) == s < logins \/ (s = logins /\ game = "over")
Ended(s) ==
  life[s] = "freed" /\ \A t \in Workers : pc[s][t] \in {"stopped", "wild"}

\* A session the game has let go of ends, and with it the threads' loops: weak
\* pointers make no cycle with the session that owns the workers.
ReplacedEnds == \A s \in Sessions : (logins >= s /\ Abandoned(s)) ~> Ended(s)

=============================================================================
