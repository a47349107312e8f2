-------------------------- MODULE WifiConnectProofs --------------------------
(***************************************************************************)
(* Proofs about WifiConnect, for any networks, counts and bound of the     *)
(* tokens.                                                                 *)
(*                                                                         *)
(* The running flag is up only while the worker with the current token is  *)
(* at work, or while the page is in a critical piece of code: it starts    *)
(* that worker, or is about to take the flag down.  To keep that, a token  *)
(* that has not been given out must have no worker, and a cancellation     *)
(* must have a token left: while the page waits, the bound is not reached. *)
(***************************************************************************)
EXTENDS WifiConnect, TLAPS

Places == {"none", "test", "ask", "save", "succeed", "clear", "sleep", "last",
           "restore", "fail", "done"}

\* An attempt has got its token and not yet its worker.
Starting == ui \in {"announce", "arm", "spawn"}

Fresh ==
    \A t \in Tokens : t > generation \/ (t = generation /\ Starting) => worker[t] = "none"

Counted ==
    \A t \in Tokens :
        /\ worker[t] = "none" => tries[t] = 0
        /\ worker[t] \in {"test", "ask", "sleep"} => tries[t] < Attempts

Given ==
    /\ Starting => generation \in Tokens
    /\ connecting => generation < MaxTokens

Owned ==
    running =>
        \/ ui \in {"spawn", "failing", "leaving"}
        \/ /\ ui = "idle"
           /\ generation \in Tokens
           /\ worker[generation] \notin Ended

IInv == TypeOK /\ Fresh /\ Counted /\ Given /\ Owned

----------------------------------------------------------------------------
LEMMA Numbers ==
    /\ Attempts \in Nat \ {0} /\ MinTicks \in Nat /\ MaxTicks \in Nat
    /\ GiveUpTicks \in Nat /\ MaxTokens \in Nat
    /\ NoNetwork \notin Networks /\ Home \in Networks
  BY WifiAssumption

LEMMA InitGood == Init => IInv
<1>. SUFFICES ASSUME Init PROVE IInv
  OBVIOUS
<1>1. TypeOK
  <2>1. 0 \in 0 .. MaxTicks + 1 /\ 0 \in 0 .. MaxTokens /\ 0 \in 0 .. Attempts
    BY Numbers
  <2>. QED
    BY <2>1, Numbers, ZenonT(30) DEF Init, TypeOK, Maybe
<1>2. Fresh /\ Counted /\ Given /\ Owned
  BY Numbers DEF Init, Fresh, Counted, Given, Owned, Starting, Tokens
<1>. QED
  BY <1>1, <1>2 DEF IInv

----------------------------------------------------------------------------
\* The page.
LEMMA ConnectGood ==
    ASSUME IInv, NEW n \in Networks, Connect(n)
    PROVE  IInv'
<1>. USE DEF IInv
<1>1. /\ UNCHANGED <<ticks, result, running, worker, tries, tmp, saved, loaded, up>>
      /\ ui = "idle" /\ generation + 1 < MaxTokens /\ asked' = n /\ connecting' = TRUE
      /\ setup' \in {"write", "lost", setup}
      /\ \/ UNCHANGED <<ui, generation>>
         \/ generation' = generation + 1 /\ ui' = "announce" /\ ~running
         \/ generation' = generation /\ ui' = "noworker" /\ ~running
  BY DEF Connect, workers, station
<1>2. generation \in Nat /\ generation' \in 0 .. MaxTokens /\ generation' < MaxTokens
      /\ (generation' = generation \/ generation' = generation + 1)
  BY <1>1, Numbers DEF TypeOK
<1>3. TypeOK'
  BY <1>1, <1>2 DEF TypeOK, Maybe
<1>4. Fresh'
  <2>1. ASSUME NEW t \in Tokens, t > generation' \/ (t = generation' /\ Starting')
        PROVE  t > generation
    BY <1>1, <1>2, <2>1, Numbers DEF Starting, Tokens
  <2>. QED
    BY <1>1, <2>1 DEF Fresh
<1>5. Counted'
  BY <1>1 DEF Counted
<1>6. Given'
  BY <1>1, <1>2, Numbers DEF Given, Starting, Tokens
<1>7. Owned'
  BY <1>1 DEF Owned
<1>. QED
  BY <1>3, <1>4, <1>5, <1>6, <1>7

LEMMA PageGood ==
    ASSUME IInv, Page
    PROVE  IInv'
<1>. USE DEF IInv
<1>1. ASSUME Announce \/ Arm \/ SpawnFails \/ NoWorker \/ CancelResult
             \/ CancelRunning("failing", "cancelled") \/ CancelRunning("leaving", "left")
      PROVE  IInv'
  <2>1. UNCHANGED <<asked, connecting, ticks, generation, worker, tries, setup, tmp,
                    saved, loaded, up>>
    BY <1>1 DEF Announce, Arm, SpawnFails, NoWorker, CancelResult, CancelRunning,
                workers, station
  <2>2. TypeOK'
    BY <1>1, <2>1 DEF TypeOK, Announce, Arm, SpawnFails, NoWorker, CancelResult,
                      CancelRunning
  <2>3. Starting' => Starting
    BY <1>1 DEF Starting, Announce, Arm, SpawnFails, NoWorker, CancelResult,
                CancelRunning
  <2>4. Fresh' /\ Counted' /\ Given'
    BY <2>1, <2>3 DEF Fresh, Counted, Given
  <2>5. Owned'
    BY <1>1, <2>1 DEF Owned, Announce, Arm, SpawnFails, NoWorker, CancelResult,
                      CancelRunning
  <2>. QED
    BY <2>2, <2>4, <2>5
<1>2. CASE Spawn
  <2>1. /\ UNCHANGED <<asked, connecting, ticks, result, running, generation, tries,
                       setup, tmp, saved, loaded, up>>
        /\ ui = "spawn" /\ ui' = "idle"
        /\ worker' = [worker EXCEPT ![generation] = "test"]
    BY <1>2 DEF Spawn, check, station
  <2>2. generation \in Tokens /\ worker[generation] = "none" /\ tries[generation] = 0
    BY <2>1 DEF Given, Fresh, Starting, Counted
  <2>3. worker'[generation] = "test"
        /\ \A t \in Tokens : t # generation => worker'[t] = worker[t]
    BY <2>1, <2>2 DEF TypeOK
  <2>4. TypeOK'
    BY <2>1 DEF TypeOK
  <2>5. Fresh' /\ Given'
    BY <2>1, <2>2, <2>3, Numbers DEF Fresh, Given, Starting, Tokens
  <2>6. Counted'
    BY <2>1, <2>2, <2>3, Numbers DEF Counted
  <2>7. Owned'
    BY <2>1, <2>2, <2>3 DEF Owned, Ended
  <2>. QED
    BY <2>4, <2>5, <2>6, <2>7
<1>3. CASE LeaveRestore
  <2>1. /\ UNCHANGED <<asked, connecting, ticks, running, generation, worker, tries,
                       setup, saved>>
        /\ ui = "left" /\ ui' = "idle" /\ result' = "idle" /\ tmp' = NoNetwork
        /\ loaded' = saved /\ up' = FALSE
    BY <1>3 DEF LeaveRestore, Restarted, workers
  <2>2. TypeOK'
    BY <2>1 DEF TypeOK, Maybe
  <2>3. Fresh' /\ Counted' /\ Given' /\ Owned'
    BY <2>1 DEF Fresh, Counted, Given, Owned, Starting
  <2>. QED
    BY <2>2, <2>3
<1>. QED
  BY <1>1, <1>2, <1>3 DEF Page

\* A cancellation uses one token: those above it were not given out either.
LEMMA CancelGood ==
    ASSUME IInv, Leave \/ TickFails
    PROVE  IInv'
<1>. USE DEF IInv
<1>1. /\ UNCHANGED <<asked, result, running, worker, tries, setup, tmp, saved, loaded, up>>
      /\ connecting /\ connecting' = FALSE
      /\ generation' = generation + 1 /\ ui' \in {"leaving", "failing"}
      /\ ticks' \in {ticks, 0}
  BY DEF Leave, TickFails, Cancel, workers, station
<1>2. generation \in Nat /\ generation' \in 0 .. MaxTokens
  BY <1>1, Numbers DEF TypeOK, Given
<1>3. TypeOK'
  <2>1. ticks' \in 0 .. MaxTicks + 1
    BY <1>1, Numbers DEF TypeOK
  <2>2. ui' \in {"idle", "announce", "arm", "spawn", "noworker", "failing", "cancelled",
                 "leaving", "left"}
    BY <1>1
  <2>. QED
    BY <1>1, <1>2, <2>1, <2>2, ZenonT(30) DEF TypeOK
<1>4. Fresh' /\ Given'
  BY <1>1, <1>2, Numbers DEF Fresh, Given, Starting, Tokens
<1>5. Counted' /\ Owned'
  BY <1>1 DEF Counted, Owned
<1>. QED
  BY <1>3, <1>4, <1>5

LEMMA TickGood ==
    ASSUME IInv, TickCounts
    PROVE  IInv'
<1>. USE DEF IInv
<1>1. /\ UNCHANGED <<ui, asked, result, running, generation, worker, tries, setup, tmp,
                     saved, loaded, up>>
      /\ connecting /\ connecting' \in BOOLEAN
      /\ ticks <= MaxTicks /\ ticks' \in {0, ticks + 1}
  BY DEF TickCounts, check, workers, station
<1>2. TypeOK'
  <2>1. ticks' \in 0 .. MaxTicks + 1
    BY <1>1, Numbers DEF TypeOK
  <2>. QED
    BY <1>1, <2>1 DEF TypeOK
<1>3. Fresh' /\ Counted' /\ Given' /\ Owned'
  BY <1>1 DEF Fresh, Counted, Given, Owned, Starting
<1>. QED
  BY <1>2, <1>3

----------------------------------------------------------------------------
\* A worker.  Its own end is the only way it can take its owner's place away:
\* it ends after it has lowered the flag, when it found it down, or when its
\* token is no longer the current one.
LEMMA WorkerGood ==
    ASSUME IInv, NEW t \in Tokens, Worker(t)
    PROVE  IInv'
<1>. USE DEF IInv
<1>1. UNCHANGED <<ui, asked, connecting, ticks, generation, setup>>
  BY DEF Worker, Test, Ask, Save, Succeed, Clear, Sleep, TestLast, Restore, Fail, page,
         check
<1>2. /\ worker[t] \notin {"none", "done"} /\ worker'[t] \in Places \ {"none"}
      /\ worker' \in [Tokens -> Places]
      /\ \A u \in Tokens : u # t => worker'[u] = worker[u]
  BY DEF Worker, Test, Ask, Save, Succeed, Clear, Sleep, TestLast, Restore, Fail, Goto,
         TypeOK, Places
<1>3. /\ tries' \in [Tokens -> 0 .. Attempts]
      /\ \A u \in Tokens : u # t => tries'[u] = tries[u]
      /\ worker'[t] \in {"test", "ask", "sleep"} => tries'[t] < Attempts
  <2>1. CASE Sleep(t)
    <3>1. /\ worker[t] = "sleep" /\ tries' = [tries EXCEPT ![t] = tries[t] + 1]
          /\ worker'[t] = IF tries[t] + 1 < Attempts THEN "test" ELSE "last"
      BY <2>1 DEF Sleep, Goto, TypeOK
    <3>2. tries[t] < Attempts /\ tries[t] \in Nat
      BY <3>1, Numbers DEF Counted, TypeOK
    <3>3. tries[t] + 1 \in 0 .. Attempts
      BY <3>2, Numbers
    <3>4. tries'[t] = tries[t] + 1
      BY <3>1 DEF TypeOK
    <3>. QED
      BY <3>1, <3>3, <3>4 DEF TypeOK
  <2>2. CASE ~Sleep(t)
    <3>1. tries' = tries
      BY <2>2 DEF Worker, Test, Ask, Save, Succeed, Clear, TestLast, Restore, Fail, workers
    <3>2. worker'[t] \in {"test", "ask", "sleep"} => worker[t] \in {"test", "ask", "sleep"}
      BY <2>2 DEF Worker, Test, Ask, Save, Succeed, Clear, TestLast, Restore, Fail, Goto,
                  TypeOK
    <3>. QED
      BY <3>1, <3>2 DEF TypeOK, Counted
  <2>. QED
    BY <2>1, <2>2
<1>4. /\ result' \in {result, "success", "fail"} /\ running' \in {running, FALSE}
      /\ tmp' \in {tmp, NoNetwork} /\ up' \in {up, FALSE}
      /\ saved' \in {saved, tmp} /\ (saved' # saved => tmp # NoNetwork)
      /\ loaded' \in {loaded, saved}
  BY DEF Worker, Test, Ask, Save, Succeed, Clear, Sleep, TestLast, Restore, Fail, check,
         station, Restarted
<1>5. TypeOK'
  <2>1. result' \in {"idle", "running", "success", "fail"} /\ running' \in BOOLEAN
    BY <1>4 DEF TypeOK
  <2>2. tmp' \in Maybe /\ loaded' \in Maybe /\ up' \in BOOLEAN
    BY <1>4 DEF TypeOK, Maybe
  <2>3. saved' \in Networks
    BY <1>4 DEF TypeOK, Maybe
  <2>. QED
    BY <1>1, <1>2, <1>3, <2>1, <2>2, <2>3, ZenonT(30) DEF TypeOK, Places
<1>6. Fresh' /\ Given'
  BY <1>1, <1>2 DEF Fresh, Given, Starting
<1>7. Counted'
  BY <1>2, <1>3 DEF Counted
<1>8. worker'[t] = "done" => ~running' \/ t # generation
  BY DEF Worker, Test, Ask, Save, Succeed, Clear, Sleep, TestLast, Restore, Fail, Goto,
         TypeOK, Wanted, check
<1>9. Owned'
  BY <1>1, <1>2, <1>4, <1>8 DEF Owned, Ended
<1>. QED
  BY <1>5, <1>6, <1>7, <1>9

\* The other thread and the radio touch nothing the flag depends on.
LEMMA StationGood ==
    ASSUME IInv, Setup \/ Associate
    PROVE  IInv'
<1>. USE DEF IInv
<1>1. UNCHANGED <<ui, asked, connecting, ticks, result, running, generation, worker,
                  tries, saved>>
  BY DEF Setup, SetupWrite, SetupKill, SetupStart, Associate, page, check, workers
<1>2. TypeOK'
  <2>1. /\ setup' \in {"none", "write", "kill", "start", "lost"}
        /\ tmp' \in Maybe
    BY DEF Setup, SetupWrite, SetupKill, SetupStart, Associate, TypeOK
  <2>2. loaded' \in Maybe
    BY DEF Setup, SetupWrite, SetupKill, SetupStart, Associate, Restarted, TypeOK, Maybe
  <2>3. up' \in BOOLEAN
    BY DEF Setup, SetupWrite, SetupKill, SetupStart, Associate, Restarted, TypeOK
  <2>. QED
    BY <1>1, <2>1, <2>2, <2>3, ZenonT(30) DEF TypeOK
<1>3. Fresh' /\ Counted' /\ Given' /\ Owned'
  BY <1>1 DEF Fresh, Counted, Given, Owned, Starting
<1>. QED
  BY <1>2, <1>3

----------------------------------------------------------------------------
\* The running flag always has an owner.
THEOREM AlwaysOwned == Spec => []IInv
<1>1. Init => IInv
  BY InitGood
<1>2. IInv /\ [Next]_vars => IInv'
  <2>. SUFFICES ASSUME IInv, [Next]_vars PROVE IInv'
    OBVIOUS
  <2>1. CASE UNCHANGED vars
    <3>1. UNCHANGED <<ui, asked, connecting, ticks, result, running, generation, worker,
                      tries, setup, tmp, saved, loaded, up>>
      BY <2>1 DEF vars, page, check, workers, station
    <3>. QED
      BY <3>1 DEF IInv, TypeOK, Fresh, Counted, Given, Owned, Starting
  <2>2. CASE Next
    BY <2>2, ConnectGood, PageGood, CancelGood, TickGood, WorkerGood, StationGood
       DEF Next, Timer
  <2>. QED
    BY <2>1, <2>2
<1>. QED
  BY <1>1, <1>2, PTL DEF Spec

\* The variables have their types: tokens and attempts keep within their
\* bounds, and what is saved is always a network somebody entered.
THEOREM TypeCorrect == Spec => []TypeOK
<1>1. IInv => TypeOK
  BY DEF IInv
<1>. QED
  BY <1>1, AlwaysOwned, PTL

\* The flag that makes the next attempt be refused belongs to a worker that
\* will take it down.
THEOREM FlagHasWorker == Spec => []RunningHasWorker
<1>1. IInv => RunningHasWorker
  BY DEF IInv, Owned, RunningHasWorker
<1>. QED
  BY <1>1, AlwaysOwned, PTL

----------------------------------------------------------------------------
\* What the token is for, where it is enough.  A worker that is at work, until
\* it has published, is that of the attempt the page waits for, and nothing
\* else publishes meanwhile: so the page cannot come to a failure, and a new
\* attempt, before the worker has.  Only a leave breaks this.

AtWork(t) == worker[t] \notin {"none", "clear", "done"}

Sole ==
    /\ \A t \in Tokens : AtWork(t) =>
          t = generation /\ connecting /\ result = "running" /\ ui = "idle"
    /\ Starting => connecting
    /\ ui \in {"arm", "spawn"} => result = "running"

LEMMA SoleOutside ==
    ASSUME IInv, Sole, \/ \E n \in Networks : Connect(n)
                       \/ Page \/ Timer \/ Setup \/ Associate
    PROVE  Sole'
<1>1. ASSUME NEW n \in Networks, Connect(n) PROVE Sole'
  <2>1. \A t \in Tokens : ~AtWork(t)
    BY <1>1 DEF Connect, Sole
  <2>. QED
    BY <1>1, <2>1 DEF Connect, Sole, AtWork, Starting, workers
<1>2. ASSUME Announce \/ Arm \/ SpawnFails \/ NoWorker \/ CancelResult \/ LeaveRestore
             \/ CancelRunning("failing", "cancelled") \/ CancelRunning("leaving", "left")
      PROVE  Sole'
  <2>1. \A t \in Tokens : ~AtWork(t)
    BY <1>2 DEF Announce, Arm, SpawnFails, NoWorker, CancelResult, LeaveRestore,
                CancelRunning, Sole
  <2>. QED
    BY <1>2, <2>1 DEF Announce, Arm, SpawnFails, NoWorker, CancelResult, LeaveRestore,
                      CancelRunning, Sole, AtWork, Starting, workers
<1>3. CASE Spawn
  <2>1. /\ UNCHANGED <<connecting, result, generation>>
        /\ ui = "spawn" /\ ui' = "idle" /\ worker' = [worker EXCEPT ![generation] = "test"]
    BY <1>3 DEF Spawn, check
  <2>2. \A t \in Tokens : t # generation => ~AtWork(t) /\ worker'[t] = worker[t]
    BY <2>1 DEF Sole, IInv, TypeOK
  <2>. QED
    BY <2>1, <2>2 DEF Sole, AtWork, Starting
<1>4. CASE TickCounts
  <2>1. \/ UNCHANGED <<ui, result, generation, worker, connecting>>
        \/ result = "success" /\ UNCHANGED <<ui, result, generation, worker>>
    BY <1>4 DEF TickCounts, check, workers
  <2>. QED
    BY <1>4, <2>1 DEF TickCounts, Sole, AtWork, Starting
<1>5. CASE TickFails
  <2>1. result = "fail"
    BY <1>5, WifiAssumption DEF TickFails, IInv, TypeOK
  <2>. QED
    BY <1>5, <2>1 DEF TickFails, Cancel, Sole, AtWork, Starting, workers
<1>6. CASE Setup \/ Associate
  BY <1>6 DEF Setup, SetupWrite, SetupKill, SetupStart, Associate, Sole, AtWork, Starting,
              page, check, workers
<1>. QED
  BY <1>1, <1>2, <1>3, <1>4, <1>5, <1>6 DEF Page, Timer

LEMMA SoleWorker ==
    ASSUME IInv, Sole, NEW t \in Tokens, Worker(t)
    PROVE  Sole'
<1>1. UNCHANGED <<ui, connecting, generation>>
  BY DEF Worker, Test, Ask, Save, Succeed, Clear, Sleep, TestLast, Restore, Fail, page,
         check
<1>2. \A u \in Tokens : u # t => worker'[u] = worker[u]
  BY DEF Worker, Test, Ask, Save, Succeed, Clear, Sleep, TestLast, Restore, Fail, Goto, IInv,
         TypeOK
<1>3. CASE Clear(t) \/ ~AtWork(t)
  <2>1. Clear(t)
    BY <1>3 DEF Worker, Test, Ask, Save, Succeed, Sleep, TestLast, Restore, Fail, Goto, AtWork
  <2>2. worker'[t] = "done" /\ result' = result
    BY <2>1 DEF Clear, Goto, IInv, TypeOK
  <2>. QED
    BY <1>1, <1>2, <2>2 DEF Sole, AtWork, Starting
<1>4. CASE ~Clear(t) /\ AtWork(t)
  <2>1. /\ \A u \in Tokens : u # t => ~AtWork(u)
        /\ t = generation /\ connecting /\ result = "running" /\ ui = "idle"
    BY <1>4 DEF Sole
  <2>2. result' = result \/ worker'[t] = "clear"
    BY <1>4 DEF Worker, Test, Ask, Save, Succeed, Sleep, TestLast, Restore, Fail, Goto, IInv,
                TypeOK, check
  <2>. QED
    BY <1>1, <1>2, <2>1, <2>2 DEF Sole, AtWork, Starting
<1>. QED
  BY <1>3, <1>4

LEMMA SoleInit == Init => Sole
  BY DEF Init, Sole, AtWork, Starting

LEMMA SoleStep == IInv /\ Sole /\ [Next]_vars /\ [~Leave]_vars => Sole'
<1>. SUFFICES ASSUME IInv, Sole, [Next]_vars, [~Leave]_vars PROVE Sole'
  OBVIOUS
<1>1. CASE UNCHANGED vars
  BY <1>1 DEF vars, page, check, workers, Sole, AtWork, Starting
<1>2. CASE Next /\ ~Leave
  BY <1>2, SoleOutside, SoleWorker DEF Next
<1>. QED
  BY <1>1, <1>2

\* As long as nobody leaves the page while it waits, no attempt is taken for
\* another, for any networks and counts and however often an attempt fails and
\* the next is made: what the run of NotConfused finds needs a leave.
THEOREM OnlyLeavesConfuse == Spec /\ [][~Leave]_vars => NotConfused
<1>1. Sole => [\A t \in Tokens :
                  /\ connecting
                  /\ worker[t] \in {"succeed", "fail"}
                  /\ worker'[t] = "clear"
                  => t = generation]_vars
  BY DEF Sole, AtWork
<1>. QED
  BY <1>1, SoleInit, SoleStep, AlwaysOwned, PTL DEF Spec, NotConfused

----------------------------------------------------------------------------
\* What else the violated properties need.  A worker is early when it asks, and
\* hears that the station is connected, before the setup thread has stopped the
\* wpa_supplicant of the old network.

Early == \E t \in Tokens : Ask(t) /\ up /\ setup \in {"write", "kill"}

\* When no worker is early, what it asks about is the network of the temporary
\* configuration: the setup thread leaves the station with that one, and a
\* worker that is about to save has found it connected.
Settled ==
    /\ saved \in Reachable
    /\ up => loaded \in Reachable
    /\ setup \in {"none", "lost"} => tmp \in {NoNetwork, loaded}
    /\ setup = "start" => tmp = NoNetwork \/ loaded = NoNetwork
    /\ \A t \in Tokens : worker[t] = "save" =>
          setup \notin {"write", "kill"} /\ tmp \in Reachable \cup {NoNetwork}

\* Nobody makes an attempt while a worker is about to save.
LEMMA SettledPage ==
    ASSUME IInv, Sole, Settled, \/ \E n \in Networks : Connect(n)
                                \/ Page \/ Timer
    PROVE  Settled'
<1>1. ASSUME NEW n \in Networks, Connect(n) PROVE Settled'
  <2>1. \A t \in Tokens : worker[t] # "save"
    BY <1>1 DEF Connect, Sole, AtWork
  <2>2. /\ UNCHANGED <<worker, tmp, saved, loaded, up>>
        /\ setup' \in {"write", "lost"} \/ setup' = setup
        /\ setup' = "lost" => setup \in {"none", "lost"}
    BY <1>1 DEF Connect, workers, station
  <2>. QED
    BY <2>1, <2>2 DEF Settled
<1>2. CASE LeaveRestore
  <2>1. /\ UNCHANGED <<worker, setup, saved>>
        /\ tmp' = NoNetwork /\ loaded' = saved /\ up' = FALSE
    BY <1>2 DEF LeaveRestore, Restarted, workers
  <2>. QED
    BY <2>1 DEF Settled
<1>3. CASE Spawn
  <2>1. /\ UNCHANGED <<setup, tmp, saved, loaded, up>>
        /\ \A t \in Tokens : worker'[t] = "save" => worker[t] = "save"
    BY <1>3 DEF Spawn, station, IInv, TypeOK
  <2>. QED
    BY <2>1 DEF Settled
<1>4. CASE \/ Announce \/ Arm \/ SpawnFails \/ NoWorker \/ CancelResult \/ Timer
           \/ CancelRunning("failing", "cancelled") \/ CancelRunning("leaving", "left")
  <2>1. UNCHANGED <<worker, setup, tmp, saved, loaded, up>>
    BY <1>4 DEF Announce, Arm, SpawnFails, NoWorker, CancelResult, CancelRunning, Timer,
                TickCounts, TickFails, workers, station
  <2>. QED
    BY <2>1 DEF Settled
<1>. QED
  BY <1>1, <1>2, <1>3, <1>4 DEF Page

LEMMA SettledStation ==
    ASSUME IInv, Settled, Setup \/ Associate
    PROVE  Settled'
<1>1. UNCHANGED <<worker, saved>>
  BY DEF Setup, SetupWrite, SetupKill, SetupStart, Associate, check, workers
<1>2. NoNetwork \notin Reachable
  BY WifiAssumption
<1>3. CASE SetupWrite
  BY <1>1, <1>3 DEF SetupWrite, Settled
<1>4. CASE SetupKill
  BY <1>1, <1>4 DEF SetupKill, Restarted, Settled
<1>5. CASE SetupStart
  BY <1>1, <1>2, <1>5 DEF SetupStart, Restarted, Settled
<1>6. CASE Associate
  BY <1>1, <1>6 DEF Associate, Settled
<1>. QED
  BY <1>3, <1>4, <1>5, <1>6 DEF Setup

\* While one worker is about to save no other does anything.
LEMMA SettledWorker ==
    ASSUME IInv, Sole, Settled, NEW t \in Tokens, Worker(t), ~Early
    PROVE  Settled'
<1>1. /\ setup' = setup
      /\ \A u \in Tokens : u # t => worker'[u] = worker[u]
  BY DEF Worker, Test, Ask, Save, Succeed, Clear, Sleep, TestLast, Restore, Fail, Goto, IInv,
         TypeOK
<1>2. CASE Ask(t)
  <2>1. UNCHANGED <<tmp, saved, loaded, up>>
    BY <1>2 DEF Ask, station
  <2>2. worker'[t] = "save" => up /\ setup \notin {"write", "kill"}
    BY <1>2 DEF Ask, Goto, Early, IInv, TypeOK
  <2>3. worker'[t] = "save" => tmp \in Reachable \cup {NoNetwork}
    <3>1. NoNetwork \notin Reachable
      BY WifiAssumption
    <3>. QED
      BY <2>2, <3>1 DEF Settled, IInv, TypeOK
  <2>. QED
    BY <1>1, <2>1, <2>2, <2>3 DEF Settled
<1>3. CASE Save(t)
  <2>1. /\ worker[t] = "save" /\ worker'[t] = "succeed"
        /\ UNCHANGED <<tmp, loaded, up>>
        /\ saved' = IF tmp = NoNetwork THEN saved ELSE tmp
    BY <1>3 DEF Save, Goto, IInv, TypeOK
  <2>. QED
    BY <1>1, <2>1 DEF Settled
<1>4. CASE Restore(t)
  <2>1. /\ worker'[t] = "fail" /\ saved' = saved
        /\ tmp' = NoNetwork /\ loaded' = saved /\ up' = FALSE
    BY <1>4 DEF Restore, Restarted, Goto, IInv, TypeOK
  <2>. QED
    BY <1>1, <2>1 DEF Settled
<1>5. CASE Test(t) \/ Succeed(t) \/ Clear(t) \/ Sleep(t) \/ TestLast(t) \/ Fail(t)
  <2>1. UNCHANGED <<tmp, saved, loaded, up>> /\ worker'[t] # "save"
    BY <1>5 DEF Test, Succeed, Clear, Sleep, TestLast, Fail, Goto, station, IInv, TypeOK
  <2>. QED
    BY <1>1, <2>1 DEF Settled
<1>. QED
  BY <1>2, <1>3, <1>4, <1>5 DEF Worker

\* The other way round, the order that the plan takes for granted is enough:
\* if workers ask only after the old wpa_supplicant was stopped, and nobody
\* leaves the page, then a network is saved only if the station was connected
\* with it, for any networks and counts, lost setup threads included.
THEOREM OnlyEarlySavesUntried ==
    Spec /\ [][~Leave]_vars /\ [][~Early]_vars => []SavesWhatConnects
<1>1. Init => Settled
  BY WifiAssumption DEF Init, Settled
<1>2. IInv /\ Sole /\ Settled /\ [Next]_vars /\ [~Leave]_vars /\ [~Early]_vars => Settled'
  <2>. SUFFICES ASSUME IInv, Sole, Settled, [Next]_vars, [~Leave]_vars, [~Early]_vars
                PROVE  Settled'
    OBVIOUS
  <2>1. CASE UNCHANGED vars
    <3>1. UNCHANGED <<worker, setup, tmp, saved, loaded, up>>
      BY <2>1 DEF vars, workers, station
    <3>. QED
      BY <3>1 DEF Settled
  <2>2. CASE Next /\ ~Leave /\ ~Early
    BY <2>2, SettledPage, SettledStation, SettledWorker DEF Next
  <2>. QED
    BY <2>1, <2>2
<1>3. Settled => SavesWhatConnects
  BY DEF Settled, SavesWhatConnects
<1>. QED
  BY <1>1, <1>2, <1>3, SoleInit, SoleStep, AlwaysOwned, PTL DEF Spec

----------------------------------------------------------------------------
\* And what the run of DialogEnds finds is all there is: the limit the page
\* gives up at is never reached, and a success that comes after MaxTicks is
\* looked at no more.

Late == ui = "idle" /\ connecting /\ ticks > MaxTicks /\ result = "success"

\* Once a success is late the dialog covers the page until something else leaves
\* it, for any counts with MaxTicks < GiveUpTicks: no step of the page, of the
\* timer or of a worker takes it down.
THEOREM LateDialogStays ==
    Spec /\ [][~Leave]_vars => [](Late => []connecting)
<1>1. ASSUME IInv, Sole, Late, [Next]_vars, [~Leave]_vars PROVE Late'
  <2>1. \A t \in Tokens : ~AtWork(t)
    BY <1>1 DEF Late, Sole
  <2>2. ~(ticks > GiveUpTicks)
    BY <1>1, Numbers, WifiAssumption DEF IInv, TypeOK
  <2>3. CASE UNCHANGED vars
    BY <1>1, <2>3 DEF vars, page, check, Late
  <2>4. ASSUME NEW n \in Networks, Connect(n) PROVE Late'
    BY <1>1, <2>4 DEF Connect, Late
  <2>5. CASE Page
    BY <1>1, <2>5 DEF Page, Announce, Arm, Spawn, SpawnFails, NoWorker, CancelRunning,
                      CancelResult, LeaveRestore, Late
  <2>6. ~Timer
    <3>1. ~(ticks <= MaxTicks)
      BY <1>1, Numbers DEF Late, IInv, TypeOK
    <3>. QED
      BY <1>1, <2>2, <3>1 DEF Timer, TickCounts, TickFails, Late
  <2>7. ASSUME NEW t \in Tokens, Worker(t) PROVE Late'
    <3>1. Clear(t)
      BY <2>1, <2>7 DEF Worker, Test, Ask, Save, Succeed, Sleep, TestLast, Restore, Fail,
                        Goto, AtWork
    <3>. QED
      BY <1>1, <3>1 DEF Clear, page, Late
  <2>8. CASE Setup \/ Associate
    BY <1>1, <2>8 DEF Setup, SetupWrite, SetupKill, SetupStart, Associate, page, check, Late
  <2>. QED
    BY <1>1, <2>3, <2>4, <2>5, <2>6, <2>7, <2>8 DEF Next
<1>2. IInv /\ Sole /\ Late /\ [Next]_vars /\ [~Leave]_vars => Late'
  BY <1>1
<1>3. Late => connecting
  BY DEF Late
<1>. QED
  BY <1>2, <1>3, SoleInit, SoleStep, AlwaysOwned, PTL DEF Spec

==============================================================================
