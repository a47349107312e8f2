----------------------------- MODULE WifiConnect -----------------------------
(***************************************************************************)
(* Connecting to another Wi-Fi network (src/src/api/wlan/wlan.c and        *)
(* src/src/layout/layout_connect_wifi.c).  The page starts two detached    *)
(* threads: wpa_cli_connect_wifi restarts wpa_supplicant with the new      *)
(* network, wifi_connection_worker asks wpa_supplicant until the station   *)
(* is connected, saves the new configuration or goes back to the saved     *)
(* one, and publishes what came of it.  A timer of the page looks at that  *)
(* once a second.  A generation token tells a worker that its attempt was  *)
(* cancelled.                                                              *)
(*                                                                         *)
(* The page's code runs in one thread, but the other threads run between   *)
(* its assignments: ui says where it is.  A network stands for the         *)
(* configuration that names it.  The worker's test of the running flag and *)
(* of the token is one step.                                               *)
(***************************************************************************)
EXTENDS Naturals

CONSTANTS
    Networks,       \* configurations a user may enter
    Reachable,      \* those with which a station gets connected
    Home,           \* the one saved at first
    NoNetwork,
    Attempts,       \* 30, how often a worker asks
    MinTicks,       \* 3, MaxTicks 12 and GiveUpTicks 30: counts of the
    MaxTicks,       \* page's timer
    GiveUpTicks,
    MaxTokens,      \* bound: attempts and cancellations together
    Leavable        \* whether anything makes the unit leave the page

ASSUME WifiAssumption ==
    /\ Reachable \subseteq Networks
    /\ Home \in Reachable
    /\ NoNetwork \notin Networks
    /\ {Attempts, MinTicks, MaxTicks, GiveUpTicks, MaxTokens} \subseteq Nat
    /\ Attempts # 0
    /\ MaxTicks < GiveUpTicks
    /\ Leavable \in BOOLEAN

VARIABLES
    ui,             \* where the page's thread is
    asked,          \* connectwifi_name, and the password
    connecting,     \* connect_falge
    ticks,          \* task_timer
    result,         \* wifi_connection_check_result
    running,        \* wifi_connection_check_running
    generation,     \* wifi_connection_check_generation
    worker,         \* pc of the worker with each token
    tries,          \* attempt of each worker
    setup,          \* pc of wpa_cli_connect_wifi, "lost" if it never began
    tmp,            \* /tmp/wpa_supplicant.conf
    saved,          \* WPA_SUPPLICANT_PATH
    loaded,         \* the network wpa_supplicant runs with
    up              \* wpa_state=COMPLETED

page == <<ui, asked, connecting, ticks>>
check == <<result, running, generation>>
workers == <<worker, tries>>
station == <<tmp, saved, loaded, up>>
vars == <<page, check, workers, setup, station>>

Tokens == 1 .. MaxTokens
Maybe == Networks \cup {NoNetwork}

Init ==
    /\ ui = "idle"
    /\ asked = NoNetwork
    /\ connecting = FALSE
    /\ ticks = 0
    /\ result = "idle"
    /\ running = FALSE
    /\ generation = 0
    /\ worker = [t \in Tokens |-> "none"]
    /\ tries = [t \in Tokens |-> 0]
    /\ setup = "none"
    /\ tmp = NoNetwork
    /\ saved = Home
    /\ loaded = Home
    /\ up = TRUE

\* killall wpa_supplicant, and a start with the configuration c.
Restarted(c) == loaded' = c /\ up' = FALSE

----------------------------------------------------------------------------
\* The page.

\* The user confirms: wpa_cli_connect_new_wifi, which does not see whether it
\* got its thread, and wifi_connection_check_start up to the token, or to the
\* malloc that fails.
Connect(n) ==
    /\ ui = "idle"
    /\ ~connecting
    /\ generation + 1 < MaxTokens
    /\ connecting' = TRUE
    /\ asked' = n
    /\ setup' \in IF setup = "none" THEN {"write", "lost"} ELSE {setup}
    /\ IF running
       THEN UNCHANGED <<ui, generation>>
       ELSE \/ /\ generation' = generation + 1
               /\ ui' = "announce"
            \/ ui' = "noworker" /\ UNCHANGED generation
    /\ UNCHANGED <<ticks, result, running, workers, station>>

Announce ==
    /\ ui = "announce"
    /\ result' = "running"
    /\ ui' = "arm"
    /\ UNCHANGED <<asked, connecting, ticks, running, generation, workers, setup,
                   station>>

Arm ==
    /\ ui = "arm"
    /\ running' = TRUE
    /\ ui' = "spawn"
    /\ UNCHANGED <<asked, connecting, ticks, result, generation, workers, setup,
                   station>>

Spawn ==
    /\ ui = "spawn"
    /\ worker' = [worker EXCEPT ![generation] = "test"]
    /\ ui' = "idle"
    /\ UNCHANGED <<asked, connecting, ticks, check, tries, setup, station>>

\* There is no thread to be had.
SpawnFails ==
    /\ ui = "spawn"
    /\ running' = FALSE
    /\ ui' = "noworker"
    /\ UNCHANGED <<asked, connecting, ticks, result, generation, workers, setup,
                   station>>

NoWorker ==
    /\ ui = "noworker"
    /\ result' = "fail"
    /\ ui' = "idle"
    /\ UNCHANGED <<asked, connecting, ticks, running, generation, workers, setup,
                   station>>

\* wifi_connection_check_cancel, in three steps; the second half of a leave
\* goes back to the saved network.
Cancel(next) ==
    /\ generation' = generation + 1
    /\ ui' = next

CancelRunning(from, next) ==
    /\ ui = from
    /\ running' = FALSE
    /\ ui' = next
    /\ UNCHANGED <<asked, connecting, ticks, result, generation, workers, setup,
                   station>>

CancelResult ==
    /\ ui = "cancelled"
    /\ result' = "idle"
    /\ ui' = "idle"
    /\ UNCHANGED <<asked, connecting, ticks, running, generation, workers, setup,
                   station>>

LeaveRestore ==
    /\ ui = "left"
    /\ result' = "idle"
    /\ ui' = "idle"
    /\ tmp' = NoNetwork
    /\ Restarted(saved)
    /\ UNCHANGED <<asked, connecting, ticks, running, generation, workers, setup,
                   saved>>

\* The dialog covers the page, but a call or the standby timer leaves it:
\* close_wifi_connect.
Leave ==
    /\ Leavable
    /\ ui = "idle"
    /\ connecting
    /\ connecting' = FALSE
    /\ Cancel("leaving")
    /\ UNCHANGED <<asked, ticks, result, running, workers, setup, station>>

\* msg_task, once a second.
TickCounts ==
    /\ ui = "idle"
    /\ connecting
    /\ ticks <= MaxTicks
    /\ IF result = "success" /\ ticks + 1 > MinTicks
       THEN connecting' = FALSE /\ ticks' = 0
       ELSE connecting' = connecting /\ ticks' = ticks + 1
    /\ UNCHANGED <<ui, asked, check, workers, setup, station>>

TickFails ==
    /\ ui = "idle"
    /\ connecting
    /\ ticks > MaxTicks
    /\ result = "fail" \/ ticks > GiveUpTicks
    /\ connecting' = FALSE
    /\ ticks' = 0
    /\ Cancel("failing")
    /\ UNCHANGED <<asked, result, running, workers, setup, station>>

Page ==
    \/ Announce
    \/ Arm
    \/ Spawn
    \/ SpawnFails
    \/ NoWorker
    \/ CancelRunning("failing", "cancelled")
    \/ CancelRunning("leaving", "left")
    \/ CancelResult
    \/ LeaveRestore

Timer == TickCounts \/ TickFails

----------------------------------------------------------------------------
\* wifi_connection_worker with token t.

Goto(t, from, next) ==
    /\ worker[t] = from
    /\ worker' = [worker EXCEPT ![t] = next]

Wanted(t) == running /\ t = generation

Test(t) ==
    /\ Goto(t, "test", IF Wanted(t) THEN "ask" ELSE "done")
    /\ UNCHANGED <<page, check, tries, setup, station>>

Ask(t) ==
    /\ Goto(t, "ask", IF up THEN "save" ELSE "sleep")
    /\ UNCHANGED <<page, check, tries, setup, station>>

Save(t) ==
    /\ Goto(t, "save", "succeed")
    /\ saved' = IF tmp = NoNetwork THEN saved ELSE tmp
    /\ UNCHANGED <<page, check, tries, setup, tmp, loaded, up>>

Succeed(t) ==
    /\ Goto(t, "succeed", "clear")
    /\ result' = "success"
    /\ UNCHANGED <<page, running, generation, tries, setup, station>>

\* Mutant: the flag stays up.
ClearNot(t) ==
    /\ Goto(t, "clear", "done")
    /\ UNCHANGED <<page, check, tries, setup, station>>

Clear(t) ==
    /\ Goto(t, "clear", "done")
    /\ running' = FALSE
    /\ UNCHANGED <<page, result, generation, tries, setup, station>>

\* Mutant: the attempts are not counted.
SleepOn(t) ==
    /\ Goto(t, "sleep", IF tries[t] < Attempts THEN "test" ELSE "last")
    /\ UNCHANGED <<page, check, tries, setup, station>>

Sleep(t) ==
    /\ Goto(t, "sleep", IF tries[t] + 1 < Attempts THEN "test" ELSE "last")
    /\ tries' = [tries EXCEPT ![t] = @ + 1]
    /\ UNCHANGED <<page, check, setup, station>>

TestLast(t) ==
    /\ Goto(t, "last", IF t = generation THEN "restore" ELSE "done")
    /\ UNCHANGED <<page, check, tries, setup, station>>

\* restore_saved_wifi_config
Restore(t) ==
    /\ Goto(t, "restore", "fail")
    /\ tmp' = NoNetwork
    /\ Restarted(saved)
    /\ UNCHANGED <<page, check, tries, setup, saved>>

Fail(t) ==
    /\ Goto(t, "fail", "clear")
    /\ result' = "fail"
    /\ UNCHANGED <<page, running, generation, tries, setup, station>>

Worker(t) ==
    \/ Test(t)
    \/ Ask(t)
    \/ Save(t)
    \/ Succeed(t)
    \/ Clear(t)
    \/ Sleep(t)
    \/ TestLast(t)
    \/ Restore(t)
    \/ Fail(t)

----------------------------------------------------------------------------
\* wpa_cli_connect_wifi.

SetupWrite ==
    /\ setup = "write"
    /\ tmp' = asked
    /\ setup' = "kill"
    /\ UNCHANGED <<page, check, workers, saved, loaded, up>>

SetupKill ==
    /\ setup = "kill"
    /\ setup' = IF tmp = NoNetwork THEN "none" ELSE "start"
    /\ IF tmp = NoNetwork THEN UNCHANGED <<loaded, up>> ELSE Restarted(NoNetwork)
    /\ UNCHANGED <<page, check, workers, tmp, saved>>

SetupStart ==
    /\ setup = "start"
    /\ setup' = "none"
    /\ IF loaded = NoNetwork THEN Restarted(tmp) ELSE UNCHANGED <<loaded, up>>
    /\ UNCHANGED <<page, check, workers, tmp, saved>>

Setup == SetupWrite \/ SetupKill \/ SetupStart

\* The station gets connected, or loses the access point.
Associate ==
    /\ loaded \in Reachable
    /\ up' = ~up
    /\ UNCHANGED <<page, check, workers, setup, tmp, saved, loaded>>

Next ==
    \/ \E n \in Networks : Connect(n)
    \/ Page
    \/ Timer
    \/ Leave
    \/ \E t \in Tokens : Worker(t)
    \/ Setup
    \/ Associate

Spec == Init /\ [][Next]_vars

\* Threads that can run do, and the timer of the page comes round.
FairSpec ==
    /\ Spec
    /\ WF_vars(Page)
    /\ WF_vars(Timer)
    /\ WF_vars(Setup)
    /\ \A t \in Tokens : WF_vars(Worker(t))

----------------------------------------------------------------------------
Ended == {"none", "done"}

TypeOK ==
    /\ ui \in {"idle", "announce", "arm", "spawn", "noworker", "failing",
               "cancelled", "leaving", "left"}
    /\ asked \in Maybe
    /\ connecting \in BOOLEAN
    /\ ticks \in 0 .. MaxTicks + 1
    /\ result \in {"idle", "running", "success", "fail"}
    /\ running \in BOOLEAN
    /\ generation \in 0 .. MaxTokens
    /\ worker \in [Tokens -> {"none", "test", "ask", "save", "succeed", "clear",
                              "sleep", "last", "restore", "fail", "done"}]
    /\ tries \in [Tokens -> 0 .. Attempts]
    /\ setup \in {"none", "write", "kill", "start", "lost"}
    /\ tmp \in Maybe
    /\ saved \in Networks
    /\ loaded \in Maybe
    /\ up \in BOOLEAN

\* The flag that makes wifi_connection_check_start refuse belongs to a worker
\* that will take it down: when it is up, and the page is not about to take it
\* down itself, the worker with the current token is there.
RunningHasWorker ==
    running /\ ui = "idle" => worker[generation] \notin Ended

\* So a refusal does not last: the flag comes down.
CheckEnds == running ~> ~running

\* "cancelling one attempt cannot be confused with a later attempt": while the
\* page waits for an attempt, only the worker with its token publishes anything.
NotConfused ==
    [][\A t \in Tokens :
         /\ connecting
         /\ worker[t] \in {"succeed", "fail"}
         /\ worker'[t] = "clear"
         => t = generation]_vars

\* "persist the temporary config on success": what is saved is a network with
\* which the station can be connected.
SavesWhatConnects == saved \in Reachable

\* The dialog that covers the page ends.
DialogEnds == connecting ~> ~connecting

==============================================================================
