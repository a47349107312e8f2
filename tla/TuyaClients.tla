----------------------------- MODULE TuyaClients -----------------------------
(***************************************************************************)
(* The phones that watch live video through the Tuya library, and how the  *)
(* program counts them (ty_sdk_media_callback.c, tuya_sdk.c).  The library *)
(* calls TUYA_IPC_p2p_event_cb when a phone starts and when it stops; the  *)
(* callback changes client_online_num, without a lock, and tells the user  *)
(* interface with an event when the first phone has come and the last has  *)
(* gone.  As a stop may be missed, a thread compares the number each       *)
(* second with the library's own and, when that is zero, resets it and     *)
(* sends the event itself: three accesses, between which callbacks come.   *)
(*                                                                         *)
(* Events go through the queue of the user interface, whose nodes are      *)
(* limited: when there is none, the event is lost, and nobody looks at the *)
(* result of the push.                                                     *)
(***************************************************************************)
EXTENDS Integers, Sequences

CONSTANTS
    MaxPhones,      \* that watch, or whose stop is still to be called
    MaxCount,       \* bound of client_online_num
    QueueMax        \* nodes of the queue, OS_EVENT_NUM_MAX

ASSUME ClientsAssumption ==
    /\ MaxPhones \in Nat \ {0}
    /\ MaxCount \in Nat \ {0}
    /\ QueueMax \in Nat \ {0}

VARIABLES
    phones,         \* tuya_ipc_get_client_online_num
    late,           \* stops the library has still to call
    count,          \* client_online_num
    recon,          \* where tuya_sdk_thread is
    queue           \* lv_os_event_queue_head

clients == <<phones, late, count, recon, queue>>

Event(kind, arg) == [kind |-> kind, arg |-> arg]
Enter == Event("enter", 0)
Quit == Event("quit", 0)
Talk(on) == Event("talk", on)

InitClients ==
    /\ phones = 0
    /\ late = 0
    /\ count = 0
    /\ recon = "idle"
    /\ queue = <<>>

Full == Len(queue) >= QueueMax

Push(e) == queue' = IF Full THEN queue ELSE Append(queue, e)

\* A callback that has read the number before a reset and writes it after
\* leaves the reset without effect.
Overwrites == recon' = recon \/ (recon = "reset" /\ recon' = "push")

\* MEDIA_STREAM_LIVE_VIDEO_START
\* Mutant: a phone whose event is not taken is not counted.
VideoStartPushed ==
    /\ phones + late < MaxPhones
    /\ count < MaxCount
    /\ phones' = phones + 1
    /\ count' = IF count <= 0 /\ Full THEN count ELSE count + 1
    /\ IF count > 0 THEN UNCHANGED queue ELSE Push(Enter)
    /\ Overwrites
    /\ UNCHANGED late

VideoStart ==
    /\ phones + late < MaxPhones
    /\ count < MaxCount
    /\ phones' = phones + 1
    /\ count' = count + 1
    /\ IF count > 0 THEN UNCHANGED queue ELSE Push(Enter)
    /\ Overwrites
    /\ UNCHANGED late

\* A phone goes, or its connection is lost.
PhoneLeaves ==
    /\ phones > 0
    /\ phones' = phones - 1
    /\ late' = late + 1
    /\ UNCHANGED <<count, recon, queue>>

\* MEDIA_STREAM_LIVE_VIDEO_STOP
\* Mutant: the number is looked at before it is changed.
VideoStopBefore ==
    /\ late > 0
    /\ late' = late - 1
    /\ count' = count - 1
    /\ IF count > 0 THEN UNCHANGED queue ELSE Push(Quit)
    /\ Overwrites
    /\ UNCHANGED phones

VideoStop ==
    /\ late > 0
    /\ late' = late - 1
    /\ count' = count - 1
    /\ IF count - 1 > 0 THEN UNCHANGED queue ELSE Push(Quit)
    /\ Overwrites
    /\ UNCHANGED phones

MissStop ==
    /\ late > 0
    /\ late' = late - 1
    /\ UNCHANGED <<phones, count, recon, queue>>

\* tuya_client_num_get, while the unit is connected
ClientNum == count

\* tuya_sdk_thread, each second: looks, ...
Compare ==
    /\ recon = "idle"
    /\ phones = 0
    /\ ClientNum # 0
    /\ recon' = "reset"
    /\ UNCHANGED <<phones, late, count, queue>>

\* ... calls tuya_client_num_reset ...
Reset ==
    /\ recon = "reset"
    /\ recon' = "push"
    /\ count' = 0
    /\ UNCHANGED <<phones, late, queue>>

\* ... and sends the event.
PushQuit ==
    /\ recon = "push"
    /\ recon' = "idle"
    /\ Push(Quit)
    /\ UNCHANGED <<phones, late, count>>

\* MEDIA_STREAM_SPEAKER_START and _STOP
Speaker(on) ==
    /\ on = 1 => phones > 0
    /\ Push(Talk(on))
    /\ UNCHANGED <<phones, late, count, recon>>

\* lv_os_event_task takes the first event.
TakeEvent ==
    /\ queue # <<>>
    /\ queue' = Tail(queue)
    /\ UNCHANGED <<phones, late, count, recon>>

ClientsStep ==
    \/ VideoStart \/ PhoneLeaves \/ VideoStop \/ MissStop
    \/ Compare \/ Reset \/ PushQuit \/ Speaker(0)

----------------------------------------------------------------------------
TypeOKClients ==
    /\ phones \in Nat
    /\ late \in Nat
    /\ phones + late <= MaxPhones
    /\ count \in Int
    /\ count <= MaxCount
    /\ recon \in {"idle", "reset", "push"}
    /\ queue \in Seq([kind : {"enter", "quit", "talk"}, arg : {0, 1}])
    /\ Len(queue) <= QueueMax

\* The number counts every phone that watches or whose stop is to come, as the
\* pages rely on to keep its stream, and what breaks this is the reset of
\* tuya_sdk_thread when it crosses a phone that has just come or a stop that
\* is late: client_online_num has no lock.
AllCounted == count >= phones + late
WatchingIsCounted == [][AllCounted => AllCounted' \/ Reset]_clients

==============================================================================
