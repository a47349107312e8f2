--------------------------- MODULE MonitorSession ----------------------------
(***************************************************************************)
(* Who has the door station: the person at the indoor unit, the phone, or  *)
(* both, one watching and the other too (layout_monitor.c,                 *)
(* layout_standby.c, layout_monitor_1.c, leo_monitor.c).  All of it runs   *)
(* in the thread of the user interface, one handler after another: an      *)
(* event from the queue, a touch, a key, a timer.  Which handler an event  *)
(* of the phone meets depends on the page, and each of the three has its   *)
(* own rules.                                                              *)
(*                                                                         *)
(* The state of the user interface is one record.  Each function of the    *)
(* code that changes it is an operator from record to record, and a        *)
(* handler is their composition.  What the door stations and the other     *)
(* units do is a choice made each time the code looks: up (the door is     *)
(* online), busy (it talks to somebody), claim (another unit's phone       *)
(* watches).                                                               *)
(***************************************************************************)
EXTENDS TuyaClients

VARIABLE ui

vars == <<ui, clients>>

\* MONITOR_CH: MON_CH_NONE, MON_CH_DOOR_1, MON_CH_DOOR_2
NoDoor == 0
Doors == {1, 2}
OtherDoor(d) == IF d = 1 THEN 2 ELSE 1

Start == [
    page |-> "standby",
    way |-> "none",         \* monitor_enter_flag
    channel |-> NoDoor,     \* monitor_channel
    talking |-> FALSE,      \* is_talking
    tuyaTalk |-> FALSE,     \* is_tuya_talking of layout_monitor.c
    motionTalk |-> FALSE,   \* is_tuya_talking of tuya_event_motion_proc
    motion |-> "off",       \* motion_time_ptask: "off", "hidden", "shown"
    talkTask |-> NoDoor,    \* montior_talk_task_t, and its door
    audio |-> NoDoor,       \* door of the network audio tasks
    mic |-> FALSE,          \* the audio input runs
    video |-> NoDoor,       \* door of the network video task
    told |-> NoDoor]        \* door named in the last talk command on the bus

Init == InitClients /\ ui = Start

\* audio_talk_open, audio_talk_close
AudioOpen(s, d, mic) == [s EXCEPT !.audio = d, !.mic = mic]
AudioClose(s, all) == [s EXCEPT !.audio = NoDoor, !.mic = @ /\ ~all]

\* send_monitor_talk_cmd, send_monitor_hang_cmd
TalkCmd(s, on) == [s EXCEPT !.told = IF on THEN s.channel ELSE NoDoor]
HangCmd(s) == [s EXCEPT !.told = IF @ = s.channel THEN NoDoor ELSE @]

\* monitor_open(false): a task that runs is kept, whichever its door
VideoOpen(s, up) ==
    IF s.channel # NoDoor /\ s.video = NoDoor /\ (up \/ s.way = "call")
    THEN [s EXCEPT !.video = s.channel]
    ELSE s

\* monitor_switch
\* Mutant: it keeps a task that runs, as monitor_open does.
VideoSwitchKept(s, up) ==
    IF s.channel = NoDoor \/ s.video # NoDoor THEN s
    ELSE [s EXCEPT !.video = IF up \/ s.way = "call" THEN s.channel ELSE NoDoor]

VideoSwitch(s, up) ==
    IF s.channel \in {NoDoor, s.video} THEN s
    ELSE [s EXCEPT !.video = IF up \/ s.way = "call" THEN s.channel ELSE NoDoor]

\* monitor_close_1, monitor_close
VideoClose(s) == [s EXCEPT !.video = NoDoor]
MonitorClose(s) == [s EXCEPT !.video = NoDoor, !.channel = NoDoor]

\* tuya_session_keep_shared_media, tuya_session_keep_shared_video
\* Mutant: the way of entering decides.
KeepIfTuya(s) == s.way = "tuya" /\ ClientNum > 0
Keep(s) == ClientNum > 0

----------------------------------------------------------------------------
\* Leaving and entering pages.

\* LAYOUT_QUIT_FUNC(monitor), when nothing is kept
\* Mutant: the audio input is left to the phone's session.
EndMonitorInput(s) ==
    LET closed == AudioClose(MonitorClose(s), FALSE)
        told == IF s.tuyaTalk \/ s.talking THEN TalkCmd(closed, FALSE) ELSE closed
    IN  [told EXCEPT !.tuyaTalk = FALSE]

EndMonitor(s) ==
    LET closed == AudioClose(MonitorClose(s), TRUE)
        told == IF s.tuyaTalk \/ s.talking THEN TalkCmd(closed, FALSE) ELSE closed
    IN  [told EXCEPT !.tuyaTalk = FALSE]

\* LAYOUT_QUIT_FUNC(monitor)
LeaveMonitor(s) ==
    IF s.way = "tuya" THEN [s EXCEPT !.talkTask = NoDoor]
    ELSE [(IF Keep(s) THEN s ELSE EndMonitor(s)) EXCEPT
             !.talkTask = NoDoor, !.talking = FALSE,
             !.way = "none"]

\* LAYOUT_QUIT_FUNC(standby)
LeaveStandby(s) ==
    LET kept == IF s.way = "call" \/ Keep(s) THEN s
                ELSE AudioClose(VideoClose(s), TRUE)
    IN  [kept EXCEPT
            !.motion = "off",
            !.way = IF s.motion # "off" /\ @ = "motion" THEN "none" ELSE @]

Leave(s) ==
    CASE s.page = "monitor" -> LeaveMonitor(s)
      [] s.page = "standby" -> LeaveStandby(s)
      [] OTHER -> s

\* goto_layout to LAYOUT_ENETER_FUNC(standby), (home) and (monitor)
GotoStandby(s) == [Leave(s) EXCEPT !.page = "standby"]
GotoHome(s) == [Leave(s) EXCEPT !.page = "home", !.channel = NoDoor]
GotoMonitor(s, up) == VideoSwitch([Leave(s) EXCEPT !.page = "monitor"], up)

----------------------------------------------------------------------------
\* What the three handlers of the phone's events share.

\* monitor_tuya_audio_open
TuyaAudioOpen(s) == AudioOpen(s, IF s.channel = 1 THEN 1 ELSE 2, FALSE)

\* tuya_switch_camera
SwitchCamera(s, ch, up) ==
    IF s.channel = ch THEN s
    ELSE VideoSwitch(AudioOpen([s EXCEPT !.channel = ch], ch, FALSE), up)

\* Mutant: the door is not told.
TalkStopsUntold(s) ==
    IF s.tuyaTalk
    THEN [s EXCEPT !.talking = FALSE, !.tuyaTalk = FALSE]
    ELSE s

TalkStops(s) ==
    IF s.tuyaTalk
    THEN [TalkCmd(s, FALSE) EXCEPT !.talking = FALSE, !.tuyaTalk = FALSE]
    ELSE s

\* indoor_is_local_talking, indoor_is_local_monitoring
LocalTalking(s) == s.way = "call"
LocalMonitoring(s) == s.way \in {"manual", "call", "motion"}

\* monitor_phone_answer_local_call
PhoneAnswer(s) ==
    GotoStandby([TuyaAudioOpen(AudioClose(s, TRUE)) EXCEPT
                    !.talking = FALSE, !.way = "none"])

\* Mutant: the talk of the indoor unit goes on.
PhoneTalksToo(s) == [TalkCmd(TuyaAudioOpen(s), TRUE) EXCEPT !.tuyaTalk = TRUE]
PhoneTalks(s) ==
    [TalkCmd(TuyaAudioOpen(s), TRUE) EXCEPT !.talking = FALSE, !.tuyaTalk = TRUE]

\* tuya_event_inside_proc, on the monitor page
Inside(s, e, busy) ==
    CASE e = Talk(1) ->
            IF s.tuyaTalk \/ LocalTalking(s) \/ busy THEN s ELSE PhoneTalks(s)
      [] e = Talk(0) -> TalkStops(s)
      [] e = Enter -> IF LocalTalking(s) THEN PhoneAnswer(s) ELSE s
      [] OTHER -> s

\* tuya_event_extern_proc: the first door that is online, or the first
FirstOnline(up) == IF up = {2} THEN 2 ELSE 1

BackgroundOpen(s, up, busy) ==
    LET ch == [s EXCEPT !.channel = FirstOnline(up)]
        sound == IF busy THEN ch ELSE TuyaAudioOpen(ch)
    IN  VideoOpen([sound EXCEPT !.way = "tuya"], sound.channel \in up)

\* monitor_tuya_background_session_close
BackgroundClose(s) ==
    LET closed == AudioClose(s, TRUE)
        told == IF s.tuyaTalk \/ s.talking THEN TalkCmd(closed, FALSE) ELSE closed
    IN  [told EXCEPT !.talking = FALSE, !.tuyaTalk = FALSE,
                     !.channel = NoDoor, !.way = "none"]

Extern(s, e, up, busy) ==
    CASE e = Talk(1) ->
            IF s.tuyaTalk \/ LocalTalking(s) THEN s
            ELSE [TalkCmd(TuyaAudioOpen(s), TRUE) EXCEPT !.tuyaTalk = TRUE]
      [] e = Talk(0) -> TalkStops(s)
      [] e = Enter -> BackgroundOpen(s, up, busy)
      [] OTHER -> BackgroundClose(s)

\* tuya_event_motion_proc, while the standby page shows or records motion
MotionQuit(s) ==
    LET hung == [HangCmd(s) EXCEPT !.channel = NoDoor, !.way = "none"]
        told == IF s.motionTalk THEN TalkCmd(hung, FALSE) ELSE hung
    IN  GotoStandby([told EXCEPT !.motionTalk = FALSE])

Motion(s, e) ==
    CASE e = Talk(1) ->
            IF s.motionTalk THEN s
            ELSE [TalkCmd(TuyaAudioOpen(s), TRUE) EXCEPT !.motionTalk = TRUE]
      [] e = Talk(0) ->
            IF s.motionTalk
            THEN [TalkCmd(s, FALSE) EXCEPT !.motionTalk = FALSE]
            ELSE s
      [] e = Enter -> [s EXCEPT !.way = "tuya"]
      [] OTHER -> MotionQuit(s)

\* lv_os_event_handle of OS_EVENT_TYPE_TUYA
Handled(s, e, up, busy) ==
    IF s.page = "monitor" THEN Inside(s, e, busy)
    ELSE IF s.motion # "off" THEN Motion(s, e)
    ELSE Extern(s, e, up, busy)

TuyaEvent ==
    /\ TakeEvent
    /\ \E up \in SUBSET Doors, busy \in BOOLEAN :
          ui' = Handled(ui, Head(queue), up, busy)

Queued(e) == {i \in DOMAIN queue : queue[i] = e}

\* The phone chooses a door, TUYA_EVENT_MONITOR_SWAP, at any place after its
\* ENTER; away from the monitor page a local session has precedence.
Swap(ch) ==
    /\ phones > 0
    /\ Queued(Enter) = {}
    /\ UNCHANGED clients
    /\ ui.page = "monitor" \/ ui.motion # "off" \/ ~LocalMonitoring(ui)
    /\ \E up \in BOOLEAN : ui' = SwitchCamera(ui, ch, up)

----------------------------------------------------------------------------
\* The person at the indoor unit, on the monitor page.

On(page) == ui.page = page /\ UNCHANGED clients

\* tuya_session_local_talk_button_allowed
TalkAllowed(busy, claim) ==
    ui.talking \/ (ClientNum <= 0 /\ ~claim /\ ~busy)

\* monitor_talk_btn_up, once it is allowed
TalkPressed(s) ==
    IF s.talking \/ s.talkTask # NoDoor THEN s
    ELSE TalkCmd([s EXCEPT !.talking = TRUE,
                           !.talkTask = s.channel], TRUE)

TalkButton ==
    /\ On("monitor")
    /\ \E busy, claim \in BOOLEAN : TalkAllowed(busy, claim)
    /\ ui' = TalkPressed(ui)

\* monitor_talk_open_task, 100 ms later
TalkTask ==
    /\ UNCHANGED clients
    /\ ui.talkTask # NoDoor
    /\ ui' = [(IF ui.talkTask = ui.channel
               THEN TalkCmd(AudioOpen(ui, ui.channel, TRUE), TRUE)
               ELSE ui) EXCEPT !.talkTask = NoDoor]

\* monitor_hand_btn_up
Hung(s) == IF s.way = "tuya" THEN HangCmd(s) ELSE GotoStandby(HangCmd(s))

HandButton ==
    /\ On("monitor")
    /\ ui' = Hung(ui)

\* monitor_switch_btn_up
Switched(s, up) ==
    LET d == OtherDoor(s.channel)
        moved == VideoSwitch([AudioOpen(s, d, s.talking) EXCEPT
                                 !.way = "manual", !.channel = d], up)
    IN  IF s.talking THEN TalkCmd(moved, TRUE) ELSE moved

SwitchButton ==
    /\ On("monitor")
    /\ \E up \in BOOLEAN : ui' = Switched(ui, up)

\* mechanical_key_inside_callback: answers a call, ends a talk or the page,
\* or goes to the other door
MechanicalKeyInside ==
    /\ On("monitor")
    /\ ui.way # "tuya"
    /\ IF ~ui.talking /\ ui.way = "call"
       THEN \E busy \in BOOLEAN :
               TalkAllowed(busy, FALSE) /\ ui' = TalkPressed(ui)
       ELSE IF ui.talking \/ ui.channel = 2
       THEN ui' = Hung(ui)
       ELSE \E up \in BOOLEAN : ui' = Switched(ui, up)

\* monitor_timer_task at zero, monitor_status_callback for a door that went
\* offline, monitor_indoor_cmd_func for another unit that talks with the door
MonitorEnds ==
    /\ On("monitor")
    /\ ui.way # "tuya"
    /\ ui' = GotoStandby(ui)

\* monitor_indoor_cmd_func: the door this unit wanted to talk with is busy
DeviceBusy ==
    /\ On("monitor")
    /\ ui.way # "tuya"
    /\ ui' = [ui EXCEPT !.talkTask = NoDoor]

\* monitor_call_inside_func, monitor_call_inside_action: door d calls
CallInside(d) ==
    /\ On("monitor")
    /\ ui.way \notin {"tuya", "call"}
    /\ ui.channel # d
    /\ \E up \in BOOLEAN :
          ui' = AudioOpen(
                   VideoSwitch([ui EXCEPT !.talking = FALSE, !.channel = d], up),
                   d, FALSE)

----------------------------------------------------------------------------
\* On the other pages.

\* monitor_call_extern_func: door d calls
CallExtern(d) ==
    /\ ui.page # "monitor"
    /\ ui.way # "tuya"
    /\ UNCHANGED clients
    /\ \E up \in BOOLEAN :
          ui' = AudioOpen(
                   GotoMonitor([ui EXCEPT !.channel = d, !.way = "call"], up),
                   d, FALSE)

\* The monitor page opened by hand: mechanical_key_extern_callback, the
\* buttons of layout_monitor_1 and the shortcut of the standby page
Manual(d) ==
    \E up \in BOOLEAN :
       ui' = AudioOpen(GotoMonitor([ui EXCEPT !.channel = d, !.way = "manual"], up),
                       d, FALSE)

MechanicalKeyExtern ==
    /\ ui.page # "monitor"
    /\ ui.way # "tuya"
    /\ UNCHANGED clients
    /\ Manual(1)

DoorButton(d) ==
    /\ On("home")
    /\ ~ui.tuyaTalk
    /\ Manual(d)

\* tuya_session_standby_touch_allowed
TouchAllowed == ui.way # "call" \/ ClientNum > 0

Shortcut ==
    /\ On("standby")
    /\ ui.motion # "shown"
    /\ TouchAllowed
    /\ ~ui.tuyaTalk
    /\ Manual(1)

\* standby_click_up
StandbyTouch ==
    /\ On("standby")
    /\ ui.motion # "shown"
    /\ TouchAllowed
    /\ ui' \in {GotoHome(ui), GotoStandby(ui)}

HomeBack ==
    /\ On("home")
    /\ ui' = GotoStandby(ui)

\* monitor_indoor_cmd_func of the standby page
IndoorTalksStandby(d) ==
    /\ On("standby")
    /\ ui.channel = d
    /\ ui.way # "tuya"
    /\ ui' = GotoStandby([ui EXCEPT !.channel = NoDoor])

\* motion_detect_func: hidden or with a preview
MotionDetected(d) ==
    /\ On("standby")
    /\ ui.motion = "off"
    /\ ClientNum <= 0
    /\ \E up \in BOOLEAN, how \in {"hidden", "shown"} :
          ui' = [VideoOpen(AudioOpen([ui EXCEPT !.channel = d], d, FALSE), up) EXCEPT
                    !.way = "motion", !.motion = how]

\* motion_timer_task: the door went offline or another unit's phone claims it
MotionStops ==
    /\ On("standby")
    /\ ui.motion # "off"
    /\ ui.way # "tuya"
    /\ ui' = GotoStandby(MonitorClose(ui))

\* motion_timer_task at zero: only the label of a preview holds it back for
\* a phone
MotionTimeout ==
    /\ On("standby")
    /\ ui.motion # "off"
    /\ ui.way = "tuya" => ui.motion = "hidden"
    /\ ui' = GotoStandby(MonitorClose(ui))

\* motion_back_btn_up
MotionBack ==
    /\ On("standby")
    /\ ui.motion = "shown"
    /\ ui.way # "call"
    /\ ui' = GotoStandby([ui EXCEPT !.channel = NoDoor])

----------------------------------------------------------------------------
\* The phone.
Phone ==
    /\ ClientsStep \/ (ui.way # "call" /\ Speaker(1))
    /\ UNCHANGED ui

Next ==
    \/ Phone
    \/ TuyaEvent
    \/ TalkButton \/ TalkTask \/ HandButton \/ SwitchButton
    \/ MechanicalKeyInside \/ MonitorEnds \/ DeviceBusy
    \/ \E d \in Doors : Swap(d)
    \/ \E d \in Doors : CallInside(d) \/ CallExtern(d)
    \/ MechanicalKeyExtern \/ Shortcut \/ StandbyTouch \/ HomeBack
    \/ \E d \in Doors : DoorButton(d) \/ IndoorTalksStandby(d) \/ MotionDetected(d)
    \/ MotionStops \/ MotionTimeout \/ MotionBack

Spec == Init /\ [][Next]_vars

----------------------------------------------------------------------------
UiStates == [
    page : {"standby", "home", "monitor"},
    way : {"none", "manual", "call", "tuya", "motion"},
    channel : Doors \cup {NoDoor},
    talking : BOOLEAN,
    tuyaTalk : BOOLEAN, motionTalk : BOOLEAN,
    motion : {"off", "hidden", "shown"},
    talkTask : Doors \cup {NoDoor},
    audio : Doors \cup {NoDoor}, mic : BOOLEAN,
    video : Doors \cup {NoDoor}, told : Doors \cup {NoDoor}]

TypeOK == TypeOKClients /\ ui \in UiStates

\* The phone's session is open, or an ENTER that is queued will open it, ...
WillBeOpen ==
    \/ ui.way = "tuya" /\ Queued(Enter) = {} /\ Queued(Quit) = {}
    \/ \E i \in Queued(Enter) : \A j \in Queued(Quit) : j < i
\* ... and neither a phone, nor a stop, nor the thread will end it.
Orphaned ==
    WillBeOpen /\ phones = 0 /\ late = 0 /\ count = 0 /\ recon = "idle"

\* A session of the phone is never left without anybody who will end it: the
\* door station would send to nobody.  The unit and the library lose the
\* thread only when an event finds the queue full, whose push nobody looks at,
\* or after a reset has crossed a phone that came (tuya_sdk.c:534).
SomebodyEnds == [][Orphaned' => Orphaned \/ Full \/ ~AllCounted]_vars

\* The steps that move the pages' channel to a door that is not streamed.
OtherDoorShown == ui'.page = "monitor" /\ ui'.channel \notin {NoDoor, ui.video}

\* While a phone is counted no page takes its stream away, whichever page is
\* entered or left and whatever ends there; only the phone itself, a page that
\* shows another door, and the end of a motion recording do, which looks at
\* the label of its preview and not at the phone (layout_standby.c:1759).
PageKeepsStream ==
    [][ClientNum > 0 /\ ui.video # NoDoor /\ ui'.video = NoDoor
       => \/ \E d \in Doors : Swap(d)
          \/ OtherDoorShown
          \/ MotionTimeout \/ MotionStops]_vars

\* Both sides talk.
Both(s) == s.talking /\ (s.tuyaTalk \/ s.motionTalk)
\* The monitor page is left and the phone keeps its media, with the audio
\* input and the talk the person at the unit had (layout_monitor.c:2431).
LeftWatched == ui.page = "monitor" /\ ui'.page = "standby" /\ Keep(ui)
\* A phone takes the call the person at the unit has answered.
Answered == TuyaEvent /\ Head(queue) = Enter /\ ui.page = "monitor"
\* A phone whose talk was never ended ends the one of the person at the unit.
EndsOther == TuyaEvent /\ Head(queue) = Talk(0) /\ Both(ui)

\* A door that was told to talk is told when nobody talks with it any more.
\* Four ways lead to a door that goes on alone: the first two above, the task
\* of the talk button that comes when the talk is over (layout_monitor.c:1624)
\* and a call of the other door, which forgets the first (layout_monitor.c:3047).
Unattended(s) == s.told # NoDoor /\ ~(s.talking \/ s.tuyaTalk \/ s.motionTalk)
TalkHasTalker ==
    [][Unattended(ui') => \/ Unattended(ui)
                          \/ LeftWatched \/ Answered \/ TalkTask
                          \/ \E d \in Doors : CallInside(d)]_vars

\* The microphone of the unit is on only while the person at the unit talks.
\* It stays on when a watched page is left, when a phone's old talk is ended,
\* and when the task of the talk button comes 100 ms later and the talk has
\* been taken over (layout_monitor.c:1624).
OpenMic(s) == s.mic /\ ~s.talking
MicMeansTalk ==
    [][OpenMic(ui') => \/ OpenMic(ui)
                       \/ LeftWatched \/ EndsOther \/ TalkTask]_vars

\* The person at the unit and a phone that is counted never come to talk both:
\* the button refuses, and a phone that begins takes the talk over.
OneTalker == [][Both(ui') => Both(ui) \/ ClientNum <= 0]_vars

\* On the monitor page sound and picture come from the door it shows, however
\* buttons, calls, the phone's choice of a door and its talk follow.
WhatIsShown ==
    ui.page = "monitor" =>
        /\ ui.channel \in Doors
        /\ ui.audio \in {NoDoor, ui.channel}
        /\ ui.video \in {NoDoor, ui.channel}

==============================================================================
