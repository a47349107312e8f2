------------------------ MODULE MonitorSessionProofs -------------------------
(***************************************************************************)
(* Proofs about MonitorSession, for every number of phones, every bound of *)
(* client_online_num and every length of the queue.                        *)
(*                                                                         *)
(* The handlers compose a few functions on the state of the user           *)
(* interface; the lemmas say of each function what it keeps, and the proof *)
(* of a step puts them together.                                           *)
(***************************************************************************)
EXTENDS MonitorSession, TLAPS

\* On the monitor page there is a door, of which sound and picture come if
\* they come, and the page was not entered by a phone.
Shown(s) ==
    s.page = "monitor" =>
        /\ s.channel \in Doors
        /\ s.way \in {"manual", "call"}
        /\ s.audio \in {NoDoor, s.channel}
        /\ s.video \in {NoDoor, s.channel}

\* The person at the unit talks on the monitor page only.
TalksThere(s) == s.talking => s.page = "monitor"

Good(s) == s \in UiStates /\ Shown(s) /\ TalksThere(s)

\* What leaving a page relies on: its callers have already reset the way.
Leavable(s) ==
    /\ s \in UiStates
    /\ s.page = "monitor" => s.way # "tuya"
    /\ TalksThere(s)

\* From s to t the page, its door, the way and the talkers are the same.
Same(s, t) ==
    /\ t.page = s.page /\ t.channel = s.channel /\ t.way = s.way
    /\ t.motion = s.motion
    /\ t.talking = s.talking
    /\ t.tuyaTalk = s.tuyaTalk /\ t.motionTalk = s.motionTalk

\* From s to t nobody has begun to talk beside the person at the unit.
Calm(s, t) ==
    t.talking => /\ s.talking
                 /\ t.tuyaTalk => s.tuyaTalk
                 /\ t.motionTalk => s.motionTalk

\* From s to t a phone that is counted has kept its picture, or another door
\* is shown.
Kept(s, t) ==
    ClientNum > 0 /\ s.video # NoDoor /\ t.video = NoDoor =>
        t.page = "monitor" /\ t.channel \notin {NoDoor, s.video}

----------------------------------------------------------------------------
\* What the media functions change.

\* The media and bus functions change sound, picture and what the door was
\* told, and keep the type of the state.
LEMMA MediaFacts ==
    ASSUME NEW s \in UiStates
    PROVE  /\ \A d \in Doors \cup {NoDoor}, mic \in BOOLEAN :
                AudioOpen(s, d, mic) \in UiStates
           /\ \A all \in BOOLEAN : AudioClose(s, all) \in UiStates
           /\ \A on \in BOOLEAN : TalkCmd(s, on) \in UiStates
           /\ HangCmd(s) \in UiStates
           /\ \A up \in BOOLEAN : VideoOpen(s, up) \in UiStates
           /\ \A up \in BOOLEAN : VideoSwitch(s, up) \in UiStates
           /\ VideoClose(s) \in UiStates
           /\ MonitorClose(s) \in UiStates
<1>1. ASSUME NEW d \in Doors \cup {NoDoor}, NEW mic \in BOOLEAN
      PROVE  AudioOpen(s, d, mic) \in UiStates
  BY <1>1 DEF UiStates, AudioOpen
<1>2. ASSUME NEW all \in BOOLEAN
      PROVE  AudioClose(s, all) \in UiStates
  BY <1>2, ZenonT(60) DEF UiStates, AudioClose
<1>3. ASSUME NEW on \in BOOLEAN
      PROVE  TalkCmd(s, on) \in UiStates
  BY <1>3 DEF UiStates, TalkCmd
<1>4. HangCmd(s) \in UiStates
  BY DEF UiStates, HangCmd
<1>5. ASSUME NEW up \in BOOLEAN
      PROVE  VideoOpen(s, up) \in UiStates
  BY <1>5 DEF UiStates, VideoOpen
<1>6. ASSUME NEW up \in BOOLEAN
      PROVE  VideoSwitch(s, up) \in UiStates
  BY <1>6 DEF UiStates, VideoSwitch
<1>7. VideoClose(s) \in UiStates /\ MonitorClose(s) \in UiStates
  BY DEF UiStates, VideoClose, MonitorClose
<1>. QED
  BY <1>1, <1>2, <1>3, <1>4, <1>5, <1>6, <1>7

\* Which fields they leave alone.
LEMMA MediaKeeps ==
    ASSUME NEW s \in UiStates,
           NEW d \in Doors \cup {NoDoor}, NEW b \in BOOLEAN
    PROVE  /\ Same(s, AudioOpen(s, d, b)) /\ Same(s, AudioClose(s, b))
           /\ Same(s, TalkCmd(s, b)) /\ Same(s, HangCmd(s))
           /\ Same(s, VideoOpen(s, b)) /\ Same(s, VideoSwitch(s, b))
           /\ Same(s, VideoClose(s))
           /\ AudioOpen(s, d, b).audio = d
           /\ AudioOpen(s, d, b).video = s.video
           /\ AudioClose(s, b).video = s.video
           /\ TalkCmd(s, b).audio = s.audio /\ TalkCmd(s, b).video = s.video
           /\ HangCmd(s).audio = s.audio /\ HangCmd(s).video = s.video
           /\ VideoSwitch(s, b).audio = s.audio
           /\ VideoSwitch(s, b).video \in {NoDoor, s.channel} \/ s.channel = NoDoor
  BY DEF UiStates, AudioOpen, AudioClose, TalkCmd, HangCmd, VideoOpen, VideoSwitch,
         VideoClose, Same

LEMMA EndMonitorType ==
    ASSUME NEW s \in UiStates
    PROVE  EndMonitor(s) \in UiStates
<1> DEFINE closed == AudioClose(MonitorClose(s), TRUE)
           told == IF s.tuyaTalk \/ s.talking THEN TalkCmd(closed, FALSE) ELSE closed
<1>1. closed \in UiStates
  BY MediaFacts
<1>. HIDE DEF closed
<1>2. TalkCmd(closed, FALSE) \in UiStates
  BY <1>1, MediaFacts
<1>3. told \in UiStates
  BY <1>1, <1>2
<1>4. EndMonitor(s) = [told EXCEPT !.tuyaTalk = FALSE]
  BY DEF EndMonitor, told, closed
<1>. HIDE DEF told
<1>. QED
  BY <1>3, <1>4 DEF UiStates

\* LAYOUT_QUIT_FUNC of both pages: nobody talks at the unit afterwards, and a
\* phone that is counted keeps its picture.
LEMMA LeaveFacts ==
    ASSUME NEW s, Leavable(s)
    PROVE  /\ Leave(s) \in UiStates
           /\ ~Leave(s).talking
           /\ s.page # "monitor" =>
                /\ Leave(s).channel = s.channel
                /\ s.way # "motion" => Leave(s).way = s.way
           /\ ClientNum > 0 => Leave(s).video = s.video
<1>1. CASE s.page = "monitor"
  <2>1. EndMonitor(s) \in UiStates
    BY EndMonitorType DEF Leavable
  <2>2. LeaveMonitor(s) \in UiStates /\ ~LeaveMonitor(s).talking
    <3> DEFINE kept == IF Keep(s) THEN s ELSE EndMonitor(s)
    <3>1. kept \in UiStates
      BY <2>1 DEF Leavable
    <3>2. LeaveMonitor(s) = [kept EXCEPT !.talkTask = NoDoor,
                                         !.talking = FALSE, !.way = "none"]
      BY <1>1 DEF Leavable, LeaveMonitor
    <3>. HIDE DEF kept
    <3>. QED
      BY <3>1, <3>2 DEF UiStates
  <2>3. Keep(s) => LeaveMonitor(s).video = s.video
    BY <1>1 DEF Leavable, UiStates, LeaveMonitor
  <2>. QED
    BY <1>1, <2>2, <2>3 DEF Leave, Keep
<1>2. CASE s.page = "standby"
  <2>1. AudioClose(VideoClose(s), TRUE) \in UiStates
    BY DEF Leavable, UiStates, AudioClose, VideoClose
  <2> DEFINE kept == IF s.way = "call" \/ Keep(s) THEN s
                     ELSE AudioClose(VideoClose(s), TRUE)
             way == IF kept.motion # "off" /\ kept.way = "motion"
                    THEN "none" ELSE kept.way
  <2>2. /\ kept \in UiStates /\ Same(s, kept)
        /\ Keep(s) => kept.video = s.video
    BY <2>1 DEF Leavable, UiStates, Same, AudioClose, VideoClose
  <2>3. LeaveStandby(s) = [kept EXCEPT !.motion = "off", !.way = way]
    BY <2>2 DEF LeaveStandby, Same
  <2>4. way \in {"none", "manual", "call", "tuya", "motion"}
    BY <2>2 DEF UiStates
  <2>. HIDE DEF kept
  <2>5. [kept EXCEPT !.motion = "off", !.way = way] \in UiStates
    BY <2>2, <2>4, ZenonT(60) DEF UiStates
  <2>6. /\ LeaveStandby(s).talking = s.talking
        /\ LeaveStandby(s).channel = s.channel
        /\ s.way # "motion" => LeaveStandby(s).way = s.way
        /\ Keep(s) => LeaveStandby(s).video = s.video
    BY <2>2, <2>3 DEF UiStates, Same
  <2>. QED
    BY <1>2, <2>3, <2>5, <2>6 DEF Leave, Leavable, TalksThere, Keep
<1>3. CASE s.page = "home"
  BY <1>3 DEF Leave, Leavable, TalksThere, UiStates
<1>. QED
  BY <1>1, <1>2, <1>3 DEF Leavable, UiStates

\* goto_layout(pLAYOUT(standby)) and (home).
LEMMA GotoFacts ==
    ASSUME NEW s, Leavable(s)
    PROVE  /\ Good(GotoStandby(s)) /\ ~GotoStandby(s).talking
           /\ Good(GotoHome(s)) /\ ~GotoHome(s).talking
           /\ ClientNum > 0 => /\ GotoStandby(s).video = s.video
                               /\ GotoHome(s).video = s.video
<1> DEFINE left == Leave(s)
<1>1. /\ left \in UiStates /\ ~left.talking
      /\ ClientNum > 0 => left.video = s.video
  BY LeaveFacts
<1>. HIDE DEF left
<1>2. /\ GotoStandby(s) = [left EXCEPT !.page = "standby"]
      /\ GotoHome(s) = [left EXCEPT !.page = "home", !.channel = NoDoor]
  BY DEF GotoStandby, GotoHome, left
<1>. QED
  BY <1>1, <1>2, ZenonT(60) DEF Good, Shown, TalksThere, UiStates

\* goto_layout(pLAYOUT(monitor)) and the audio that is opened after it.
LEMMA GotoMonitorFacts ==
    ASSUME NEW s, Leavable(s), s.page # "monitor",
           s.channel \in Doors, s.way \in {"manual", "call"}, NEW up \in BOOLEAN
    PROVE  LET t == AudioOpen(GotoMonitor(s, up), s.channel, FALSE)
           IN  Good(t) /\ ~t.talking /\ Kept(s, t)
<1> DEFINE left == [Leave(s) EXCEPT !.page = "monitor"]
           moved == VideoSwitch(left, up)
<1>1. /\ left \in UiStates /\ ~left.talking
      /\ left.page = "monitor" /\ left.channel = s.channel /\ left.way = s.way
      /\ ClientNum > 0 => left.video = s.video
  BY LeaveFacts DEF UiStates
<1>2. GotoMonitor(s, up) = moved
  BY DEF GotoMonitor
<1>. HIDE DEF left
<1>3. /\ moved \in UiStates /\ Same(left, moved)
      /\ moved.video \in {NoDoor, s.channel}
      /\ left.video = s.channel => moved.video = left.video
  BY <1>1 DEF UiStates, Same, VideoSwitch, Doors, NoDoor
<1>. HIDE DEF moved
<1> DEFINE t == AudioOpen(moved, s.channel, FALSE)
<1>4. /\ t \in UiStates /\ Same(moved, t)
      /\ t.audio = s.channel /\ t.video = moved.video
  BY <1>3, MediaFacts, MediaKeeps
<1>. HIDE DEF t
<1>5. Good(t) /\ ~t.talking
  BY <1>1, <1>3, <1>4 DEF Good, Shown, TalksThere, Same
<1>6. Kept(s, t)
  BY <1>1, <1>3, <1>4 DEF Kept, Same, Doors, NoDoor
<1>. QED
  BY <1>2, <1>5, <1>6 DEF t

----------------------------------------------------------------------------
\* The events of the phone.

LEMMA EventsDiffer ==
    /\ Talk(1) # Talk(0) /\ Talk(1) # Enter /\ Talk(0) # Enter
    /\ Talk(1) # Quit /\ Talk(0) # Quit /\ Enter # Quit
  BY DEF Talk, Enter, Quit, Event

\* On the monitor page.
LEMMA InsideFacts ==
    ASSUME NEW s, Good(s), s.page = "monitor", NEW e, NEW busy \in BOOLEAN
    PROVE  LET t == Inside(s, e, busy)
           IN  Good(t) /\ Calm(s, t) /\ Kept(s, t)
<1>1. Good(PhoneTalks(s)) /\ Calm(s, PhoneTalks(s)) /\ Kept(s, PhoneTalks(s))
  BY ZenonT(60)
     DEF Good, Shown, TalksThere, Calm, Kept, PhoneTalks, TuyaAudioOpen, AudioOpen,
     TalkCmd, UiStates, Doors, NoDoor
<1>2. Good(TalkStops(s)) /\ Calm(s, TalkStops(s)) /\ Kept(s, TalkStops(s))
  <2> DEFINE t == [TalkCmd(s, FALSE) EXCEPT !.talking = FALSE, !.tuyaTalk = FALSE]
  <2>1. Good(t) /\ Calm(s, t) /\ Kept(s, t)
    BY DEF Good, Shown, TalksThere, Calm, Kept, TalkCmd, UiStates, Doors, NoDoor
  <2>2. Calm(s, s) /\ Kept(s, s)
    BY DEF Calm, Kept
  <2>. QED
    BY <2>1, <2>2 DEF TalkStops
<1>3. Good(PhoneAnswer(s)) /\ Calm(s, PhoneAnswer(s)) /\ Kept(s, PhoneAnswer(s))
  <2> DEFINE answered == [TuyaAudioOpen(AudioClose(s, TRUE)) EXCEPT
                             !.talking = FALSE, !.way = "none"]
  <2>1. Leavable(answered) /\ answered.video = s.video
    BY ZenonT(60) DEF Good, TalksThere, Leavable, TuyaAudioOpen, AudioOpen, AudioClose,
       UiStates, Doors, NoDoor
  <2>2. PhoneAnswer(s) = GotoStandby(answered)
    BY DEF PhoneAnswer
  <2>. HIDE DEF answered
  <2>. QED
    BY <2>1, <2>2, GotoFacts DEF Calm, Kept
<1>4. Calm(s, s) /\ Kept(s, s)
  BY DEF Calm, Kept
<1>. QED
  BY <1>1, <1>2, <1>3, <1>4, EventsDiffer DEF Inside

\* While the standby page shows or records motion.
LEMMA MotionFacts ==
    ASSUME NEW s, Good(s), s.page # "monitor", NEW e
    PROVE  LET t == Motion(s, e)
           IN  Good(t) /\ Calm(s, t) /\ Kept(s, t)
<1>1. ~s.talking
  BY DEF Good, TalksThere
<1>2. LET t == [TalkCmd(TuyaAudioOpen(s), TRUE) EXCEPT !.motionTalk = TRUE]
      IN  Good(t) /\ Calm(s, t) /\ Kept(s, t)
  BY <1>1, ZenonT(60)
     DEF Good, Shown, TalksThere, Calm, Kept, TuyaAudioOpen, AudioOpen, TalkCmd,
     UiStates, Doors, NoDoor
<1>3. LET t == [TalkCmd(s, FALSE) EXCEPT !.motionTalk = FALSE]
      IN  Good(t) /\ Calm(s, t) /\ Kept(s, t)
  BY <1>1 DEF Good, Shown, TalksThere, Calm, Kept, TalkCmd, UiStates, Doors, NoDoor
<1>4. LET t == [s EXCEPT !.way = "tuya"]
      IN  Good(t) /\ Calm(s, t) /\ Kept(s, t)
  BY <1>1 DEF Good, Shown, TalksThere, Calm, Kept, UiStates
<1>5. Good(MotionQuit(s)) /\ Calm(s, MotionQuit(s)) /\ Kept(s, MotionQuit(s))
  <2> DEFINE hung == [HangCmd(s) EXCEPT !.channel = NoDoor, !.way = "none"]
             told == IF s.motionTalk THEN TalkCmd(hung, FALSE) ELSE hung
             quit == [told EXCEPT !.motionTalk = FALSE]
  <2>1. /\ hung \in UiStates /\ hung.page = s.page
        /\ ~hung.talking /\ hung.video = s.video
    BY <1>1, ZenonT(60) DEF Good, HangCmd, UiStates
  <2>. HIDE DEF hung
  <2>2. /\ told \in UiStates /\ told.page = s.page
        /\ ~told.talking /\ told.video = s.video
    <3>1. LET t == TalkCmd(hung, FALSE)
          IN  /\ t \in UiStates /\ t.page = s.page
              /\ ~t.talking /\ t.video = s.video
      BY <2>1 DEF TalkCmd, UiStates
    <3>. QED
      BY <2>1, <3>1
  <2>. HIDE DEF told
  <2>3. Leavable(quit) /\ quit.video = s.video
    BY <2>2, ZenonT(60) DEF Leavable, TalksThere, UiStates
  <2>4. MotionQuit(s) = GotoStandby(quit)
    BY DEF MotionQuit, quit, told, hung
  <2>. HIDE DEF quit
  <2>. QED
    BY <2>3, <2>4, GotoFacts DEF Calm, Kept
<1>6. Calm(s, s) /\ Kept(s, s)
  BY DEF Calm, Kept
<1>. QED
  BY <1>2, <1>3, <1>4, <1>5, <1>6, EventsDiffer DEF Motion

\* On every other page.
LEMMA ExternFacts ==
    ASSUME NEW s, Good(s), s.page # "monitor", NEW e,
           NEW up \in SUBSET Doors, NEW busy \in BOOLEAN
    PROVE  LET t == Extern(s, e, up, busy)
           IN  Good(t) /\ Calm(s, t) /\ Kept(s, t)
<1>1. ~s.talking
  BY DEF Good, TalksThere
<1>2. LET t == [TalkCmd(TuyaAudioOpen(s), TRUE) EXCEPT !.tuyaTalk = TRUE]
      IN  Good(t) /\ Calm(s, t) /\ Kept(s, t)
  BY <1>1, ZenonT(60)
     DEF Good, Shown, TalksThere, Calm, Kept, TuyaAudioOpen, AudioOpen, TalkCmd,
     UiStates, Doors, NoDoor
<1>3. LET t == TalkStops(s) IN Good(t) /\ Calm(s, t) /\ Kept(s, t)
  <2> DEFINE t == [TalkCmd(s, FALSE) EXCEPT !.talking = FALSE, !.tuyaTalk = FALSE]
  <2>1. Good(t) /\ Calm(s, t) /\ Kept(s, t)
    BY DEF Good, Shown, TalksThere, Calm, Kept, TalkCmd, UiStates, Doors, NoDoor
  <2>2. Calm(s, s) /\ Kept(s, s)
    BY DEF Calm, Kept
  <2>. QED
    BY <2>1, <2>2 DEF TalkStops
<1>4. LET t == BackgroundOpen(s, up, busy) IN Good(t) /\ Calm(s, t) /\ Kept(s, t)
  <2> DEFINE ch == [s EXCEPT !.channel = FirstOnline(up)]
             sound == IF busy THEN ch ELSE TuyaAudioOpen(ch)
             open == [sound EXCEPT !.way = "tuya"]
  <2>1. /\ ch \in UiStates /\ ch.page = s.page /\ ~ch.talking
        /\ ch.video = s.video
    BY <1>1 DEF Good, UiStates, FirstOnline, Doors
  <2>. HIDE DEF ch
  <2>2. /\ sound \in UiStates /\ sound.page = s.page /\ ~sound.talking
        /\ sound.video = s.video
    <3>1. LET t == TuyaAudioOpen(ch)
          IN  /\ t \in UiStates /\ t.page = s.page
              /\ ~t.talking /\ t.video = s.video
      BY <2>1, ZenonT(60) DEF UiStates, TuyaAudioOpen, AudioOpen, Doors
    <3>. QED
      BY <2>1, <3>1
  <2>. HIDE DEF sound
  <2>3. /\ open \in UiStates /\ open.page = s.page /\ ~open.talking
        /\ open.video = s.video
    BY <2>2 DEF UiStates
  <2>4. BackgroundOpen(s, up, busy) = VideoOpen(open, sound.channel \in up)
    BY DEF BackgroundOpen, open, sound, ch
  <2>. HIDE DEF open
  <2>5. VideoOpen(open, sound.channel \in up) \in UiStates
    <3>1. (sound.channel \in up) \in BOOLEAN
      OBVIOUS
    <3>. QED
      BY <2>3, <3>1, MediaFacts
  <2>6. /\ ~VideoOpen(open, sound.channel \in up).talking
        /\ VideoOpen(open, sound.channel \in up).page = s.page
        /\ s.video # NoDoor => VideoOpen(open, sound.channel \in up).video = s.video
    BY <2>3 DEF UiStates, VideoOpen
  <2>. QED
    BY <2>4, <2>5, <2>6 DEF Good, Shown, TalksThere, Calm, Kept
<1>5. LET t == BackgroundClose(s) IN Good(t) /\ Calm(s, t) /\ Kept(s, t)
  <2> DEFINE closed == AudioClose(s, TRUE)
             told == IF s.tuyaTalk \/ s.talking THEN TalkCmd(closed, FALSE)
                     ELSE closed
  <2>1. /\ told \in UiStates /\ told.page = s.page /\ told.video = s.video
    <3>1. closed \in UiStates /\ closed.page = s.page /\ closed.video = s.video
      BY ZenonT(60) DEF Good, UiStates, AudioClose
    <3>. HIDE DEF closed
    <3>2. LET t == TalkCmd(closed, FALSE)
          IN  t \in UiStates /\ t.page = s.page /\ t.video = s.video
      BY <3>1 DEF UiStates, TalkCmd
    <3>. QED
      BY <3>1, <3>2
  <2>2. BackgroundClose(s) =
            [told EXCEPT !.talking = FALSE, !.tuyaTalk = FALSE,
                         !.channel = NoDoor, !.way = "none"]
    BY DEF BackgroundClose
  <2>. HIDE DEF told
  <2>3. BackgroundClose(s) \in UiStates
    BY <2>1, <2>2 DEF UiStates
  <2>4. /\ BackgroundClose(s).page = s.page
        /\ BackgroundClose(s).video = s.video
        /\ ~BackgroundClose(s).talking
    BY <2>1, <2>2 DEF UiStates
  <2>. QED
    BY <2>3, <2>4 DEF Good, Shown, TalksThere, Calm, Kept
<1>6. Calm(s, s) /\ Kept(s, s)
  BY DEF Calm, Kept
<1>. QED
  BY <1>2, <1>3, <1>4, <1>5, <1>6, EventsDiffer DEF Extern

LEMMA HandledFacts ==
    ASSUME NEW s, Good(s), NEW e, NEW up \in SUBSET Doors, NEW busy \in BOOLEAN
    PROVE  LET t == Handled(s, e, up, busy)
           IN  Good(t) /\ Calm(s, t) /\ Kept(s, t)
  BY InsideFacts, MotionFacts, ExternFacts DEF Handled

\* A session of which the way or the door is another one, before the page that
\* it opens.
LEMMA ManualFacts ==
    ASSUME NEW s, Good(s), s.page # "monitor",
           NEW d \in Doors, NEW way \in {"manual", "call"}, NEW up \in BOOLEAN
    PROVE  LET t == AudioOpen(GotoMonitor([s EXCEPT !.channel = d, !.way = way], up),
                              d, FALSE)
           IN  Good(t) /\ Calm(s, t) /\ Kept(s, t)
<1> DEFINE opened == [s EXCEPT !.channel = d, !.way = way]
<1>1. /\ Leavable(opened) /\ opened.page # "monitor"
      /\ opened.channel = d /\ opened.way = way /\ opened.video = s.video
  BY DEF Good, Leavable, TalksThere, UiStates
<1>. HIDE DEF opened
<1>2. LET t == AudioOpen(GotoMonitor(opened, up), d, FALSE)
      IN  Good(t) /\ ~t.talking /\ Kept(opened, t)
  BY <1>1, GotoMonitorFacts
<1>. QED
  BY <1>1, <1>2 DEF opened, Calm, Kept

\* monitor_switch_btn_up
LEMMA SwitchedFacts ==
    ASSUME NEW s, Good(s), s.page = "monitor", NEW up \in BOOLEAN
    PROVE  LET t == Switched(s, up) IN Good(t) /\ Calm(s, t) /\ Kept(s, t)
<1> DEFINE d == OtherDoor(s.channel)
           sound == [AudioOpen(s, d, s.talking) EXCEPT !.way = "manual", !.channel = d]
           moved == VideoSwitch(sound, up)
<1>1. d \in Doors
  BY DEF OtherDoor, Doors
<1>. HIDE DEF d
<1>2. /\ sound \in UiStates /\ sound.page = "monitor" /\ sound.way = "manual"
      /\ sound.channel = d /\ sound.audio = d /\ sound.video = s.video
      /\ sound.talking = s.talking
      /\ sound.tuyaTalk = s.tuyaTalk /\ sound.motionTalk = s.motionTalk
  BY <1>1 DEF Good, UiStates, AudioOpen
<1>. HIDE DEF sound
<1>3. /\ moved \in UiStates /\ Same(sound, moved) /\ moved.audio = d
      /\ moved.video \in {NoDoor, d}
      /\ sound.video = d => moved.video = sound.video
  BY <1>1, <1>2 DEF UiStates, Same, VideoSwitch, Doors, NoDoor
<1>. HIDE DEF moved
<1>4. LET t == TalkCmd(moved, TRUE)
      IN  t \in UiStates /\ Same(moved, t) /\ t.audio = d /\ t.video = moved.video
  BY <1>3 DEF UiStates, Same, TalkCmd
<1>5. Switched(s, up) \in {moved, TalkCmd(moved, TRUE)}
  BY DEF Switched, moved, sound, d
<1>6. ASSUME NEW t \in UiStates, Same(moved, t), t.audio = d, t.video = moved.video
      PROVE  Good(t) /\ Calm(s, t) /\ Kept(s, t)
  BY <1>1, <1>2, <1>3, <1>6 DEF Same, Good, Shown, TalksThere, Calm, Kept, Doors, NoDoor
<1>7. Same(moved, moved)
  BY DEF Same
<1>. QED
  BY <1>3, <1>4, <1>5, <1>6, <1>7

\* monitor_hand_btn_up
LEMMA HungFacts ==
    ASSUME NEW s, Good(s), s.page = "monitor"
    PROVE  LET t == Hung(s) IN Good(t) /\ Calm(s, t) /\ Kept(s, t)
<1>1. Leavable(HangCmd(s)) /\ HangCmd(s).video = s.video
  BY DEF Good, Shown, Leavable, TalksThere, HangCmd, UiStates
<1>2. Hung(s) = GotoStandby(HangCmd(s))
  BY DEF Good, Shown, Hung
<1>. QED
  BY <1>1, <1>2, GotoFacts DEF Calm, Kept

\* monitor_talk_btn_up, once it is allowed: the one step that may begin to talk.
LEMMA TalkPressedFacts ==
    ASSUME NEW s, Good(s), s.page = "monitor"
    PROVE  LET t == TalkPressed(s)
           IN  Good(t) /\ (s.talking => t = s) /\ Kept(s, t)
<1> DEFINE on == [s EXCEPT !.talking = TRUE, !.talkTask = s.channel]
<1>1. /\ on \in UiStates /\ on.page = "monitor" /\ on.channel = s.channel
      /\ on.way = s.way /\ on.audio = s.audio /\ on.video = s.video
  BY DEF Good, UiStates
<1>. HIDE DEF on
<1>2. LET t == TalkCmd(on, TRUE)
      IN  /\ t \in UiStates /\ Same(on, t)
          /\ t.audio = s.audio /\ t.video = s.video
  BY <1>1 DEF UiStates, Same, TalkCmd
<1>3. TalkPressed(s) = IF s.talking \/ s.talkTask # NoDoor THEN s
                       ELSE TalkCmd(on, TRUE)
  BY DEF TalkPressed, on
<1>. QED
  BY <1>1, <1>2, <1>3 DEF Good, Shown, TalksThere, Same, Kept

\* tuya_switch_camera
LEMMA SwitchCameraFacts ==
    ASSUME NEW s, Good(s), NEW ch \in Doors, NEW up \in BOOLEAN
    PROVE  LET t == SwitchCamera(s, ch, up) IN Good(t) /\ Calm(s, t)
<1> DEFINE sound == AudioOpen([s EXCEPT !.channel = ch], ch, FALSE)
<1>1. /\ sound \in UiStates /\ sound.page = s.page /\ sound.way = s.way
      /\ sound.channel = ch /\ sound.audio = ch
      /\ sound.talking = s.talking
      /\ sound.tuyaTalk = s.tuyaTalk /\ sound.motionTalk = s.motionTalk
  BY DEF Good, UiStates, AudioOpen
<1>. HIDE DEF sound
<1>2. LET t == VideoSwitch(sound, up)
      IN  /\ t \in UiStates /\ Same(sound, t) /\ t.audio = ch
          /\ t.video \in {NoDoor, ch}
  BY <1>1 DEF UiStates, Same, VideoSwitch, Doors, NoDoor
<1>3. SwitchCamera(s, ch, up) = IF s.channel = ch THEN s ELSE VideoSwitch(sound, up)
  BY DEF SwitchCamera, sound
<1>. QED
  BY <1>1, <1>2, <1>3 DEF Good, Shown, TalksThere, Same, Calm

----------------------------------------------------------------------------
\* A step of the system.

\* What a step relies on and keeps: the unit is on a page it can show, nobody
\* begins to talk beside another unless no phone is counted, and a counted
\* phone keeps its picture but in the three actions that are named.
LEMMA StepFacts ==
    ASSUME Good(ui), Next
    PROVE  /\ Good(ui')
           /\ Calm(ui, ui') \/ ClientNum <= 0
           /\ \/ Kept(ui, ui')
              \/ \E d \in Doors : Swap(d)
              \/ MotionTimeout
              \/ MotionStops
<1>0. Calm(ui, ui) /\ Kept(ui, ui)
  BY DEF Calm, Kept
<1>1. CASE Phone
  BY <1>0, <1>1 DEF Phone
<1>2. CASE TuyaEvent
  BY <1>2, HandledFacts DEF TuyaEvent
<1>3. CASE TalkButton
  <2>1. PICK busy \in BOOLEAN, claim \in BOOLEAN : TalkAllowed(busy, claim)
    BY <1>3 DEF TalkButton
  <2>2. ui.page = "monitor" /\ ui' = TalkPressed(ui)
    BY <1>3 DEF TalkButton, On
  <2>. QED
    BY <1>0, <2>1, <2>2, TalkPressedFacts DEF TalkAllowed
<1>4. CASE TalkTask
  <2> DEFINE open == AudioOpen(ui, ui.channel, TRUE)
             told == TalkCmd(open, TRUE)
             t == IF ui.talkTask = ui.channel THEN told ELSE ui
  <2>1. open \in UiStates /\ Same(ui, open)
        /\ open.audio = ui.channel /\ open.video = ui.video
    BY DEF Good, UiStates, AudioOpen, Same
  <2>. HIDE DEF open
  <2>2. told \in UiStates /\ Same(ui, told)
        /\ told.audio = ui.channel /\ told.video = ui.video
    BY <2>1 DEF UiStates, Same, TalkCmd
  <2>. HIDE DEF told
  <2>3. /\ t \in UiStates /\ Same(ui, t)
        /\ t.audio \in {ui.audio, ui.channel} /\ t.video = ui.video
    BY <2>2 DEF Good, Same
  <2>4. ui' = [t EXCEPT !.talkTask = NoDoor]
    BY <1>4 DEF TalkTask, t, told, open
  <2>. HIDE DEF t
  <2>5. /\ ui' \in UiStates /\ Same(t, ui')
        /\ ui'.audio = t.audio /\ ui'.video = t.video
    BY <2>3, <2>4 DEF UiStates, Same
  <2>. QED
    BY <2>3, <2>5 DEF Good, Shown, TalksThere, Same, Calm, Kept
<1>5. CASE HandButton
  BY <1>5, HungFacts DEF HandButton, On
<1>6. CASE SwitchButton
  BY <1>6, SwitchedFacts DEF SwitchButton, On
<1>7. CASE MechanicalKeyInside
  <2>1. ui.page = "monitor"
    BY <1>7 DEF MechanicalKeyInside, On
  <2>2. CASE ~ui.talking /\ ui.way = "call"
    BY <1>7, <2>1, <2>2, TalkPressedFacts DEF MechanicalKeyInside, TalkAllowed
  <2>3. CASE ~(~ui.talking /\ ui.way = "call") /\ (ui.talking \/ ui.channel = 2)
    BY <1>7, <2>1, <2>3, HungFacts DEF MechanicalKeyInside
  <2>4. CASE ~(~ui.talking /\ ui.way = "call") /\ ~(ui.talking \/ ui.channel = 2)
    BY <1>7, <2>1, <2>4, SwitchedFacts DEF MechanicalKeyInside
  <2>. QED
    BY <2>2, <2>3, <2>4
<1>8. CASE MonitorEnds
  BY <1>8, GotoFacts DEF MonitorEnds, On, Good, Leavable, Calm, Kept
<1>9. CASE DeviceBusy
  BY <1>9 DEF DeviceBusy, Good, Shown, TalksThere, Calm, Kept, UiStates
<1>10. CASE \E d \in Doors : Swap(d)
  BY <1>10, SwitchCameraFacts DEF Swap
<1>11. ASSUME NEW d \in Doors, CallInside(d)
       PROVE  Good(ui') /\ Calm(ui, ui') /\ Kept(ui, ui')
  <2> DEFINE called == [ui EXCEPT !.talking = FALSE, !.channel = d]
  <2>1. PICK up \in BOOLEAN :
           ui' = AudioOpen(VideoSwitch(called, up), d, FALSE)
    BY <1>11 DEF CallInside
  <2> DEFINE moved == VideoSwitch(called, up)
  <2>2. /\ called \in UiStates /\ called.page = "monitor" /\ called.channel = d
        /\ called.way = ui.way /\ ~called.talking /\ called.video = ui.video
    BY <1>11 DEF Good, UiStates, CallInside, On
  <2>. HIDE DEF called
  <2>3. /\ moved \in UiStates /\ Same(called, moved)
        /\ moved.video \in {NoDoor, d}
        /\ called.video = d => moved.video = called.video
    BY <2>2 DEF UiStates, Same, VideoSwitch, Doors, NoDoor
  <2>4. ui' = AudioOpen(moved, d, FALSE)
    BY <2>1
  <2>. HIDE DEF moved
  <2>5. /\ ui' \in UiStates /\ Same(moved, ui')
        /\ ui'.audio = d /\ ui'.video = moved.video
    BY <2>3, <2>4, MediaFacts, MediaKeeps
  <2>6. ui.page = "monitor"
    BY <1>11 DEF CallInside, On
  <2>. QED
    BY <2>2, <2>3, <2>5, <2>6 DEF Good, Shown, TalksThere, Same, Calm, Kept,
       Doors, NoDoor
<1>12. ASSUME NEW d \in Doors, CallExtern(d)
       PROVE  Good(ui') /\ Calm(ui, ui') /\ Kept(ui, ui')
  BY <1>12, ManualFacts DEF CallExtern
<1>13. ASSUME NEW d \in Doors, ui.page # "monitor", Manual(d)
       PROVE  Good(ui') /\ Calm(ui, ui') /\ Kept(ui, ui')
  BY <1>13, ManualFacts DEF Manual
<1>14. CASE MechanicalKeyExtern
  BY <1>13, <1>14 DEF MechanicalKeyExtern, Doors
<1>15. CASE Shortcut
  BY <1>13, <1>15 DEF Shortcut, On, Doors
<1>16. ASSUME NEW d \in Doors, DoorButton(d)
       PROVE  Good(ui') /\ Calm(ui, ui') /\ Kept(ui, ui')
  BY <1>13, <1>16 DEF DoorButton, On
<1>17. CASE StandbyTouch \/ HomeBack
  BY <1>17, GotoFacts
     DEF StandbyTouch, HomeBack, On, Good, Leavable, Calm, Kept
<1>18. ASSUME NEW t, t \in UiStates, t.page # "monitor", ~t.talking,
              t.video = ui.video, ui' = GotoStandby(t)
       PROVE  Good(ui') /\ Calm(ui, ui') /\ Kept(ui, ui')
  BY <1>18, GotoFacts DEF Leavable, TalksThere, Calm, Kept
<1>19. CASE \E d \in Doors : IndoorTalksStandby(d)
  <2>1. /\ ui' = GotoStandby([ui EXCEPT !.channel = NoDoor])
        /\ ui.page = "standby"
    BY <1>19 DEF IndoorTalksStandby, On
  <2>. QED
    BY <1>18, <2>1 DEF Good, TalksThere, UiStates
<1>20. CASE MotionBack
  <2>1. /\ ui' = GotoStandby([ui EXCEPT !.channel = NoDoor])
        /\ ui.page = "standby"
    BY <1>20 DEF MotionBack, On
  <2>. QED
    BY <1>18, <2>1 DEF Good, TalksThere, UiStates
<1>21. CASE MotionStops \/ MotionTimeout
  <2>1. ui' = GotoStandby(MonitorClose(ui)) /\ ui.page = "standby"
    BY <1>21 DEF MotionStops, MotionTimeout, On
  <2>2. /\ Leavable(MonitorClose(ui))
    BY <2>1 DEF Good, Leavable, TalksThere, MonitorClose, UiStates
  <2>. QED
    BY <1>21, <2>1, <2>2, GotoFacts DEF Calm
<1>22. ASSUME NEW d \in Doors, MotionDetected(d)
       PROVE  Good(ui') /\ Calm(ui, ui') /\ Kept(ui, ui')
  <2>1. PICK up \in BOOLEAN, how \in {"hidden", "shown"} :
           ui' = [VideoOpen(AudioOpen([ui EXCEPT !.channel = d], d, FALSE), up) EXCEPT
                     !.way = "motion", !.motion = how]
    BY <1>22 DEF MotionDetected
  <2> DEFINE sound == AudioOpen([ui EXCEPT !.channel = d], d, FALSE)
             seen == VideoOpen(sound, up)
  <2>2. /\ sound \in UiStates /\ sound.page = "standby" /\ ~sound.talking
        /\ sound.video = ui.video
    BY <1>22 DEF MotionDetected, On, Good, TalksThere, UiStates, AudioOpen
  <2>. HIDE DEF sound
  <2>3. /\ seen \in UiStates /\ seen.page = "standby" /\ ~seen.talking
        /\ ui.video # NoDoor => seen.video = ui.video
    BY <2>2 DEF UiStates, VideoOpen
  <2>4. ui' = [seen EXCEPT !.way = "motion", !.motion = how]
    BY <2>1 DEF seen, sound
  <2>. HIDE DEF seen
  <2>. QED
    BY <2>3, <2>4 DEF Good, Shown, TalksThere, Calm, Kept, UiStates
<1>. QED
  BY <1>1, <1>2, <1>3, <1>4, <1>5, <1>6, <1>7, <1>8, <1>9, <1>10, <1>11, <1>12,
     <1>14, <1>15, <1>16, <1>17, <1>19, <1>20, <1>21, <1>22 DEF Next

\* The user interface is always in a state it can show.
THEOREM AlwaysGood == Spec => []Good(ui)
<1>1. Init => Good(ui)
  BY DEF Init, Start, Good, UiStates, Shown, TalksThere, Doors, NoDoor
<1>2. Good(ui) /\ [Next]_vars => Good(ui)'
  BY StepFacts DEF vars
<1>. QED
  BY <1>1, <1>2, PTL DEF Spec

\* On the monitor page sound and picture are always of the door it shows.
THEOREM AlwaysWhatIsShown == Spec => []WhatIsShown
<1>1. Good(ui) => WhatIsShown
  BY DEF Good, Shown, WhatIsShown
<1>. QED
  BY <1>1, AlwaysGood, PTL

\* The person at the unit and a phone that is counted never come to talk both.
THEOREM NeverTwoTalkers == Spec => OneTalker
<1>1. Good(ui) /\ [Next]_vars => [Both(ui') => Both(ui) \/ ClientNum <= 0]_vars
  BY StepFacts DEF Calm, Both
<1>. QED
  BY <1>1, AlwaysGood, PTL DEF Spec, OneTalker

\* No page takes the stream of a counted phone away, but in the named cases.
THEOREM StreamIsKept == Spec => PageKeepsStream
<1>1. Good(ui) /\ [Next]_vars
      => [ClientNum > 0 /\ ui.video # NoDoor /\ ui'.video = NoDoor
          => \/ \E d \in Doors : Swap(d)
             \/ OtherDoorShown
             \/ MotionTimeout \/ MotionStops]_vars
  BY StepFacts DEF Kept, OtherDoorShown
<1>. QED
  BY <1>1, AlwaysGood, PTL DEF Spec, PageKeepsStream

----------------------------------------------------------------------------
\* The microphone and the door that was told to talk.

\* From s to t no microphone was left on and no door left talking alone.
Hushed(s, t) ==
    /\ OpenMic(t) => OpenMic(s)
    /\ Unattended(t) => Unattended(s)

\* The parts of the state this is about.
Speaks(s, mic, talking, tuya, motion, told) ==
    /\ s.mic = mic /\ s.talking = talking
    /\ s.tuyaTalk = tuya /\ s.motionTalk = motion
    /\ s.told = told
Alike(s, t) == Speaks(s, t.mic, t.talking, t.tuyaTalk, t.motionTalk, t.told)

LEMMA HushedFacts ==
    /\ \A s, t : Alike(s, t) => Hushed(s, t) /\ Hushed(t, s)
    /\ \A s, t, u : Hushed(s, t) /\ Hushed(t, u) => Hushed(s, u)
  BY DEF Alike, Speaks, Hushed, OpenMic, Unattended

\* What the media and bus functions do to these parts.
LEMMA VideoSpeaks ==
    ASSUME NEW s \in UiStates
    PROVE  /\ \A up \in BOOLEAN : Alike(VideoOpen(s, up), s)
           /\ \A up \in BOOLEAN : Alike(VideoSwitch(s, up), s)
           /\ Alike(VideoClose(s), s)
           /\ Alike(MonitorClose(s), s)
<1>1. ASSUME NEW up \in BOOLEAN
      PROVE  Alike(VideoOpen(s, up), s) /\ Alike(VideoSwitch(s, up), s)
  BY DEF UiStates, Alike, Speaks, VideoOpen, VideoSwitch
<1>2. Alike(VideoClose(s), s) /\ Alike(MonitorClose(s), s)
  BY DEF UiStates, Alike, Speaks, VideoClose, MonitorClose
<1>. QED
  BY <1>1, <1>2

LEMMA AudioSpeaks ==
    ASSUME NEW s \in UiStates
    PROVE  /\ \A d \in Doors, mic \in BOOLEAN :
                Speaks(AudioOpen(s, d, mic), mic,
                       s.talking, s.tuyaTalk, s.motionTalk, s.told)
           /\ AudioClose(s, TRUE) \in UiStates
           /\ Speaks(AudioClose(s, TRUE), FALSE,
                     s.talking, s.tuyaTalk, s.motionTalk, s.told)
           /\ TuyaAudioOpen(s) \in UiStates
           /\ Speaks(TuyaAudioOpen(s), FALSE,
                     s.talking, s.tuyaTalk, s.motionTalk, s.told)
<1>1. ASSUME NEW d \in Doors, NEW mic \in BOOLEAN
      PROVE  Speaks(AudioOpen(s, d, mic), mic,
                    s.talking, s.tuyaTalk, s.motionTalk, s.told)
  BY DEF UiStates, Alike, Speaks, AudioOpen
<1>2. /\ AudioClose(s, TRUE).mic = FALSE /\ AudioClose(s, TRUE).talking = s.talking
      /\ AudioClose(s, TRUE).tuyaTalk = s.tuyaTalk
      /\ AudioClose(s, TRUE).motionTalk = s.motionTalk
      /\ AudioClose(s, TRUE).told = s.told
  BY ZenonT(60) DEF UiStates, AudioClose
<1>3. AudioClose(s, TRUE) \in UiStates
  BY MediaFacts
<1>4. TuyaAudioOpen(s) \in UiStates
  BY MediaFacts DEF TuyaAudioOpen, Doors
<1>5. Speaks(TuyaAudioOpen(s), FALSE,
             s.talking, s.tuyaTalk, s.motionTalk, s.told)
  BY <1>1 DEF TuyaAudioOpen, Doors
<1>. QED
  BY <1>1, <1>2, <1>3, <1>4, <1>5 DEF Alike, Speaks

LEMMA BusSpeaks ==
    ASSUME NEW s \in UiStates
    PROVE  /\ TalkCmd(s, FALSE) \in UiStates
           /\ TalkCmd(s, FALSE).page = s.page
           /\ Speaks(TalkCmd(s, FALSE), s.mic,
                     s.talking, s.tuyaTalk, s.motionTalk, NoDoor)
           /\ HangCmd(s) \in UiStates
           /\ HangCmd(s).page = s.page
           /\ HangCmd(s).told \in {s.told, NoDoor}
           /\ Speaks(HangCmd(s), s.mic,
                     s.talking, s.tuyaTalk, s.motionTalk, HangCmd(s).told)
<1>1. /\ TalkCmd(s, FALSE).page = s.page
      /\ Speaks(TalkCmd(s, FALSE), s.mic,
                s.talking, s.tuyaTalk, s.motionTalk, NoDoor)
  BY DEF UiStates, Alike, Speaks, TalkCmd
<1>2. /\ HangCmd(s).told \in {s.told, NoDoor}
      /\ HangCmd(s).page = s.page
      /\ Speaks(HangCmd(s), s.mic,
                s.talking, s.tuyaTalk, s.motionTalk, HangCmd(s).told)
  BY DEF UiStates, Alike, Speaks, HangCmd
<1>3. TalkCmd(s, FALSE) \in UiStates /\ HangCmd(s) \in UiStates
  BY MediaFacts
<1>. QED
  BY <1>1, <1>2, <1>3

\* Leaving a page: a watched monitor page is the only one that leaves a talk
\* behind.
LEMMA LeaveHushed ==
    ASSUME NEW s, Leavable(s), s.page = "monitor" => ~Keep(s)
    PROVE  /\ Hushed(s, Leave(s))
           /\ Hushed(s, GotoStandby(s))
           /\ Hushed(s, GotoHome(s))
<1>1. s \in UiStates /\ Leave(s) \in UiStates
  BY LeaveFacts DEF Leavable
<1>2. Hushed(s, Leave(s))
  <2>1. CASE s.page = "monitor"
    <3> DEFINE closed == AudioClose(MonitorClose(s), TRUE)
               told == IF s.tuyaTalk \/ s.talking THEN TalkCmd(closed, FALSE) ELSE closed
               ended == [told EXCEPT !.tuyaTalk = FALSE]
               left == [ended EXCEPT !.talkTask = NoDoor, !.talking = FALSE,
                                     !.way = "none"]
    <3>1. /\ closed \in UiStates
          /\ Speaks(closed, FALSE, s.talking, s.tuyaTalk, s.motionTalk, s.told)
      <4>1. MonitorClose(s) \in UiStates /\ Alike(MonitorClose(s), s)
        BY <1>1, MediaFacts, VideoSpeaks
      <4>2. Speaks(MonitorClose(s), s.mic,
                   s.talking, s.tuyaTalk, s.motionTalk, s.told)
        BY <4>1 DEF Alike, Speaks
      <4>. QED
        BY <4>1, <4>2, AudioSpeaks DEF Alike, Speaks
    <3>. HIDE DEF closed
    <3>2. /\ TalkCmd(closed, FALSE) \in UiStates
          /\ Speaks(TalkCmd(closed, FALSE), FALSE,
                    s.talking, s.tuyaTalk, s.motionTalk, NoDoor)
      BY <3>1, BusSpeaks DEF Alike, Speaks
    <3>3. /\ told \in UiStates /\ ~told.mic /\ told.motionTalk = s.motionTalk
          /\ told.told = IF s.tuyaTalk \/ s.talking THEN NoDoor ELSE s.told
      BY <3>1, <3>2 DEF Alike, Speaks
    <3>. HIDE DEF told
    <3>4. /\ ended \in UiStates /\ ~ended.mic /\ ~ended.tuyaTalk
          /\ ended.motionTalk = s.motionTalk /\ ended.told = told.told
      BY <3>3 DEF UiStates
    <3>5. LeaveMonitor(s) = left
      BY <2>1 DEF LeaveMonitor, EndMonitor, Leavable, closed, told, ended
    <3>. HIDE DEF ended
    <3>6. /\ ~left.mic /\ ~left.talking /\ ~left.tuyaTalk
          /\ left.motionTalk = s.motionTalk /\ left.told = told.told
      BY <3>4 DEF UiStates
    <3>7. Hushed(s, left)
      BY <3>3, <3>6 DEF Hushed, OpenMic, Unattended
    <3>. QED
      BY <2>1, <3>5, <3>7 DEF Leave
  <2>2. CASE s.page = "standby"
    <3> DEFINE kept == IF s.way = "call" \/ Keep(s) THEN s
                       ELSE AudioClose(VideoClose(s), TRUE)
               way == IF s.motion # "off" /\ kept.way = "motion"
                      THEN "none" ELSE kept.way
               left == [kept EXCEPT !.motion = "off", !.way = way]
    <3>1. /\ AudioClose(VideoClose(s), TRUE) \in UiStates
          /\ Hushed(s, AudioClose(VideoClose(s), TRUE))
      <4> DEFINE shut == VideoClose(s)
      <4>1. shut \in UiStates /\ Alike(shut, s)
        BY <1>1, MediaFacts, VideoSpeaks
      <4>. HIDE DEF shut
      <4>2. AudioClose(shut, TRUE) \in UiStates /\ Hushed(shut, AudioClose(shut, TRUE))
        BY <4>1, AudioSpeaks DEF Alike, Speaks, Hushed, OpenMic, Unattended
      <4>. QED
        BY <4>1, <4>2, HushedFacts DEF shut
    <3>2. kept \in UiStates /\ Hushed(s, kept)
      BY <1>1, <3>1 DEF Hushed
    <3>3. LeaveStandby(s) = left
      BY DEF LeaveStandby
    <3>. HIDE DEF kept
    <3>4. Alike(left, kept)
      BY <3>2 DEF UiStates, Alike, Speaks
    <3>5. Hushed(s, left)
      BY <3>2, <3>4, HushedFacts
    <3>. QED
      BY <2>2, <3>3, <3>5 DEF Leave
  <2>3. CASE s.page = "home"
    BY <2>3 DEF Leave, Hushed
  <2>. QED
    BY <1>1, <2>1, <2>2, <2>3 DEF UiStates
<1> DEFINE left == Leave(s)
<1>3. /\ GotoStandby(s) = [left EXCEPT !.page = "standby"]
      /\ GotoHome(s) = [left EXCEPT !.page = "home", !.channel = NoDoor]
  BY DEF GotoStandby, GotoHome
<1>4. left \in UiStates /\ Hushed(s, left)
  BY <1>1, <1>2
<1>. HIDE DEF left
<1>5. Alike(GotoStandby(s), left) /\ Alike(GotoHome(s), left)
  BY <1>3, <1>4 DEF UiStates, Alike, Speaks
<1>. QED
  BY <1>2, <1>4, <1>5, HushedFacts

\* Leaving a page turns no microphone on, watched or not.
LEMMA LeaveQuiet ==
    ASSUME NEW s, Leavable(s), ~s.mic
    PROVE  ~GotoStandby(s).mic
<1>1. CASE s.page = "monitor" /\ Keep(s)
  <2>1. LeaveMonitor(s) = [s EXCEPT !.talkTask = NoDoor, !.talking = FALSE, !.way = "none"]
    BY <1>1 DEF LeaveMonitor, Leavable
  <2>. QED
    BY <1>1, <2>1 DEF GotoStandby, Leave, Leavable, UiStates
<1>2. CASE ~(s.page = "monitor" /\ Keep(s))
  BY <1>2, LeaveHushed, GotoFacts DEF Hushed, OpenMic
<1>. QED
  BY <1>1, <1>2

\* The monitor page that is opened from another one comes without microphone.
LEMMA ManualHushed ==
    ASSUME NEW s, Good(s), s.page # "monitor",
           NEW d \in Doors, NEW way \in {"manual", "call"}, NEW up \in BOOLEAN
    PROVE  Hushed(s, AudioOpen(GotoMonitor([s EXCEPT !.channel = d, !.way = way], up),
                               d, FALSE))
<1> DEFINE opened == [s EXCEPT !.channel = d, !.way = way]
           left == Leave(opened)
           entered == [left EXCEPT !.page = "monitor"]
           moved == VideoSwitch(entered, up)
<1>1. Leavable(opened) /\ opened.page # "monitor" /\ Alike(opened, s)
  BY DEF Good, Leavable, TalksThere, UiStates, Alike, Speaks
<1>. HIDE DEF opened
<1>2. left \in UiStates /\ Hushed(opened, left)
  BY <1>1, LeaveFacts, LeaveHushed
<1>. HIDE DEF left
<1>3. entered \in UiStates /\ Alike(entered, left)
  BY <1>2 DEF UiStates, Alike, Speaks
<1>. HIDE DEF entered
<1>4. moved \in UiStates /\ Alike(moved, entered)
  BY <1>3, MediaFacts, VideoSpeaks
<1>. HIDE DEF moved
<1>5. Hushed(moved, AudioOpen(moved, d, FALSE))
  BY <1>4, AudioSpeaks DEF Alike, Speaks, Hushed, OpenMic, Unattended
<1>6. Hushed(s, moved)
  BY <1>1, <1>2, <1>3, <1>4, HushedFacts
<1>7. GotoMonitor(opened, up) = moved
  BY DEF GotoMonitor, moved, entered, left
<1>. QED
  BY <1>5, <1>6, <1>7, HushedFacts DEF opened

\* The end of the phone's talk: the microphone stays on if the person at the
\* unit talks too, whose talk it ends.
LEMMA TalkStopsHushed ==
    ASSUME NEW s \in UiStates
    PROVE  /\ Unattended(TalkStops(s)) => Unattended(s)
           /\ OpenMic(TalkStops(s)) => OpenMic(s) \/ Both(s)
<1> DEFINE quiet == TalkCmd(s, FALSE)
           t == [quiet EXCEPT !.talking = FALSE, !.tuyaTalk = FALSE]
<1>1. quiet \in UiStates /\ quiet.told = NoDoor /\ quiet.mic = s.mic
  BY BusSpeaks DEF Alike, Speaks
<1>. HIDE DEF quiet
<1>2. t.told = NoDoor /\ t.mic = s.mic
  BY <1>1 DEF UiStates
<1>3. TalkStops(s) = IF s.tuyaTalk THEN t ELSE s
  BY DEF TalkStops, quiet
<1>. QED
  BY <1>2, <1>3 DEF OpenMic, Unattended, Both

\* The talk of a phone begins, on any page: the microphone goes off, and the
\* flag says who talks.
LEMMA PhoneBegins ==
    ASSUME NEW s \in UiStates
    PROVE  LET on == TalkCmd(TuyaAudioOpen(s), TRUE)
           IN  /\ Hushed(s, [on EXCEPT !.tuyaTalk = TRUE])
               /\ Hushed(s, [on EXCEPT !.motionTalk = TRUE])
               /\ Hushed(s, [on EXCEPT !.talking = FALSE, !.tuyaTalk = TRUE])
<1> DEFINE sound == TuyaAudioOpen(s)
           on == TalkCmd(sound, TRUE)
<1>1. sound \in UiStates /\ ~sound.mic
  BY AudioSpeaks DEF Speaks
<1>. HIDE DEF sound
<1>2. on \in UiStates /\ ~on.mic
  BY <1>1 DEF UiStates, TalkCmd
<1>. HIDE DEF on
<1>3. /\ ~[on EXCEPT !.tuyaTalk = TRUE].mic /\ [on EXCEPT !.tuyaTalk = TRUE].tuyaTalk
      /\ ~[on EXCEPT !.motionTalk = TRUE].mic
      /\ [on EXCEPT !.motionTalk = TRUE].motionTalk
      /\ ~[on EXCEPT !.talking = FALSE, !.tuyaTalk = TRUE].mic
      /\ [on EXCEPT !.talking = FALSE, !.tuyaTalk = TRUE].tuyaTalk
  BY <1>2 DEF UiStates
<1>. QED
  BY <1>3 DEF Hushed, OpenMic, Unattended, on, sound

\* The events of the phone.
LEMMA HandledHushed ==
    ASSUME NEW s, Good(s), NEW e, NEW up \in SUBSET Doors, NEW busy \in BOOLEAN
    PROVE  LET t == Handled(s, e, up, busy)
           IN  /\ Unattended(t) => Unattended(s) \/ (e = Enter /\ s.page = "monitor")
               /\ OpenMic(t) => OpenMic(s) \/ (e = Talk(0) /\ Both(s))
<1> DEFINE Fine(t) ==
             /\ Unattended(t) => Unattended(s) \/ (e = Enter /\ s.page = "monitor")
             /\ OpenMic(t) => OpenMic(s) \/ (e = Talk(0) /\ Both(s))
<1>1. s \in UiStates
  BY DEF Good
<1>2. \A t : Hushed(s, t) => Fine(t)
  BY DEF Hushed
<1>3. Hushed(s, s)
  BY DEF Hushed
<1>4. CASE s.page = "monitor"
  <2>1. Hushed(s, PhoneTalks(s))
    BY <1>1, PhoneBegins DEF PhoneTalks
  <2>2. e = Talk(0) => Fine(TalkStops(s))
    BY <1>1, TalkStopsHushed
  <2>3. e = Enter => Fine(PhoneAnswer(s))
    <3> DEFINE closed == AudioClose(s, TRUE)
               sound == TuyaAudioOpen(closed)
               answered == [sound EXCEPT !.talking = FALSE, !.way = "none"]
    <3>1. closed \in UiStates
      BY <1>1, MediaFacts
    <3>. HIDE DEF closed
    <3>2. sound \in UiStates /\ ~sound.mic
      BY <3>1, AudioSpeaks DEF Speaks
    <3>. HIDE DEF sound
    <3>3. /\ Leavable(answered) /\ ~answered.mic
      BY <3>2 DEF UiStates, Leavable, TalksThere
    <3>4. PhoneAnswer(s) = GotoStandby(answered)
      BY DEF PhoneAnswer, answered, sound, closed
    <3>. HIDE DEF answered
    <3>5. ~GotoStandby(answered).mic
      BY <3>3, LeaveQuiet
    <3>. QED
      BY <1>4, <3>4, <3>5 DEF OpenMic
  <2>. QED
    BY <1>2, <1>3, <1>4, <2>1, <2>2, <2>3, EventsDiffer DEF Handled, Inside
<1>5. CASE s.page # "monitor" /\ s.motion # "off"
  <2>1. Hushed(s, [TalkCmd(TuyaAudioOpen(s), TRUE) EXCEPT !.motionTalk = TRUE])
    BY <1>1, PhoneBegins
  <2>2. Hushed(s, [TalkCmd(s, FALSE) EXCEPT !.motionTalk = FALSE])
    <3> DEFINE quiet == TalkCmd(s, FALSE)
    <3>1. /\ quiet \in UiStates /\ quiet.told = NoDoor /\ quiet.mic = s.mic
          /\ quiet.talking = s.talking
      BY <1>1, BusSpeaks DEF Alike, Speaks
    <3>. HIDE DEF quiet
    <3>2. LET t == [quiet EXCEPT !.motionTalk = FALSE]
          IN  t.told = NoDoor /\ t.mic = s.mic /\ t.talking = s.talking
      BY <3>1 DEF UiStates
    <3>. QED
      BY <3>2 DEF Hushed, OpenMic, Unattended, quiet
  <2>3. Hushed(s, [s EXCEPT !.way = "tuya"])
    BY <1>1, HushedFacts DEF UiStates, Alike, Speaks
  <2>4. Hushed(s, MotionQuit(s))
    <3> DEFINE hang == HangCmd(s)
               hung == [hang EXCEPT !.channel = NoDoor, !.way = "none"]
               told == IF s.motionTalk THEN TalkCmd(hung, FALSE) ELSE hung
               quit == [told EXCEPT !.motionTalk = FALSE]
    <3>1. /\ hang \in UiStates /\ hang.told \in {s.told, NoDoor} /\ hang.page = s.page
          /\ Speaks(hang, s.mic, s.talking, s.tuyaTalk, s.motionTalk, hang.told)
      BY <1>1, BusSpeaks
    <3>. HIDE DEF hang
    <3>2. hung \in UiStates /\ Alike(hung, hang) /\ hung.page = s.page
      BY <3>1 DEF UiStates, Alike, Speaks
    <3>. HIDE DEF hung
    <3>3. /\ TalkCmd(hung, FALSE) \in UiStates /\ TalkCmd(hung, FALSE).page = s.page
          /\ Speaks(TalkCmd(hung, FALSE), s.mic,
                    s.talking, s.tuyaTalk, s.motionTalk, NoDoor)
      BY <3>1, <3>2, BusSpeaks DEF Alike, Speaks
    <3>4. /\ told \in UiStates /\ told.page = s.page
          /\ told.mic = s.mic /\ told.talking = s.talking
          /\ told.tuyaTalk = s.tuyaTalk
          /\ told.told \in {s.told, NoDoor} /\ (s.motionTalk => told.told = NoDoor)
      BY <3>1, <3>2, <3>3 DEF Alike, Speaks
    <3>. HIDE DEF told
    <3>5. /\ quit \in UiStates /\ quit.page = s.page
          /\ quit.mic = s.mic /\ quit.talking = s.talking
          /\ quit.tuyaTalk = s.tuyaTalk /\ quit.told = told.told
      BY <3>4 DEF UiStates
    <3>6. MotionQuit(s) = GotoStandby(quit)
      BY DEF MotionQuit, quit, told, hung, hang
    <3>. HIDE DEF quit
    <3>7. Leavable(quit)
      BY <1>5, <3>5 DEF Good, Leavable, TalksThere
    <3>8. Hushed(s, quit)
      BY <3>4, <3>5 DEF Hushed, OpenMic, Unattended
    <3>. QED
      BY <1>5, <3>5, <3>6, <3>7, <3>8, LeaveHushed, HushedFacts
  <2>. QED
    BY <1>2, <1>3, <1>5, <2>1, <2>2, <2>3, <2>4 DEF Handled, Motion
<1>6. CASE s.page # "monitor" /\ s.motion = "off"
  <2>1. Hushed(s, [TalkCmd(TuyaAudioOpen(s), TRUE) EXCEPT !.tuyaTalk = TRUE])
    BY <1>1, PhoneBegins
  <2>2. e = Talk(0) => Fine(TalkStops(s))
    BY <1>1, TalkStopsHushed
  <2>3. Hushed(s, BackgroundOpen(s, up, busy))
    <3> DEFINE ch == [s EXCEPT !.channel = FirstOnline(up)]
               sound == IF busy THEN ch ELSE TuyaAudioOpen(ch)
               open == [sound EXCEPT !.way = "tuya"]
               seen == VideoOpen(open, sound.channel \in up)
    <3>1. ch \in UiStates /\ Alike(ch, s)
      BY <1>1 DEF UiStates, Alike, Speaks, FirstOnline, Doors
    <3>. HIDE DEF ch
    <3>2. /\ TuyaAudioOpen(ch) \in UiStates
          /\ Speaks(TuyaAudioOpen(ch), FALSE,
                    s.talking, s.tuyaTalk, s.motionTalk, s.told)
      <4>1. Speaks(ch, s.mic, s.talking, s.tuyaTalk, s.motionTalk, s.told)
        BY <3>1 DEF Alike, Speaks
      <4>. QED
        BY <3>1, <4>1, AudioSpeaks DEF Alike, Speaks
    <3>3. sound \in UiStates /\ Hushed(s, sound)
      <4>1. Hushed(s, ch)
        BY <3>1, HushedFacts
      <4>2. Hushed(s, TuyaAudioOpen(ch))
        BY <3>2 DEF Alike, Speaks, Hushed, OpenMic, Unattended
      <4>. QED
        BY <3>1, <3>2, <4>1, <4>2
    <3>. HIDE DEF sound
    <3>4. open \in UiStates /\ Alike(open, sound)
      BY <3>3 DEF UiStates, Alike, Speaks
    <3>. HIDE DEF open
    <3>5. Alike(seen, open)
      <4>1. (sound.channel \in up) \in BOOLEAN
        OBVIOUS
      <4>. QED
        BY <3>4, <4>1, VideoSpeaks
    <3>6. BackgroundOpen(s, up, busy) = seen
      BY DEF BackgroundOpen, seen, open, sound, ch
    <3>. HIDE DEF seen
    <3>. QED
      BY <3>3, <3>4, <3>5, <3>6, HushedFacts
  <2>4. Hushed(s, BackgroundClose(s))
    <3> DEFINE closed == AudioClose(s, TRUE)
               told == IF s.tuyaTalk \/ s.talking THEN TalkCmd(closed, FALSE) ELSE closed
               end == [told EXCEPT !.talking = FALSE, !.tuyaTalk = FALSE,
                                   !.channel = NoDoor, !.way = "none"]
    <3>1. /\ closed \in UiStates
          /\ Speaks(closed, FALSE, s.talking, s.tuyaTalk, s.motionTalk, s.told)
      BY <1>1, AudioSpeaks
    <3>. HIDE DEF closed
    <3>2. /\ TalkCmd(closed, FALSE) \in UiStates
          /\ Speaks(TalkCmd(closed, FALSE), FALSE,
                    s.talking, s.tuyaTalk, s.motionTalk, NoDoor)
      BY <3>1, BusSpeaks DEF Alike, Speaks
    <3>3. /\ told \in UiStates /\ ~told.mic /\ told.motionTalk = s.motionTalk
          /\ told.told = IF s.tuyaTalk \/ s.talking THEN NoDoor ELSE s.told
      BY <3>1, <3>2 DEF Alike, Speaks
    <3>. HIDE DEF told
    <3>4. ~end.mic /\ end.motionTalk = s.motionTalk /\ end.told = told.told
      BY <3>3 DEF UiStates
    <3>5. BackgroundClose(s) = end
      BY DEF BackgroundClose, end, told, closed
    <3>. HIDE DEF end
    <3>. QED
      BY <3>3, <3>4, <3>5 DEF Hushed, OpenMic, Unattended
  <2>. QED
    BY <1>2, <1>3, <1>6, <2>1, <2>2, <2>3, <2>4, EventsDiffer DEF Handled, Extern
<1>. QED
  BY <1>4, <1>5, <1>6

\* The standby page is entered: only a watched monitor page leaves a talk.
LEMMA StandbyHushed ==
    ASSUME NEW t, Leavable(t), Hushed(ui, t), t.page = ui.page, ui' = GotoStandby(t)
    PROVE  Hushed(ui, ui') \/ LeftWatched
<1>1. Keep(t) <=> Keep(ui)
  BY DEF Keep
<1>2. ui'.page = "standby"
  BY LeaveFacts DEF GotoStandby, UiStates
<1>3. CASE ui.page = "monitor" /\ Keep(ui)
  BY <1>2, <1>3 DEF LeftWatched
<1>4. CASE ~(ui.page = "monitor" /\ Keep(ui))
  BY <1>1, <1>4, LeaveHushed, HushedFacts
<1>. QED
  BY <1>3, <1>4

\* monitor_hand_btn_up, monitor_switch_btn_up and the talk button, which the
\* mechanical key shares.
LEMMA ButtonsHushed ==
    ASSUME Good(ui), ui.page = "monitor"
    PROVE  /\ ui' = Hung(ui) => Hushed(ui, ui') \/ LeftWatched
           /\ \A up \in BOOLEAN : Hushed(ui, Switched(ui, up))
           /\ Hushed(ui, TalkPressed(ui))
<1>1. ASSUME ui' = Hung(ui) PROVE Hushed(ui, ui') \/ LeftWatched
  <2> DEFINE hang == HangCmd(ui)
  <2>1. /\ hang \in UiStates /\ hang.page = ui.page /\ hang.told \in {ui.told, NoDoor}
        /\ Speaks(hang, ui.mic, ui.talking, ui.tuyaTalk, ui.motionTalk, hang.told)
    BY BusSpeaks DEF Good
  <2>2. Leavable(hang)
    BY DEF Good, Shown, Leavable, TalksThere, HangCmd, UiStates
  <2>3. Hung(ui) = GotoStandby(hang)
    BY DEF Good, Shown, Hung
  <2>. HIDE DEF hang
  <2>4. Hushed(ui, hang)
    BY <2>1 DEF Speaks, Hushed, OpenMic, Unattended
  <2>. QED
    BY <1>1, <2>1, <2>2, <2>3, <2>4, StandbyHushed
<1>2. ASSUME NEW up \in BOOLEAN PROVE Hushed(ui, Switched(ui, up))
  <2> DEFINE d == OtherDoor(ui.channel)
             sound == AudioOpen(ui, d, ui.talking)
             chosen == [sound EXCEPT !.way = "manual", !.channel = d]
             moved == VideoSwitch(chosen, up)
  <2>1. d \in Doors
    BY DEF OtherDoor, Doors
  <2>. HIDE DEF d
  <2>2. /\ sound \in UiStates
        /\ Speaks(sound, ui.talking, ui.talking, ui.tuyaTalk, ui.motionTalk, ui.told)
    <3>1. ui \in UiStates /\ ui.talking \in BOOLEAN
      BY DEF Good, UiStates
    <3>. QED
      BY <2>1, <3>1, MediaFacts, AudioSpeaks
  <2>. HIDE DEF sound
  <2>3. chosen \in UiStates /\ Alike(chosen, sound)
    BY <2>1, <2>2 DEF UiStates, Alike, Speaks
  <2>. HIDE DEF chosen
  <2>4. moved \in UiStates /\ Alike(moved, chosen)
    BY <2>3, MediaFacts, VideoSpeaks
  <2>. HIDE DEF moved
  <2>5. /\ moved.mic = ui.talking /\ moved.talking = ui.talking
        /\ moved.tuyaTalk = ui.tuyaTalk /\ moved.motionTalk = ui.motionTalk
        /\ moved.told = ui.told
    BY <2>2, <2>3, <2>4 DEF Alike, Speaks
  <2>6. TalkCmd(moved, TRUE).talking = moved.talking
    BY <2>4 DEF UiStates, TalkCmd
  <2>7. Switched(ui, up) = IF ui.talking THEN TalkCmd(moved, TRUE) ELSE moved
    BY DEF Switched, moved, chosen, sound, d
  <2>. QED
    BY <2>5, <2>6, <2>7 DEF Hushed, OpenMic, Unattended
<1>3. Hushed(ui, TalkPressed(ui))
  <2> DEFINE on == [ui EXCEPT !.talking = TRUE, !.talkTask = ui.channel]
  <2>1. on \in UiStates /\ on.talking
    BY DEF Good, UiStates
  <2>. HIDE DEF on
  <2>2. TalkCmd(on, TRUE).talking
    BY <2>1 DEF UiStates, TalkCmd
  <2>3. TalkPressed(ui) = IF ui.talking \/ ui.talkTask # NoDoor THEN ui
                          ELSE TalkCmd(on, TRUE)
    BY DEF TalkPressed, on
  <2>. QED
    BY <2>2, <2>3 DEF Hushed, OpenMic, Unattended
<1>. QED
  BY <1>1, <1>2, <1>3

\* tuya_switch_camera
LEMMA SwitchCameraHushed ==
    ASSUME NEW s, Good(s), NEW ch \in Doors, NEW up \in BOOLEAN
    PROVE  Hushed(s, SwitchCamera(s, ch, up))
<1> DEFINE chosen == [s EXCEPT !.channel = ch]
           sound == AudioOpen(chosen, ch, FALSE)
           moved == VideoSwitch(sound, up)
<1>1. chosen \in UiStates /\ Alike(chosen, s)
  BY DEF Good, UiStates, Alike, Speaks
<1>. HIDE DEF chosen
<1>2. /\ sound \in UiStates
      /\ Speaks(sound, FALSE, chosen.talking, chosen.tuyaTalk, chosen.motionTalk,
                chosen.told)
  BY <1>1, MediaFacts, AudioSpeaks
<1>. HIDE DEF sound
<1>3. Alike(moved, sound)
  BY <1>2, VideoSpeaks
<1>4. SwitchCamera(s, ch, up) = IF s.channel = ch THEN s ELSE moved
  BY DEF SwitchCamera, moved, sound, chosen
<1>. HIDE DEF moved
<1>. QED
  BY <1>1, <1>2, <1>3, <1>4 DEF Alike, Speaks, Hushed, OpenMic, Unattended

\* The steps that leave a microphone on, or a door that talks to nobody, are
\* those the two properties name.
LEMMA StepHushed ==
    ASSUME Good(ui), Next
    PROVE  /\ \/ OpenMic(ui') => OpenMic(ui)
              \/ LeftWatched
              \/ EndsOther
              \/ TalkTask
           /\ \/ Unattended(ui') => Unattended(ui)
              \/ LeftWatched
              \/ Answered
              \/ TalkTask
              \/ \E d \in Doors : CallInside(d)
<1>0. ui \in UiStates /\ Hushed(ui, ui)
  BY DEF Good, Hushed
<1>1. CASE Phone
  BY <1>0, <1>1 DEF Phone, Hushed
<1>2. CASE TuyaEvent
  BY <1>2, HandledHushed DEF TuyaEvent, Answered, EndsOther
<1>3. CASE TalkButton
  BY <1>3, ButtonsHushed DEF TalkButton, On, Hushed
<1>4. CASE HandButton \/ SwitchButton
  BY <1>4, ButtonsHushed DEF HandButton, SwitchButton, On, Hushed
<1>5. CASE MechanicalKeyInside
  <2>1. ui.page = "monitor"
    BY <1>5 DEF MechanicalKeyInside, On
  <2>2. \/ ui' = TalkPressed(ui)
        \/ ui' = Hung(ui)
        \/ \E up \in BOOLEAN : ui' = Switched(ui, up)
    BY <1>5 DEF MechanicalKeyInside
  <2>. QED
    BY <2>1, <2>2, ButtonsHushed DEF Hushed
<1>6. CASE MonitorEnds
  <2>1. Leavable(ui) /\ ui' = GotoStandby(ui)
    BY <1>6 DEF MonitorEnds, Good, Leavable
  <2>. QED
    BY <1>0, <2>1, StandbyHushed DEF Hushed
<1>7. CASE DeviceBusy
  <2>1. Alike(ui', ui)
    BY <1>0, <1>7 DEF DeviceBusy, UiStates, Alike, Speaks
  <2>. QED
    BY <2>1, HushedFacts DEF Hushed
<1>8. CASE \E d \in Doors : Swap(d)
  BY <1>8, SwitchCameraHushed DEF Swap, Hushed
<1>9. ASSUME NEW d \in Doors, CallInside(d)
      PROVE  ~OpenMic(ui')
  <2> DEFINE called == [ui EXCEPT !.talking = FALSE, !.channel = d]
  <2>1. PICK up \in BOOLEAN : ui' = AudioOpen(VideoSwitch(called, up), d, FALSE)
    BY <1>9 DEF CallInside
  <2>2. called \in UiStates
    BY <1>0 DEF UiStates
  <2>. HIDE DEF called
  <2>3. VideoSwitch(called, up) \in UiStates
    BY <2>2, MediaFacts
  <2>. QED
    BY <2>1, <2>3, AudioSpeaks DEF Speaks, OpenMic
<1>10. ASSUME NEW d \in Doors, CallExtern(d) PROVE Hushed(ui, ui')
  BY <1>10, ManualHushed DEF CallExtern
<1>11. ASSUME NEW d \in Doors, ui.page # "monitor", Manual(d) PROVE Hushed(ui, ui')
  BY <1>11, ManualHushed DEF Manual
<1>12. CASE MechanicalKeyExtern \/ Shortcut
  <2>1. ui.page # "monitor" /\ Manual(1) /\ 1 \in Doors
    BY <1>12 DEF MechanicalKeyExtern, Shortcut, On, Doors
  <2>. QED
    BY <1>11, <2>1 DEF Hushed
<1>13. ASSUME NEW d \in Doors, DoorButton(d) PROVE Hushed(ui, ui')
  BY <1>11, <1>13 DEF DoorButton, On
<1>14. CASE StandbyTouch \/ HomeBack
  <2>1. /\ ui.page # "monitor" /\ Leavable(ui)
        /\ ui' \in {GotoHome(ui), GotoStandby(ui)}
    BY <1>14 DEF StandbyTouch, HomeBack, On, Good, Leavable
  <2>2. Hushed(ui, ui')
    BY <2>1, LeaveHushed
  <2>. QED
    BY <2>2 DEF Hushed
<1>15. CASE (\E d \in Doors : IndoorTalksStandby(d)) \/ MotionBack
  <2> DEFINE t == [ui EXCEPT !.channel = NoDoor]
  <2>1. ui.page = "standby" /\ ui' = GotoStandby(t)
    BY <1>15 DEF IndoorTalksStandby, MotionBack, On
  <2>2. t \in UiStates /\ Alike(t, ui) /\ t.page = ui.page /\ ~t.talking
    BY <1>0, <2>1 DEF Good, TalksThere, UiStates, Alike, Speaks
  <2>. HIDE DEF t
  <2>3. Leavable(t) /\ Hushed(ui, t)
    BY <2>1, <2>2, HushedFacts DEF Leavable, TalksThere
  <2>. QED
    BY <2>1, <2>2, <2>3, StandbyHushed DEF Hushed
<1>16. CASE MotionStops \/ MotionTimeout
  <2> DEFINE t == MonitorClose(ui)
  <2>1. ui.page = "standby" /\ ui' = GotoStandby(t)
    BY <1>16 DEF MotionStops, MotionTimeout, On
  <2>2. t \in UiStates /\ Alike(t, ui)
    BY <1>0, MediaFacts, VideoSpeaks
  <2>3. t.page = ui.page /\ ~t.talking
    BY <1>0, <2>1 DEF Good, TalksThere, UiStates, MonitorClose
  <2>. HIDE DEF t
  <2>4. Leavable(t) /\ Hushed(ui, t)
    BY <2>1, <2>2, <2>3, HushedFacts DEF Leavable, TalksThere
  <2>. QED
    BY <2>1, <2>3, <2>4, StandbyHushed DEF Hushed
<1>17. ASSUME NEW d \in Doors, MotionDetected(d) PROVE Hushed(ui, ui')
  <2> DEFINE chosen == [ui EXCEPT !.channel = d]
             sound == AudioOpen(chosen, d, FALSE)
  <2>1. PICK up \in BOOLEAN, how \in {"hidden", "shown"} :
           ui' = [VideoOpen(sound, up) EXCEPT !.way = "motion", !.motion = how]
    BY <1>17 DEF MotionDetected
  <2> DEFINE seen == VideoOpen(sound, up)
  <2>2. chosen \in UiStates /\ Alike(chosen, ui)
    BY <1>0 DEF UiStates, Alike, Speaks
  <2>. HIDE DEF chosen
  <2>3. /\ sound \in UiStates
        /\ Speaks(sound, FALSE, chosen.talking, chosen.tuyaTalk, chosen.motionTalk,
                  chosen.told)
    BY <2>2, MediaFacts, AudioSpeaks
  <2>. HIDE DEF sound
  <2>4. seen \in UiStates /\ Alike(seen, sound)
    BY <2>3, MediaFacts, VideoSpeaks
  <2>5. ui' = [seen EXCEPT !.way = "motion", !.motion = how]
    BY <2>1
  <2>. HIDE DEF seen
  <2>6. Alike(ui', seen)
    BY <2>4, <2>5 DEF UiStates, Alike, Speaks
  <2>. QED
    BY <2>2, <2>3, <2>4, <2>6 DEF Alike, Speaks, Hushed, OpenMic, Unattended
<1>18. CASE TalkTask
  BY <1>18
<1>. QED
  BY <1>1, <1>2, <1>3, <1>4, <1>5, <1>6, <1>7, <1>8, <1>9, <1>10, <1>12, <1>13,
     <1>14, <1>15, <1>16, <1>17, <1>18 DEF Next, Hushed

\* The microphone is left on in three ways only: a watched page is left, a
\* phone ends the other talk, or the task of the talk button comes late.
THEOREM MicIsTalk == Spec => MicMeansTalk
<1>1. Good(ui) /\ [Next]_vars
      => [OpenMic(ui') => \/ OpenMic(ui)
                          \/ LeftWatched \/ EndsOther \/ TalkTask]_vars
  BY StepHushed
<1>. QED
  BY <1>1, AlwaysGood, PTL DEF Spec, MicMeansTalk

\* A door that was told to talk is left alone in the four named ways only.
THEOREM DoorIsTold == Spec => TalkHasTalker
<1>1. Good(ui) /\ [Next]_vars
      => [Unattended(ui') => \/ Unattended(ui)
                             \/ LeftWatched \/ Answered \/ TalkTask
                             \/ \E d \in Doors : CallInside(d)]_vars
  BY StepHushed
<1>. QED
  BY <1>1, AlwaysGood, PTL DEF Spec, TalkHasTalker

----------------------------------------------------------------------------
\* The phones.

Events == [kind : {"enter", "quit", "talk"}, arg : {0, 1}]

LEMMA PushFacts ==
    ASSUME queue \in Seq(Events), Len(queue) <= QueueMax, NEW e \in Events, Push(e)
    PROVE  queue' \in Seq(Events) /\ Len(queue') <= QueueMax
  BY ClientsAssumption DEF Push, Full

\* A step of the phones, the library and the thread.
LEMMA PhonesStep ==
    ASSUME TypeOKClients, ClientsStep \/ Speaker(1)
    PROVE  TypeOKClients'
<1>1. queue \in Seq(Events) /\ Len(queue) <= QueueMax
  BY DEF TypeOKClients, Events
<1>2. Enter \in Events /\ Quit \in Events /\ \A on \in {0, 1} : Talk(on) \in Events
  BY DEF Enter, Quit, Talk, Event, Events
<1>3. queue' \in Seq(Events) /\ Len(queue') <= QueueMax
  BY <1>1, <1>2, PushFacts
     DEF ClientsStep, VideoStart, PhoneLeaves, VideoStop, MissStop, Compare, Reset,
         PushQuit, Speaker
<1>4. /\ phones' \in Nat /\ late' \in Nat /\ phones' + late' <= MaxPhones
      /\ count' \in Int /\ count' <= MaxCount
      /\ recon' \in {"idle", "reset", "push"}
  <2>1. CASE VideoStart \/ VideoStop
    BY <2>1, ClientsAssumption DEF TypeOKClients, VideoStart, VideoStop, Overwrites
  <2>2. CASE PhoneLeaves \/ MissStop
    BY <2>2, ClientsAssumption DEF TypeOKClients, PhoneLeaves, MissStop
  <2>3. CASE Compare \/ Reset \/ PushQuit
    BY <2>3, ClientsAssumption DEF TypeOKClients, Compare, Reset, PushQuit
  <2>4. CASE Speaker(0) \/ Speaker(1)
    BY <2>4 DEF TypeOKClients, Speaker
  <2>. QED
    BY <2>1, <2>2, <2>3, <2>4 DEF ClientsStep
<1>. QED
  BY <1>3, <1>4 DEF TypeOKClients, Events

\* Every other step leaves the phones alone, but for the event it takes.
LEMMA OtherSteps ==
    ASSUME Next, ~Phone
    PROVE  TakeEvent \/ UNCHANGED clients
  BY DEF Next, TuyaEvent, TalkButton, TalkTask, HandButton, SwitchButton,
         MechanicalKeyInside, MonitorEnds, DeviceBusy, Swap, CallInside, CallExtern,
         MechanicalKeyExtern, Shortcut, StandbyTouch, HomeBack, DoorButton,
         IndoorTalksStandby, MotionDetected, MotionStops, MotionTimeout, MotionBack,
         On

\* The state is type correct, for every bound.
THEOREM TypeCorrect == Spec => []TypeOK
<1>1. Init => TypeOKClients
  BY ClientsAssumption DEF Init, InitClients, TypeOKClients
<1>2. TypeOKClients /\ [Next]_vars => TypeOKClients'
  <2> SUFFICES ASSUME TypeOKClients, [Next]_vars PROVE TypeOKClients'
    OBVIOUS
  <2>1. CASE Phone
    BY <2>1, PhonesStep DEF Phone
  <2>2. CASE TakeEvent
    BY <2>2, ClientsAssumption DEF TakeEvent, TypeOKClients
  <2>3. CASE UNCHANGED clients
    BY <2>3 DEF clients, TypeOKClients
  <2>. QED
    BY <2>1, <2>2, <2>3, OtherSteps DEF vars, clients
<1>3. Good(ui) /\ TypeOKClients => TypeOK
  BY DEF Good, TypeOK
<1>. QED
  BY <1>1, <1>2, <1>3, AlwaysGood, PTL DEF Spec

\* The number counts every phone until a reset crosses one.
THEOREM PhonesAreCounted == Spec => WatchingIsCounted
<1>1. TypeOK /\ [Next]_vars => [AllCounted => AllCounted' \/ Reset]_clients
  <2> SUFFICES ASSUME TypeOKClients, [Next]_vars, AllCounted
               PROVE  AllCounted' \/ Reset \/ UNCHANGED clients
    BY DEF TypeOK
  <2>1. CASE Phone
    BY <2>1 DEF Phone, TypeOKClients, AllCounted, ClientsStep, VideoStart,
       PhoneLeaves, VideoStop, MissStop, Compare, PushQuit, Speaker
  <2>2. CASE TakeEvent
    BY <2>2 DEF TakeEvent, AllCounted
  <2>. QED
    BY <2>1, <2>2, OtherSteps DEF vars, clients
<1>. QED
  BY <1>1, TypeCorrect, PTL DEF Spec, WatchingIsCounted

----------------------------------------------------------------------------
\* The session of a phone ends.

\* From s to t no session of a phone was opened.
NotOpened(s, t) == t.way = "tuya" => s.way = "tuya"

\* The media and bus functions leave the way alone.
LEMMA MediaWay ==
    ASSUME NEW s \in UiStates
    PROVE  /\ TalkCmd(s, FALSE) \in UiStates /\ TalkCmd(s, FALSE).way = s.way
           /\ TalkCmd(s, TRUE) \in UiStates /\ TalkCmd(s, TRUE).way = s.way
           /\ HangCmd(s) \in UiStates /\ HangCmd(s).way = s.way
           /\ TuyaAudioOpen(s) \in UiStates /\ TuyaAudioOpen(s).way = s.way
           /\ AudioClose(s, TRUE) \in UiStates /\ AudioClose(s, TRUE).way = s.way
           /\ \A d \in Doors, mic \in BOOLEAN :
                /\ AudioOpen(s, d, mic) \in UiStates
                /\ AudioOpen(s, d, mic).way = s.way
           /\ \A up \in BOOLEAN :
                VideoSwitch(s, up) \in UiStates /\ VideoSwitch(s, up).way = s.way
<1>1. /\ TalkCmd(s, FALSE).way = s.way /\ TalkCmd(s, TRUE).way = s.way
      /\ HangCmd(s).way = s.way
  BY DEF UiStates, TalkCmd, HangCmd
<1>2. TuyaAudioOpen(s).way = s.way
  BY DEF UiStates, TuyaAudioOpen, AudioOpen
<1>3. TuyaAudioOpen(s) \in UiStates
  BY MediaFacts DEF TuyaAudioOpen, Doors
<1>4. TalkCmd(s, FALSE) \in UiStates /\ TalkCmd(s, TRUE) \in UiStates
  BY MediaFacts
<1>5. HangCmd(s) \in UiStates
  BY MediaFacts
<1>6. AudioClose(s, TRUE) \in UiStates
  BY MediaFacts
<1>7. AudioClose(s, TRUE).way = s.way
  BY ZenonT(60) DEF UiStates, AudioClose
<1>8. ASSUME NEW d \in Doors, NEW mic \in BOOLEAN
      PROVE  AudioOpen(s, d, mic) \in UiStates
  BY MediaFacts
<1>9. ASSUME NEW d \in Doors, NEW mic \in BOOLEAN
      PROVE  AudioOpen(s, d, mic).way = s.way
  BY DEF UiStates, AudioOpen
<1>10. ASSUME NEW up \in BOOLEAN
       PROVE  VideoSwitch(s, up) \in UiStates
  BY MediaFacts
<1>11. ASSUME NEW up \in BOOLEAN
       PROVE  VideoSwitch(s, up).way = s.way
  BY DEF UiStates, VideoSwitch
<1>. QED
  BY <1>1, <1>2, <1>3, <1>4, <1>5, <1>6, <1>7, <1>8, <1>9, <1>10, <1>11

\* Leaving a page opens no session.
LEMMA LeaveWay ==
    ASSUME NEW s, Leavable(s)
    PROVE  /\ NotOpened(s, Leave(s))
           /\ NotOpened(s, GotoStandby(s))
           /\ NotOpened(s, GotoHome(s))
<1>1. s \in UiStates /\ Leave(s) \in UiStates
  BY LeaveFacts DEF Leavable
<1>2. NotOpened(s, Leave(s))
  <2>1. CASE s.page = "monitor"
    <3> DEFINE kept == IF Keep(s) THEN s ELSE EndMonitor(s)
    <3>1. EndMonitor(s) \in UiStates
      BY <1>1, EndMonitorType
    <3>2. kept \in UiStates
      BY <1>1, <3>1
    <3>3. Leave(s) = [kept EXCEPT !.talkTask = NoDoor, !.talking = FALSE, !.way = "none"]
      BY <2>1 DEF Leave, LeaveMonitor, Leavable
    <3>. HIDE DEF kept
    <3>. QED
      BY <3>2, <3>3 DEF UiStates, NotOpened
  <2>2. CASE s.page = "standby"
    <3> DEFINE kept == IF s.way = "call" \/ Keep(s) THEN s
                       ELSE AudioClose(VideoClose(s), TRUE)
               way == IF s.motion # "off" /\ kept.way = "motion"
                      THEN "none" ELSE kept.way
    <3>1. kept \in UiStates /\ kept.way = s.way
      <4> DEFINE shut == VideoClose(s)
      <4>1. shut \in UiStates /\ shut.way = s.way
        BY <1>1, MediaFacts DEF UiStates, VideoClose
      <4>. HIDE DEF shut
      <4>2. AudioClose(shut, TRUE) \in UiStates /\ AudioClose(shut, TRUE).way = shut.way
        BY <4>1, MediaWay
      <4>. QED
        BY <1>1, <4>1, <4>2 DEF shut
    <3>2. Leave(s) = [kept EXCEPT !.motion = "off", !.way = way]
      BY <2>2 DEF Leave, LeaveStandby
    <3>. HIDE DEF kept
    <3>. QED
      BY <3>1, <3>2 DEF UiStates, NotOpened
  <2>3. CASE s.page = "home"
    BY <2>3 DEF Leave, NotOpened
  <2>. QED
    BY <1>1, <2>1, <2>2, <2>3 DEF UiStates
<1> DEFINE left == Leave(s)
<1>3. /\ GotoStandby(s) = [left EXCEPT !.page = "standby"]
      /\ GotoHome(s) = [left EXCEPT !.page = "home", !.channel = NoDoor]
  BY DEF GotoStandby, GotoHome
<1>4. left \in UiStates /\ NotOpened(s, left)
  BY <1>1, <1>2
<1>. HIDE DEF left
<1>5. GotoStandby(s).way = left.way /\ GotoHome(s).way = left.way
  BY <1>3, <1>4 DEF UiStates
<1>. QED
  BY <1>2, <1>4, <1>5 DEF NotOpened

\* An event of talk opens no session, and QUIT, the last kind, leaves none open.
LEMMA HandledWay ==
    ASSUME NEW s, Good(s), NEW e, NEW up \in SUBSET Doors, NEW busy \in BOOLEAN
    PROVE  LET t == Handled(s, e, up, busy)
           IN  /\ e \in {Talk(0), Talk(1)} => NotOpened(s, t)
               /\ e \notin {Enter, Talk(0), Talk(1)} => t.way # "tuya"
<1>1. s \in UiStates /\ NotOpened(s, s)
  BY DEF Good, NotOpened
<1> DEFINE on == TalkCmd(TuyaAudioOpen(s), TRUE)
           off == TalkCmd(s, FALSE)
<1>2. on \in UiStates /\ on.way = s.way /\ off \in UiStates /\ off.way = s.way
  BY <1>1, MediaWay
<1>. HIDE DEF on, off
<1>3. /\ NotOpened(s, [on EXCEPT !.talking = FALSE, !.tuyaTalk = TRUE])
      /\ NotOpened(s, [on EXCEPT !.tuyaTalk = TRUE])
      /\ NotOpened(s, [on EXCEPT !.motionTalk = TRUE])
      /\ NotOpened(s, [off EXCEPT !.talking = FALSE, !.tuyaTalk = FALSE])
      /\ NotOpened(s, [off EXCEPT !.motionTalk = FALSE])
  BY <1>2 DEF UiStates, NotOpened
<1>4. NotOpened(s, TalkStops(s))
  BY <1>1, <1>3 DEF TalkStops, off
<1>5. CASE s.page = "monitor"
  <2>1. NotOpened(s, PhoneTalks(s)) /\ s.way # "tuya"
    BY <1>3, <1>5 DEF PhoneTalks, on, Good, Shown
  <2>. QED
    BY <1>1, <1>4, <1>5, <2>1, EventsDiffer DEF Handled, Inside
<1>6. CASE s.page # "monitor" /\ s.motion # "off"
  <2>1. MotionQuit(s).way # "tuya"
    <3> DEFINE hang == HangCmd(s)
               hung == [hang EXCEPT !.channel = NoDoor, !.way = "none"]
               told == IF s.motionTalk THEN TalkCmd(hung, FALSE) ELSE hung
               quit == [told EXCEPT !.motionTalk = FALSE]
    <3>1. hang \in UiStates /\ hang.talking = s.talking
      BY <1>1, MediaWay DEF UiStates, HangCmd
    <3>. HIDE DEF hang
    <3>2. hung \in UiStates /\ hung.way = "none" /\ hung.talking = s.talking
      BY <3>1 DEF UiStates
    <3>. HIDE DEF hung
    <3>3. /\ TalkCmd(hung, FALSE) \in UiStates /\ TalkCmd(hung, FALSE).way = "none"
          /\ TalkCmd(hung, FALSE).talking = s.talking
      BY <3>2, MediaWay DEF UiStates, TalkCmd
    <3>4. told \in UiStates /\ told.way = "none" /\ told.talking = s.talking
      BY <3>2, <3>3
    <3>. HIDE DEF told
    <3>5. quit \in UiStates /\ quit.way = "none" /\ quit.talking = s.talking
      BY <3>4 DEF UiStates
    <3>6. MotionQuit(s) = GotoStandby(quit)
      BY DEF MotionQuit, quit, told, hung, hang
    <3>. HIDE DEF quit
    <3>7. Leavable(quit)
      BY <1>6, <3>5 DEF Good, Leavable, TalksThere
    <3>. QED
      BY <3>5, <3>6, <3>7, LeaveWay DEF NotOpened
  <2>. QED
    BY <1>1, <1>3, <1>6, <2>1, EventsDiffer DEF Handled, Motion, on, off
<1>7. CASE s.page # "monitor" /\ s.motion = "off"
  <2>1. BackgroundClose(s).way # "tuya"
    <3> DEFINE closed == AudioClose(s, TRUE)
               told == IF s.tuyaTalk \/ s.talking THEN TalkCmd(closed, FALSE) ELSE closed
    <3>1. closed \in UiStates
      BY <1>1, MediaFacts
    <3>. HIDE DEF closed
    <3>2. told \in UiStates
      BY <3>1, MediaWay
    <3>3. BackgroundClose(s) = [told EXCEPT !.talking = FALSE, !.tuyaTalk = FALSE,
                                            !.channel = NoDoor, !.way = "none"]
      BY DEF BackgroundClose, told, closed
    <3>. HIDE DEF told
    <3>. QED
      BY <3>2, <3>3 DEF UiStates
  <2>. QED
    BY <1>1, <1>3, <1>4, <1>7, <2>1, EventsDiffer DEF Handled, Extern, on
<1>. QED
  BY <1>5, <1>6, <1>7

\* The person at the unit opens no session of a phone.
LEMMA StepWay ==
    ASSUME Good(ui), Next, ~TuyaEvent
    PROVE  NotOpened(ui, ui')
<1>0. ui \in UiStates /\ NotOpened(ui, ui)
  BY DEF Good, NotOpened
<1>1. CASE Phone
  BY <1>0, <1>1 DEF Phone
<1>3. ASSUME NEW t, Leavable(t), NotOpened(ui, t),
             ui' \in {GotoStandby(t), GotoHome(t)}
      PROVE  NotOpened(ui, ui')
  BY <1>3, LeaveWay DEF NotOpened
<1>4. ui'.way = ui.way => NotOpened(ui, ui')
  BY DEF NotOpened
<1>5. CASE ui.page = "monitor" /\ (ui' = Hung(ui) \/ ui' = TalkPressed(ui)
                                   \/ \E up \in BOOLEAN : ui' = Switched(ui, up))
  <2>1. CASE ui' = Hung(ui)
    <3>1. Leavable(HangCmd(ui)) /\ HangCmd(ui).way = ui.way
      BY <1>5 DEF Good, Shown, Leavable, TalksThere, HangCmd, UiStates
    <3>2. Hung(ui) = GotoStandby(HangCmd(ui))
      BY <1>5 DEF Good, Shown, Hung
    <3>. QED
      BY <1>3, <2>1, <3>1, <3>2 DEF NotOpened
  <2>2. CASE ui' = TalkPressed(ui)
    <3> DEFINE on == [ui EXCEPT !.talking = TRUE, !.talkTask = ui.channel]
    <3>1. on \in UiStates /\ on.way = ui.way
      BY <1>0 DEF UiStates
    <3>2. TalkPressed(ui) = IF ui.talking \/ ui.talkTask # NoDoor THEN ui
                            ELSE TalkCmd(on, TRUE)
      BY DEF TalkPressed
    <3>. HIDE DEF on
    <3>3. TalkCmd(on, TRUE).way = ui.way
      BY <3>1, MediaWay
    <3>. QED
      BY <1>4, <2>2, <3>2, <3>3
  <2>3. ASSUME NEW up \in BOOLEAN, ui' = Switched(ui, up) PROVE NotOpened(ui, ui')
    <3>1. Good(Switched(ui, up)) /\ Switched(ui, up).page = "monitor"
      <4> DEFINE d == OtherDoor(ui.channel)
                 sound == AudioOpen(ui, d, ui.talking)
                 chosen == [sound EXCEPT !.way = "manual", !.channel = d]
                 moved == VideoSwitch(chosen, up)
      <4>1. d \in Doors /\ ui.talking \in BOOLEAN
        BY <1>0 DEF OtherDoor, Doors, UiStates
      <4>. HIDE DEF d
      <4>2. sound \in UiStates /\ sound.page = ui.page
        BY <1>0, <4>1, MediaFacts, MediaKeeps DEF Same
      <4>. HIDE DEF sound
      <4>3. chosen \in UiStates /\ chosen.page = ui.page
        BY <4>1, <4>2 DEF UiStates
      <4>. HIDE DEF chosen
      <4>4. moved \in UiStates /\ moved.page = ui.page
        BY <4>3 DEF UiStates, VideoSwitch
      <4>. HIDE DEF moved
      <4>5. TalkCmd(moved, TRUE).page = ui.page
        BY <4>4 DEF UiStates, TalkCmd
      <4>6. Switched(ui, up) = IF ui.talking THEN TalkCmd(moved, TRUE) ELSE moved
        BY DEF Switched, moved, chosen, sound, d
      <4>. QED
        BY <1>5, <4>4, <4>5, <4>6, SwitchedFacts
    <3>. QED
      BY <2>3, <3>1 DEF Good, Shown, NotOpened
  <2>. QED
    BY <1>5, <2>1, <2>2, <2>3
<1>6. CASE TalkButton \/ HandButton \/ SwitchButton \/ MechanicalKeyInside
  <2>1. /\ ui.page = "monitor"
        /\ \/ ui' = Hung(ui) \/ ui' = TalkPressed(ui)
           \/ \E up \in BOOLEAN : ui' = Switched(ui, up)
    BY <1>6 DEF TalkButton, HandButton, SwitchButton, MechanicalKeyInside, On
  <2>. QED
    BY <1>5, <2>1
<1>7. CASE TalkTask
  <2> DEFINE open == AudioOpen(ui, ui.channel, TRUE)
             t == IF ui.talkTask = ui.channel THEN TalkCmd(open, TRUE) ELSE ui
  <2>1. open \in UiStates /\ open.way = ui.way
    BY <1>0 DEF UiStates, AudioOpen
  <2>. HIDE DEF open
  <2>2. t \in UiStates /\ t.way = ui.way
    BY <1>0, <2>1, MediaWay
  <2>3. ui' = [t EXCEPT !.talkTask = NoDoor]
    BY <1>7 DEF TalkTask, t, open
  <2>. HIDE DEF t
  <2>. QED
    BY <1>4, <2>2, <2>3 DEF UiStates
<1>8. CASE MonitorEnds \/ StandbyTouch \/ HomeBack
  <2>1. Leavable(ui) /\ ui' \in {GotoStandby(ui), GotoHome(ui)}
    BY <1>8 DEF MonitorEnds, StandbyTouch, HomeBack, On, Good, Leavable
  <2>. QED
    BY <1>0, <1>3, <2>1
<1>9. CASE DeviceBusy
  BY <1>0, <1>4, <1>9 DEF DeviceBusy, UiStates
<1>10. ASSUME NEW ch \in Doors, Swap(ch) PROVE NotOpened(ui, ui')
  <2> DEFINE chosen == [ui EXCEPT !.channel = ch]
             sound == AudioOpen(chosen, ch, FALSE)
  <2>1. PICK up \in BOOLEAN : ui' = SwitchCamera(ui, ch, up)
    BY <1>10 DEF Swap
  <2> DEFINE moved == VideoSwitch(sound, up)
  <2>2. chosen \in UiStates /\ chosen.way = ui.way
    BY <1>0 DEF UiStates
  <2>3. SwitchCamera(ui, ch, up) = IF ui.channel = ch THEN ui ELSE moved
    BY DEF SwitchCamera
  <2>. HIDE DEF chosen
  <2>4. sound \in UiStates /\ sound.way = ui.way
    BY <2>2, MediaWay
  <2>. HIDE DEF sound
  <2>5. moved.way = ui.way
    BY <2>4, MediaWay
  <2>. QED
    BY <1>4, <2>1, <2>3, <2>5
<1>11. ASSUME NEW d \in Doors, CallInside(d) PROVE NotOpened(ui, ui')
  <2> DEFINE called == [ui EXCEPT !.talking = FALSE, !.channel = d]
  <2>1. PICK up \in BOOLEAN : ui' = AudioOpen(VideoSwitch(called, up), d, FALSE)
    BY <1>11 DEF CallInside
  <2> DEFINE moved == VideoSwitch(called, up)
  <2>2. called \in UiStates /\ called.way = ui.way
    BY <1>0 DEF UiStates
  <2>. HIDE DEF called
  <2>3. moved \in UiStates /\ moved.way = ui.way
    BY <2>2, MediaWay
  <2>. HIDE DEF moved
  <2>4. AudioOpen(moved, d, FALSE).way = ui.way
    BY <2>3, MediaWay
  <2>. QED
    BY <1>4, <2>1, <2>4 DEF moved
<1>12. ASSUME ui.page # "monitor",
              NEW d \in Doors, NEW way \in {"manual", "call"}, NEW up \in BOOLEAN,
              ui' = AudioOpen(GotoMonitor([ui EXCEPT !.channel = d, !.way = way], up),
                              d, FALSE)
       PROVE  NotOpened(ui, ui')
  <2> DEFINE opened == [ui EXCEPT !.channel = d, !.way = way]
             left == Leave(opened)
             entered == [left EXCEPT !.page = "monitor"]
             moved == VideoSwitch(entered, up)
  <2>1. Leavable(opened) /\ opened.way # "tuya"
    BY <1>0, <1>12 DEF Good, Leavable, TalksThere, UiStates
  <2>. HIDE DEF opened
  <2>2. left \in UiStates /\ left.way # "tuya"
    BY <2>1, LeaveFacts, LeaveWay DEF NotOpened
  <2>. HIDE DEF left
  <2>3. entered \in UiStates /\ entered.way = left.way
    BY <2>2 DEF UiStates
  <2>. HIDE DEF entered
  <2>4. moved \in UiStates /\ moved.way = left.way
    BY <2>3, MediaWay
  <2>. HIDE DEF moved
  <2>5. AudioOpen(moved, d, FALSE).way = left.way
    BY <2>4, MediaWay
  <2>6. ui' = AudioOpen(moved, d, FALSE)
    BY <1>12 DEF GotoMonitor, moved, entered, left, opened
  <2>. QED
    BY <2>2, <2>5, <2>6 DEF NotOpened
<1>13. ASSUME NEW d \in Doors, CallExtern(d) \/ (ui.page # "monitor" /\ Manual(d))
       PROVE  NotOpened(ui, ui')
  BY <1>12, <1>13 DEF CallExtern, Manual
<1>14. CASE MechanicalKeyExtern \/ Shortcut
  <2>1. ui.page # "monitor" /\ Manual(1) /\ 1 \in Doors
    BY <1>14 DEF MechanicalKeyExtern, Shortcut, On, Doors
  <2>. QED
    BY <1>13, <2>1
<1>15. ASSUME NEW d \in Doors, DoorButton(d) PROVE NotOpened(ui, ui')
  BY <1>13, <1>15 DEF DoorButton, On
<1>16. CASE (\E d \in Doors : IndoorTalksStandby(d)) \/ MotionBack
  <2> DEFINE t == [ui EXCEPT !.channel = NoDoor]
  <2>1. ui.page = "standby" /\ ui' = GotoStandby(t)
    BY <1>16 DEF IndoorTalksStandby, MotionBack, On
  <2>2. Leavable(t) /\ t.way = ui.way
    BY <1>0, <2>1 DEF Good, TalksThere, Leavable, UiStates
  <2>. HIDE DEF t
  <2>. QED
    BY <1>3, <2>1, <2>2 DEF NotOpened
<1>17. CASE MotionStops \/ MotionTimeout
  <2> DEFINE t == MonitorClose(ui)
  <2>1. ui.page = "standby" /\ ui' = GotoStandby(t)
    BY <1>17 DEF MotionStops, MotionTimeout, On
  <2>2. Leavable(t) /\ t.way = ui.way
    BY <1>0, <2>1 DEF Good, TalksThere, Leavable, UiStates, MonitorClose
  <2>. HIDE DEF t
  <2>. QED
    BY <1>3, <2>1, <2>2 DEF NotOpened
<1>18. ASSUME NEW d \in Doors, MotionDetected(d) PROVE NotOpened(ui, ui')
  <2> DEFINE sound == AudioOpen([ui EXCEPT !.channel = d], d, FALSE)
  <2>1. PICK up \in BOOLEAN, how \in {"hidden", "shown"} :
           ui' = [VideoOpen(sound, up) EXCEPT !.way = "motion", !.motion = how]
    BY <1>18 DEF MotionDetected
  <2> DEFINE seen == VideoOpen(sound, up)
  <2>2. sound \in UiStates
    BY <1>0 DEF UiStates, AudioOpen
  <2>. HIDE DEF sound
  <2>3. seen \in UiStates
    BY <2>2, MediaFacts
  <2>4. ui' = [seen EXCEPT !.way = "motion", !.motion = how]
    BY <2>1
  <2>. HIDE DEF seen
  <2>. QED
    BY <2>3, <2>4 DEF UiStates, NotOpened
<1>. QED
  BY <1>1, <1>6, <1>7, <1>8, <1>9, <1>10, <1>11, <1>13, <1>14, <1>15, <1>16, <1>17,
     <1>18 DEF Next

\* ENTER is in the queue with no QUIT behind it.
Opening == \E i \in DOMAIN queue :
              /\ queue[i] = Enter
              /\ \A j \in DOMAIN queue : queue[j] = Quit => j < i
Idle == \A i \in DOMAIN queue : queue[i] # Enter /\ queue[i] # Quit

LEMMA WillBeOpenFacts ==
    /\ WillBeOpen <=> Opening \/ (ui.way = "tuya" /\ Idle)
    /\ WillBeOpen' <=> Opening' \/ (ui'.way = "tuya" /\ Idle')
<1>1. WillBeOpen <=> Opening \/ (ui.way = "tuya" /\ Idle)
  BY DEF WillBeOpen, Opening, Idle, Queued
<1>2. WillBeOpen' <=> Opening' \/ (ui'.way = "tuya" /\ Idle')
  BY DEF WillBeOpen, Opening, Idle, Queued, Enter, Quit, Event
<1>. QED
  BY <1>1, <1>2

\* An event pushed on a queue that is not full: QUIT ends what was open or
\* opening, and an event of talk changes nothing.
LEMMA PushEnds ==
    ASSUME TypeOKClients, ~Full, NEW e \in Events, Push(e)
    PROVE  /\ e = Quit => ~Opening' /\ ~Idle'
           /\ e \in {Talk(0), Talk(1)} => (Opening' => Opening) /\ (Idle' => Idle)
<1>1. /\ queue' = Append(queue, e) /\ Len(queue) \in Nat
      /\ DOMAIN queue = 1 .. Len(queue) /\ DOMAIN queue' = 1 .. Len(queue) + 1
      /\ \A i \in 1 .. Len(queue) : queue'[i] = queue[i]
      /\ queue'[Len(queue) + 1] = e
  BY DEF TypeOKClients, Push, Events
<1>2. /\ Opening' <=> \E i \in DOMAIN queue' :
                        /\ queue'[i] = Enter
                        /\ \A j \in DOMAIN queue' : queue'[j] = Quit => j < i
      /\ Idle' <=> \A i \in DOMAIN queue' : queue'[i] # Enter /\ queue'[i] # Quit
  BY DEF Opening, Idle, Enter, Quit, Event
<1>3. ASSUME e = Quit PROVE ~Opening' /\ ~Idle'
  <2>1. Len(queue) + 1 \in DOMAIN queue'
    BY <1>1
  <2>2. \A i \in DOMAIN queue' : ~(Len(queue) + 1 < i)
    BY <1>1
  <2>. QED
    BY <1>1, <1>2, <1>3, <2>1, <2>2
<1>4. ASSUME e \in {Talk(0), Talk(1)} PROVE (Opening' => Opening) /\ (Idle' => Idle)
  <2>1. \A i \in DOMAIN queue : i \in DOMAIN queue' /\ queue'[i] = queue[i]
    BY <1>1
  <2>2. \A i \in DOMAIN queue' : queue'[i] = Enter => i \in DOMAIN queue
    BY <1>1, <1>4, EventsDiffer
  <2>. QED
    BY <1>2, <2>1, <2>2 DEF Opening, Idle
<1>. QED
  BY <1>3, <1>4

\* An event that is taken opens a session only if it is an ENTER that nothing
\* in the queue will close, and QUIT closes it.
LEMMA TakeEnds ==
    ASSUME TypeOKClients, Good(ui), TuyaEvent, WillBeOpen'
    PROVE  WillBeOpen
<1>1. PICK up \in SUBSET Doors, busy \in BOOLEAN :
         ui' = Handled(ui, Head(queue), up, busy)
  BY DEF TuyaEvent
<1>2. /\ queue # <<>> /\ queue' = Tail(queue) /\ queue \in Seq(Events)
  BY DEF TuyaEvent, TakeEvent, TypeOKClients, Events
<1>3. /\ Len(queue) \in Nat \ {0} /\ DOMAIN queue = 1 .. Len(queue)
      /\ DOMAIN queue' = 1 .. Len(queue) - 1
      /\ \A i \in DOMAIN queue' : queue'[i] = queue[i + 1]
      /\ Head(queue) = queue[1] /\ queue[1] \in Events
  BY <1>2
<1>4. /\ Opening' <=> \E i \in DOMAIN queue' :
                        /\ queue'[i] = Enter
                        /\ \A j \in DOMAIN queue' : queue'[j] = Quit => j < i
      /\ Idle' <=> \A i \in DOMAIN queue' : queue'[i] # Enter /\ queue'[i] # Quit
  BY DEF Opening, Idle, Enter, Quit, Event
<1>5. ASSUME Opening' PROVE Opening
  <2>1. PICK i \in DOMAIN queue' :
           /\ queue'[i] = Enter
           /\ \A j \in DOMAIN queue' : queue'[j] = Quit => j < i
    BY <1>4, <1>5
  <2>2. i + 1 \in DOMAIN queue /\ queue[i + 1] = Enter /\ i \in Nat \ {0}
    BY <1>3, <2>1
  <2>3. ASSUME NEW j \in DOMAIN queue, queue[j] = Quit PROVE j < i + 1
    <3>1. CASE j = 1
      BY <2>2, <3>1
    <3>2. CASE j # 1
      <4>1. j - 1 \in DOMAIN queue' /\ queue'[j - 1] = queue[j] /\ j \in Nat
        BY <1>3, <3>2
      <4>. QED
        BY <2>1, <2>2, <2>3, <4>1
    <3>. QED
      BY <3>1, <3>2
  <2>. QED
    BY <2>2, <2>3 DEF Opening
<1>6. ASSUME ui'.way = "tuya", Idle' PROVE WillBeOpen
  <2>1. 1 \in DOMAIN queue /\ \A i \in DOMAIN queue : i # 1 => i - 1 \in DOMAIN queue'
                                                           /\ queue'[i - 1] = queue[i]
    BY <1>3
  <2>2. \A i \in DOMAIN queue : i # 1 => queue[i] # Enter /\ queue[i] # Quit
    BY <1>4, <1>6, <2>1
  <2>3. CASE queue[1] = Enter
    <3>1. \A j \in DOMAIN queue : queue[j] # Quit
      BY <2>2, <2>3, EventsDiffer
    <3>. QED
      BY <2>1, <2>3, <3>1, WillBeOpenFacts DEF Opening
  <2>4. CASE queue[1] \in {Talk(0), Talk(1)}
    <3>1. ui.way = "tuya"
      BY <1>1, <1>3, <1>6, <2>4, HandledWay DEF NotOpened
    <3>2. Idle
      BY <2>2, <2>4, EventsDiffer DEF Idle
    <3>. QED
      BY <3>1, <3>2, WillBeOpenFacts
  <2>5. CASE queue[1] \notin {Enter, Talk(0), Talk(1)}
    BY <1>1, <1>3, <1>6, <2>5, HandledWay
  <2>. QED
    BY <2>3, <2>4, <2>5
<1>. QED
  BY <1>5, <1>6, WillBeOpenFacts

\* A session of the phone is orphaned only by an event that finds the queue
\* full, or after the number has lost a phone.
THEOREM SessionsEnd == Spec => SomebodyEnds
<1>1. ASSUME TypeOK, Good(ui), Next, Orphaned', ~Full, AllCounted
      PROVE  Orphaned
  <2>1. TypeOKClients /\ Quit \in Events /\ Talk(0) \in Events /\ Talk(1) \in Events
    BY <1>1 DEF TypeOK, Quit, Talk, Event, Events
  <2>2. phones' = 0 /\ late' = 0 /\ count' = 0 /\ recon' = "idle" /\ WillBeOpen'
    BY <1>1 DEF Orphaned
  <2>3. CASE Phone
    <3>1. ui' = ui /\ (ClientsStep \/ Speaker(1))
      BY <2>3 DEF Phone
    <3>2. ~VideoStart /\ ~PhoneLeaves /\ ~Compare /\ ~Reset
      BY <2>1, <2>2 DEF TypeOKClients, VideoStart, PhoneLeaves, Compare, Reset
    <3>3. ~MissStop
      BY <1>1, <2>1, <2>2 DEF TypeOKClients, MissStop, AllCounted
    <3>4. ASSUME VideoStop \/ PushQuit PROVE FALSE
      <4>1. Push(Quit)
        BY <2>1, <2>2, <3>4 DEF TypeOKClients, VideoStop, PushQuit
      <4>. QED
        BY <1>1, <2>1, <2>2, <4>1, PushEnds, WillBeOpenFacts
    <3>5. ASSUME NEW on \in {0, 1}, Speaker(on) PROVE Orphaned
      <4>1. Push(Talk(on)) /\ UNCHANGED <<phones, late, count, recon>>
        BY <3>5 DEF Speaker
      <4>2. WillBeOpen
        BY <1>1, <2>1, <2>2, <3>1, <3>5, <4>1, PushEnds, WillBeOpenFacts
      <4>. QED
        BY <2>2, <4>1, <4>2 DEF Orphaned
    <3>. QED
      BY <3>1, <3>2, <3>3, <3>4, <3>5 DEF ClientsStep
  <2>4. CASE TuyaEvent
    <3>1. WillBeOpen
      BY <1>1, <2>1, <2>2, <2>4, TakeEnds
    <3>. QED
      BY <2>2, <2>4, <3>1 DEF Orphaned, TuyaEvent, TakeEvent
  <2>5. CASE ~Phone /\ ~TuyaEvent
    <3>1. UNCHANGED <<phones, late, count, recon, queue>>
      BY <1>1, <2>5 DEF Next, TalkButton, TalkTask, HandButton, SwitchButton,
         MechanicalKeyInside, MonitorEnds, DeviceBusy, Swap, CallInside, CallExtern,
         MechanicalKeyExtern, Shortcut, StandbyTouch, HomeBack, DoorButton,
         IndoorTalksStandby, MotionDetected, MotionStops, MotionTimeout, MotionBack,
         On, clients
    <3>2. (Opening' <=> Opening) /\ (Idle' <=> Idle)
      BY <3>1 DEF Opening, Idle, Enter, Quit, Event
    <3>3. ui'.way = "tuya" => ui.way = "tuya"
      BY <1>1, <2>5, StepWay DEF NotOpened
    <3>4. WillBeOpen
      BY <2>2, <3>2, <3>3, WillBeOpenFacts
    <3>. QED
      BY <2>2, <3>1, <3>4 DEF Orphaned
  <2>. QED
    BY <2>3, <2>4, <2>5
<1>2. TypeOK /\ Good(ui) /\ [Next]_vars
      => [Orphaned' => Orphaned \/ Full \/ ~AllCounted]_vars
  BY <1>1
<1>. QED
  BY <1>2, AlwaysGood, TypeCorrect, PTL DEF Spec, SomebodyEnds

==============================================================================
