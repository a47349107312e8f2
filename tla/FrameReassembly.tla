--------------------------- MODULE FrameReassembly ---------------------------
(***************************************************************************)
(* Video frames between door station and indoor unit                       *)
(* (src/src/api/network/network_video_package.c): network_send_package_    *)
(* video cuts a frame into datagrams, the first of which carries a header  *)
(* with the length, the index and the kind of the frame; the loop of       *)
(* network_video_receive_package_task puts frames together again, drops    *)
(* what it cannot complete and waits for a key frame when it notices that  *)
(* one is missing.  Datagrams keep their order and may be lost.            *)
(*                                                                         *)
(* Lengths are in units, Datagram of which fit in a datagram.  A unit is   *)
(* the frame it comes from and its place there.  There is no datagram in   *)
(* flight: one is sent and received, or lost, in one step.  frames and     *)
(* arrived, what was sent and what of it was not lost, are history.        *)
(***************************************************************************)
EXTENDS Naturals, Sequences

CONSTANTS
    Datagram,       \* VIDEO_PACKAGE_SIZE_MAX
    FrameMax,       \* VIDEO_FRAME_MAX
    Sizes,          \* lengths of the frames the encoder makes
    Watchers,       \* values of watched
    MaxFrames       \* bound: frames sent

ASSUME FrameAssumption ==
    /\ Datagram \in Nat \ {0}
    /\ FrameMax \in Nat
    /\ Sizes \subseteq Nat \ {0}
    /\ Watchers \subseteq BOOLEAN
    /\ MaxFrames \in Nat

VARIABLES
    frames,         \* history: key and size of each frame, by index
    arrived,        \* history: the units of each frame that arrived
    cut,            \* send_size: units of the last frame that were sent
    first,          \* frist_receive_i_frame
    start,          \* receive_frame_start
    len,            \* node.len
    index,          \* receive_video_index
    prev,           \* prev_video_index
    data,           \* node.data, receive_frame_count long
    out,            \* the frame the last datagram completed
    watched,        \* a phone watches, or a call or motion is recorded
    tuyaFirst,      \* frist_tuya_i_frame
    uploads         \* history: what the last uploads to Tuya were

sender == <<frames, arrived, cut>>
receiver == <<first, start, len, index, prev, data, out>>
vars == <<sender, receiver, watched, tuyaFirst, uploads>>

NoFrame == [index |-> 0, data |-> <<>>]

Init ==
    /\ frames = <<>>
    /\ arrived = <<>>
    /\ cut = 0
    /\ first = FALSE
    /\ start = FALSE
    /\ len = 0
    /\ index = 0
    /\ prev = 0
    /\ data = <<>>
    /\ out = NoFrame
    /\ watched \in Watchers
    /\ tuyaFirst = FALSE
    /\ uploads = [key |-> FALSE, any |-> FALSE]

Last == Len(frames)
AllSent == IF frames = <<>> THEN TRUE ELSE cut = frames[Last].size

\* The units of the next datagram of the last frame.
Chunk ==
    LET rest == frames[Last].size - cut
        n == IF rest > Datagram THEN Datagram ELSE rest
    IN  [i \in 1 .. n |-> [frame |-> Last, unit |-> cut + i]]

----------------------------------------------------------------------------
\* The encoder hands over the next frame.
NewFrame(key, size) ==
    /\ AllSent
    /\ Last < MaxFrames
    /\ frames' = Append(frames, [key |-> key, size |-> size])
    /\ arrived' = Append(arrived, {})
    /\ cut' = 0
    /\ out' = NoFrame
    /\ UNCHANGED <<first, start, len, index, prev, data, watched, tuyaFirst,
                   uploads>>

Lost ==
    /\ ~AllSent
    /\ cut' = cut + Len(Chunk)
    /\ out' = NoFrame
    /\ UNCHANGED <<frames, arrived, first, start, len, index, prev, data,
                   watched, tuyaFirst, uploads>>

\* Mutants: a gap goes unnoticed once a key frame was seen; a key frame that
\* follows a gap is not taken.
AcceptedOnce(i, key) == first \/ key
AcceptedNextOnly(i, key) == IF first THEN i = prev + 1 ELSE key

\* Whether the loop goes on, or starts, with the frame of this header: it
\* waits for a key frame at first and when the index is not the next one.
Accepted(i, key) ==
    IF first /\ i = prev + 1 THEN TRUE ELSE key

\* Mutant: only the first frame sets it.
NewPrevFirst(i) == IF ~first THEN i ELSE prev

\* prev_video_index: it is not brought up to date when a gap is found.
NewPrev(i) == IF ~first \/ i = prev + 1 THEN i ELSE prev

\* Mutant: Tuya gets any frame first.
CompleteAny(whole, i) ==
    LET key == frames[i].key
        begun == tuyaFirst \/ watched
    IN  /\ out' = [index |-> i, data |-> whole]
        /\ tuyaFirst' = begun
        /\ uploads' = IF watched /\ begun
                      THEN [key |-> uploads.key \/ key, any |-> TRUE]
                      ELSE uploads

\* A datagram that completes a frame: it goes to the recorder and the
\* decoder, and to Tuya from the first key frame on.
Complete(whole, i) ==
    LET key == frames[i].key
        begun == tuyaFirst \/ (watched /\ key)
    IN  /\ out' = [index |-> i, data |-> whole]
        /\ tuyaFirst' = begun
        /\ uploads' = IF watched /\ begun
                      THEN [key |-> uploads.key \/ key, any |-> TRUE]
                      ELSE uploads

\* Mutant: after a frame the count is set back and not the start.
PayloadAgain(had, ok, begun, length, i) ==
    LET now == had \o Chunk
        fits == Len(now) <= length
        done == Len(now) = length
    IN  /\ first' = (ok /\ begun /\ fits)
        /\ start' = begun
        /\ data' = IF begun /\ done THEN <<>> ELSE IF begun /\ fits THEN now ELSE had
        /\ IF begun /\ done
           THEN Complete(now, i)
           ELSE /\ out' = NoFrame
                /\ UNCHANGED <<tuyaFirst, uploads>>

\* The part of the loop that takes the payload of a datagram; had is what of
\* the frame is there, ok the value of frist_receive_i_frame by now.
Payload(had, ok, begun, length, i) ==
    LET now == had \o Chunk
        fits == Len(now) <= length
        done == Len(now) = length
    IN  /\ first' = (ok /\ begun /\ fits)
        /\ start' = (begun /\ ~done)
        /\ data' = IF begun /\ fits THEN now ELSE had
        /\ IF begun /\ done
           THEN Complete(now, i)
           ELSE /\ out' = NoFrame
                /\ UNCHANGED <<tuyaFirst, uploads>>

\* Mutant: the count of the frame before is kept.
HeaderKeepsCount ==
    LET f == frames[Last]
        ok == Accepted(Last, f.key)
    IN  /\ ~AllSent
        /\ cut = 0
        /\ cut' = Len(Chunk)
        /\ arrived' = [arrived EXCEPT ![Last] = @ \cup 1 .. Len(Chunk)]
        /\ len' = f.size
        /\ index' = Last
        /\ prev' = NewPrev(Last)
        /\ Payload(data, ok, ok /\ f.size <= FrameMax, f.size, Last)
        /\ UNCHANGED <<frames, watched>>

\* A datagram with a header arrives.
Header ==
    LET f == frames[Last]
        ok == Accepted(Last, f.key)
    IN  /\ ~AllSent
        /\ cut = 0
        /\ cut' = Len(Chunk)
        /\ arrived' = [arrived EXCEPT ![Last] = @ \cup 1 .. Len(Chunk)]
        /\ len' = f.size
        /\ index' = Last
        /\ prev' = NewPrev(Last)
        /\ Payload(<<>>, ok, ok /\ f.size <= FrameMax, f.size, Last)
        /\ UNCHANGED <<frames, watched>>

\* One without arrives.
Continuation ==
    /\ ~AllSent
    /\ cut > 0
    /\ cut' = cut + Len(Chunk)
    /\ arrived' = [arrived EXCEPT ![Last] = @ \cup (cut + 1) .. (cut + Len(Chunk))]
    /\ Payload(data, first, start, len, index)
    /\ UNCHANGED <<frames, len, index, prev, watched>>

Watch ==
    /\ watched' \in Watchers \ {watched}
    /\ out' = NoFrame
    /\ UNCHANGED <<sender, first, start, len, index, prev, data, tuyaFirst,
                   uploads>>

Next ==
    \/ \E key \in BOOLEAN, size \in Sizes : NewFrame(key, size)
    \/ Lost
    \/ Header
    \/ Continuation
    \/ Watch

Spec == Init /\ [][Next]_vars

----------------------------------------------------------------------------
Units == [frame : 1 .. MaxFrames, unit : Nat]

TypeOK ==
    /\ frames \in Seq([key : BOOLEAN, size : Sizes])
    /\ arrived \in Seq(SUBSET Nat)
    /\ Len(arrived) = Last
    /\ cut \in Nat
    /\ first \in BOOLEAN
    /\ start \in BOOLEAN
    /\ len \in Sizes \cup {0}
    /\ index \in 0 .. Last
    /\ prev \in 0 .. Last
    /\ data \in Seq(Units)
    /\ Len(data) <= FrameMax
    /\ out \in [index : 0 .. Last, data : Seq(Units)]
    /\ watched \in Watchers
    /\ tuyaFirst \in BOOLEAN
    /\ uploads \in [key : BOOLEAN, any : BOOLEAN]

HeaderArrived(k) == 1 \in arrived[k]
AllArrived(k) == arrived[k] = 1 .. frames[k].size
Whole(k) == [u \in 1 .. frames[k].size |-> [frame |-> k, unit |-> u]]
Delivered(k) == out = [index |-> k, data |-> Whole(k)]

\* A frame handed to the decoder has the bytes its sender gave it, in order,
\* unless the header of a later frame was lost as well as a part of this one:
\* only then the parts of two frames can add up to the announced length.
Untorn ==
    out # NoFrame =>
        \/ Delivered(out.index)
        \/ /\ ~AllArrived(out.index)
           /\ \E k \in out.index + 1 .. Last : ~HeaderArrived(k)

\* A frame that is not a key frame reaches the decoder only at the end of an
\* unbroken run of headers that starts at a key frame.  (The frames of the
\* run need not be complete: a lost continuation is not missed.)
ChainUnbroken ==
    out # NoFrame /\ ~frames[out.index].key =>
        \E j \in 1 .. out.index :
            /\ frames[j].key
            /\ \A k \in j .. out.index : HeaderArrived(k)

\* No loss keeps the picture from coming back: a key frame that arrives
\* completely and is not too long is handed over, whatever was lost before.
KeyFrameRecovers ==
    [][\A k \in DOMAIN frames :
         /\ frames[k].key
         /\ frames[k].size <= FrameMax
         /\ ~AllArrived(k)
         /\ AllArrived(k)'
         => Delivered(k)']_vars

\* The frames that follow it are handed over too, as long as nothing is lost
\* and nothing is too long, if the frame before the key frame was an ordinary
\* one whose header arrived, or the key frame is the first frame.  (After a
\* gap that ends at the key frame they are dropped, because the index the
\* loop compares with is still the one before the gap.)
GroupFlows ==
    [][\A j, k \in DOMAIN frames :
         /\ frames[j].key
         /\ j = 1 \/ (HeaderArrived(j - 1) /\ ~frames[j - 1].key)
         /\ j <= k
         /\ \A i \in j .. k : AllArrived(i)' /\ frames[i].size <= FrameMax
         /\ ~AllArrived(k)
         => Delivered(k)']_vars

\* What the thread gives to Tuya starts with a key frame.
UploadsFromKey == uploads.any => uploads.key

\* The last frame that is over: the one before that which is being collected.
Passed == IF start THEN index - 1 ELSE index

\* The decoder gets frames in the order they were sent, each at most once,
\* whatever is lost.
Stream == INSTANCE LossyStream
    WITH made <- Last, passed <- Passed, handed <- out.index

ImplementsStream == Stream!StreamSpec

==============================================================================
