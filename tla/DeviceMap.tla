----------------------------- MODULE DeviceMap -----------------------------
(***************************************************************************)
(* The map of the GUI (DataWindow): the positions of the last seconds, or  *)
(* an animation of earlier ones that a slider moves through.  An animation *)
(* draws the ellipses of all its frames at once, hidden, under names made  *)
(* of an index and the frame's time; the slider shows and hides them by    *)
(* name.  The server inserts positions while the frames are drawn.         *)
(*                                                                         *)
(* Everything but InsertDevice runs on the thread of the window.  Names    *)
(* outlive the ellipses that are cleared from the canvas.                  *)
(***************************************************************************)
EXTENDS Integers, Sequences, FiniteSets, Functions

CONSTANTS Mac,        \* the devices the system locates
          Recent,     \* 120: seconds for which a position counts
          MaxFrames,  \* 100: frames after the first in an animation
          MaxTime,    \* bound: times are 1 .. MaxTime
          MaxRows,    \* bound: rows of table devices
          MaxClicks   \* bound: animations asked for

ASSUME DeviceMapAssumption ==
    /\ IsFiniteSet(Mac)
    /\ Recent \in Nat \ {0} /\ MaxFrames \in Nat
    /\ MaxTime \in Nat /\ MaxRows \in Nat /\ MaxClicks \in Nat

VARIABLES
    devices,            \* table devices, in the order of dev_id
    frame,              \* the frame being drawn, 0 when the window is idle
    unixBegin, unixLast, granularity,
    clicks,             \* animations asked for so far
    names,              \* the ellipse of each registered name
    canvas,             \* the ellipses of frames on the canvas
    visible,            \* those of them that are not hidden
    latest,             \* the ellipses of Update_Click on the canvas
    slider,             \* where the slider is, 0 while it is hidden
    previouslyChecked

request == <<unixBegin, unixLast, granularity, clicks>>
mapVars == <<devices, frame, request, names, canvas, visible, latest, slider,
             previouslyChecked>>

Time == 1 .. MaxTime

MapInit ==
    /\ devices = <<>>
    /\ frame = 0
    /\ unixBegin = 0 /\ unixLast = 0 /\ granularity = 100
    /\ clicks = 0
    /\ names = <<>>
    /\ canvas = {} /\ visible = {} /\ latest = {}
    /\ slider = 0
    /\ previouslyChecked = 0
-----------------------------------------------------------------------------
\* process() inserts a position
InsertDevice ==
    /\ Len(devices) < MaxRows
    /\ \E mac \in Mac, t \in Time :
           devices' = Append(devices, [mac |-> mac, timestamp |-> t])
    /\ UNCHANGED <<frame, request, names, canvas, visible, latest, slider,
                   previouslyChecked>>

\* the join on max_id: the last row of each device, wherever it lies in time
LastRow(mac) == {i \in DOMAIN devices :
    /\ devices[i].mac = mac
    /\ \A j \in i + 1 .. Len(devices) : devices[j].mac # mac}

\* the devices whose last row is of the Recent seconds before t
Slice(t) == {mac \in Mac : \E i \in LastRow(mac) :
    t - Recent < devices[i].timestamp /\ devices[i].timestamp <= t}

\* ... after t - Recent
Since(t) == {mac \in Mac : \E i \in LastRow(mac) : t - Recent < devices[i].timestamp}

FramesOf(begin, last, step) == {t \in begin .. last : (t - begin) % step = 0}

(***************************************************************************)
(* The loop over the names stays at "device0_...", which no ellipse is     *)
(* called, and so unregisters none.                                        *)
(***************************************************************************)
ClearMap ==
    /\ names' = Restrict(names, DOMAIN names \
                   {<<0, t>> : t \in FramesOf(unixBegin, unixLast, granularity)})
    /\ canvas' = {} /\ visible' = {}
    /\ slider' = 0
    /\ previouslyChecked' = 0

\* variant: the request stays what it was
KeepRequest == UNCHANGED <<unixBegin, unixLast, granularity>>

\* the end of ClearMap; Animation_Click overwrites it
ForgetRequest == unixBegin' = 0 /\ unixLast' = 0 /\ granularity' = 100

\* Update_Click, for all devices or for one; its ellipses have no names
UpdateClick ==
    /\ frame = 0
    /\ ClearMap /\ ForgetRequest
    /\ \E now \in Time, macs \in {Mac} \cup {{mac} : mac \in Mac} :
           latest' = Since(now) \cap macs
    /\ UNCHANGED <<devices, frame, clicks>>
-----------------------------------------------------------------------------
(* Animation_Click                                                         *)

\* variant: any number of frames is computed
NeverTooMany(begin, last, step) == FALSE

\* timeFrames > 100
TooMany(begin, last, step) == (last - begin) \div step > MaxFrames

\* The map is cleared, unless the request before this one was for too many
\* frames; then this request is taken, or refused.
AnimationClick ==
    /\ frame = 0
    /\ clicks < MaxClicks
    /\ clicks' = clicks + 1
    /\ IF TooMany(unixBegin, unixLast, granularity)
       THEN UNCHANGED <<names, canvas, visible, latest, slider, previouslyChecked>>
       ELSE ClearMap /\ latest' = {}
    /\ unixBegin' \in Time /\ unixLast' \in Time /\ granularity' \in Time
    /\ frame' = IF unixBegin' < unixLast' /\ ~TooMany(unixBegin', unixLast', granularity')
                THEN unixBegin' ELSE 0
    /\ UNCHANGED devices

\* one query, whose rows come in any order, and DrawDevice for each row
DrawFrame ==
    /\ frame \in 1 .. unixLast
    /\ \E macs \in {s \in [1 .. Cardinality(Slice(frame)) -> Slice(frame)] : IsInjective(s)} :
           LET drawn == {<<i, frame>> : i \in DOMAIN macs}
               Drawn(mac) == [click |-> clicks, frame |-> frame, mac |-> mac]
           IN  /\ names' = [n \in DOMAIN names \cup drawn |->
                               IF n \in drawn THEN Drawn(macs[n[1]]) ELSE names[n]]
               /\ canvas' = canvas \cup {Drawn(mac) : mac \in Slice(frame)}
    /\ frame' = frame + granularity
    /\ UNCHANGED <<devices, request, visible, latest, slider, previouslyChecked>>

\* The names "device1_<t>", "device2_<t>", ... up to the first gap.
Named(t) ==
    {n \in DOMAIN names : /\ n[2] = t /\ n[1] >= 1
                          /\ \A i \in 1 .. n[1] : <<i, t>> \in DOMAIN names}
Shown(t) == {names[n] : n \in Named(t)}

\* variant: the frame shown before stays
UpdateAnimationOver(t) ==
    /\ visible' = (visible \cup Shown(t)) \cap canvas
    /\ previouslyChecked' = t

\* A name that an earlier animation left may be that of an ellipse that is
\* on the canvas no more.
UpdateAnimation(t) ==
    /\ visible' = ((visible \ Shown(previouslyChecked)) \cup Shown(t)) \cap canvas
    /\ previouslyChecked' = t

\* the end of Animation_Click: SetUpSlider, UpdateAnimation(unixBegin)
SetUpSlider ==
    /\ frame > unixLast
    /\ frame' = 0
    /\ slider' = unixBegin
    /\ UpdateAnimation(unixBegin)
    /\ UNCHANGED <<devices, request, names, canvas, latest>>

\* Slider_ValueChanged: the slider snaps to the frames, and to its end
MoveSlider ==
    /\ frame = 0
    /\ slider # 0
    /\ \E t \in FramesOf(unixBegin, unixLast, granularity) \cup {unixLast} :
           /\ slider' = t
           /\ UpdateAnimation(t)
    /\ UNCHANGED <<devices, frame, request, names, canvas, latest>>

MapNext == \/ InsertDevice
           \/ UpdateClick \/ AnimationClick \/ DrawFrame \/ SetUpSlider
           \/ MoveSlider

MapSpec == MapInit /\ [][MapNext]_mapVars
-----------------------------------------------------------------------------
Ellipse == [click : 1 .. MaxClicks, frame : Time, mac : Mac]

MapTypeOK ==
    /\ devices \in Seq([mac : Mac, timestamp : Time]) /\ Len(devices) <= MaxRows
    /\ frame \in 0 .. 2 * MaxTime
    /\ unixBegin \in 0 .. MaxTime /\ unixLast \in 0 .. MaxTime
    /\ granularity \in 1 .. MaxTime \cup {100}
    /\ clicks \in 0 .. MaxClicks
    /\ Range(names) \subseteq Ellipse
    /\ canvas \subseteq Ellipse /\ visible \subseteq canvas
    /\ latest \subseteq Mac
    /\ slider \in 0 .. MaxTime /\ previouslyChecked \in 0 .. MaxTime

(***************************************************************************)
(* There are never more than MaxFrames + 1 frames on the canvas, although  *)
(* a refused request leaves it as it was and its times behind.             *)
(***************************************************************************)
FewFrames == Cardinality({e.frame : e \in canvas}) <= MaxFrames + 1

(***************************************************************************)
(* Wherever the slider is moved, and whatever names earlier animations     *)
(* have left registered, the ellipses to be seen are those drawn for the   *)
(* slider's time, all of them and no others.                               *)
(***************************************************************************)
OnlyThisFrame ==
    slider # 0 => visible = {e \in canvas : e.frame = slider}

(***************************************************************************)
(* The canvas never mixes two animations, or an animation with the latest  *)
(* positions, although it is not cleared after a request for too many      *)
(* frames.                                                                 *)
(***************************************************************************)
OneMap ==
    /\ canvas = {} \/ latest = {}
    /\ \A e \in canvas : e.click = clicks
=============================================================================
