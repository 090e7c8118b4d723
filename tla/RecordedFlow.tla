---------------------------- MODULE RecordedFlow ----------------------------
(* From what a user does on an Android device to the flow that replays it:    *)
(* the input lines getevent writes, the events parseRawInputEvents reads from *)
(* them, the steps recording-mapper.ts maps them to, the flow it renders.     *)
(* The parser folds over a log that is complete; here it reads each line as   *)
(* it is written, which gives the same events.  Of the two axes, x has values *)
(* here: raw ones of the panel until end_record_session scales them to the    *)
(* snapshots.  Time is in units of 300 ms since the recording's startedAt.    *)
EXTENDS Integers, Sequences, FiniteSets, FiniteSetsExt

CONSTANTS Points,        \* raw positions a user may touch
          Elements, Screens,
          FirstScreen,   \* where the recording starts
          Width,         \* of the screen, in pixels
          ElementAt,     \* [Screens -> [0..Width -> Elements \cup {NoElement}]]
          Viewport,      \* how far to the right the nodes of a screen reach
          WeakElements,  \* containers and nodes without an id: coordinates instead
          InputElements, \* those that look like an input field
          NoElement, NoPoint, NoScreen, NoLag,
          Gaps,          \* how long a user waits between taps and keys, or drags
          Devices,       \* how a device reports touches and its time
          MaxActions,    \* bound: actions of the user
          MaxShots       \* bound: rounds of the snapshot loop

ASSUME FlowAssumption ==
    /\ Points \subseteq Nat /\ NoPoint \notin Nat /\ NoElement \notin Elements /\ NoLag \notin Nat
    /\ Width \in Nat /\ ElementAt \in [Screens -> [0..Width -> Elements \cup {NoElement}]]
    /\ Viewport \in [Screens -> 1..Width]
    /\ InputElements \subseteq Elements /\ WeakElements \subseteq Elements
    /\ Devices \subseteq [button : {"none", "early", "late"}, \* where BTN_TOUCH stands, if it is sent
                          axes : {{"x"}, {"y"}, {"x", "y"}}, \* those a touch reports when it begins
                          axis : Nat,                        \* the panel's largest x
                          lag : Nat \cup {NoLag}]            \* of the device's time: see Lag
    /\ FirstScreen \in Screens /\ NoScreen \notin Screens /\ Gaps \subseteq Nat /\ MaxActions \in Nat /\ MaxShots \in Nat

SwipeDistance == 24         \* SWIPE_DISTANCE_THRESHOLD_PX
StrongDistance == 220       \* SWIPE_STRONG_DISTANCE_THRESHOLD_PX
MinSamples == 2             \* SWIPE_MIN_MOVE_SAMPLES
SwipeDuration == 4          \* SWIPE_DURATION_THRESHOLD_MS
DedupeWindow == 1           \* dedupeTapWindowMs
ChunkGap == 4               \* typeChunkGapMs

VARIABLES did,      \* what the user did: the truth the flow is held against
          device, now, screen,
          shots,    \* the snapshots named: [at, screen]; NoScreen: no file (yet)
          lines,    \* log lines not read yet
          touch,    \* the parser's touch
          events,   \* parsed events
          phase,    \* "capture", "map", "render", "done"
          mapper,   \* the mapper's [lastTap, field]; field is lastInputIntent
          steps, warned, flow,
          unread    \* events the mapper, or steps the renderer, has still to read
vars == <<did, device, now, screen, shots, lines, touch, events, phase, mapper, steps, warned, flow, unread>>

Keys == {"letter", "space", "enter", "other"}  \* enter: TAB too; other: unmapped, such as DEL
NoTouch == [active |-> FALSE, start |-> NoPoint, at |-> 0, samples |-> 0,
            current |-> NoPoint, y |-> FALSE]   \* y: known; start and current: of x
NoTap == [pos |-> NoPoint, at |-> 0]

Init == /\ did = << >> /\ now = 0 /\ screen = FirstScreen /\ device \in Devices
        /\ shots = << >>
        /\ lines = << >> /\ touch = NoTouch /\ events = << >> /\ phase = "capture"
        /\ mapper = [lastTap |-> NoTap, field |-> NoElement]
        /\ steps = << >> /\ warned = {} /\ flow = << >> /\ unread = << >>

-----------------------------------------------------------------------------
(* The user and the device.  A user acts when the last action is logged.      *)
Line(kind, at) == [kind |-> kind, at |-> at, to |-> NoPoint, axes |-> {}, key |-> "other"]
Position(p, axes, at) == [Line("position", at) EXCEPT !.to = p, !.axes = axes]
\* The pixel at raw position x, and what stands at a pixel of a screen.
Rescaled(x, max, width) ==
    IF max = 0 THEN x
    ELSE LET pixel == (2 * x * width + max) \div (2 * max)
         IN  IF pixel > width THEN width ELSE pixel
OnScreen(x) == IF device.axis = Width THEN x ELSE Rescaled(x, device.axis, Width)
Hit(s, x) == IF x \in 0..Width THEN ElementAt[s][x] ELSE NoElement

Act(kind, p, at, written) ==
    /\ phase = "capture" /\ lines = << >> /\ Len(did) < MaxActions
    /\ did' = Append(did, [kind |-> kind, at |-> at, screen |-> screen,
                           element |-> IF p = NoPoint THEN NoElement ELSE Hit(screen, OnScreen(p))])
    /\ now' = at
    /\ lines' = written
    /\ UNCHANGED <<device, screen, shots, touch, events, phase, mapper, steps, warned, flow, unread>>

\* The kernel leaves out an axis that did not change, and devices differ in where
\* BTN_TOUCH stands among the lines of a touch, if they send it.
Pressed(down, p) ==
    <<Line("track", down)>>
    \o (IF device.button = "early" THEN <<Line("down", down)>> ELSE << >>)
    \o <<Position(p, device.axes, down)>>
    \o (IF device.button = "late" THEN <<Line("down", down)>> ELSE << >>)
Lifted(up) ==
    (IF device.button = "none" THEN << >> ELSE <<Line("up", up)>>) \o <<Line("lift", up)>>

Tap(p, gap) == Act("tap", p, now + gap, Pressed(now + gap, p) \o Lifted(now + gap))
Drag(p, q, duration) ==
    Act("swipe", p, now + duration,
        Pressed(now, p) \o <<Position(q, {"x", "y"}, now + duration)>> \o Lifted(now + duration))
Press(kind, gap) ==
    Act(kind, NoPoint, now + gap, <<[Line("key", now + gap) EXCEPT !.key = kind]>>)

\* The app shows another screen, for what the user did or on its own.
ScreenChanges ==
    /\ phase = "capture" /\ lines = << >>
    /\ \E s \in Screens \ {screen} : screen' = s
    /\ UNCHANGED <<did, device, now, shots, lines, touch, events, phase, mapper, steps, warned, flow, unread>>

\* The snapshot loop names a snapshot by the host's time, then dumps the screen; a
\* dump that fails leaves no file.
NameSnapshot ==
    /\ phase = "capture" /\ lines = << >> /\ Len(shots) < MaxShots
    /\ now' = now + 1
    /\ shots' = Append(shots, [at |-> now', screen |-> NoScreen])
    /\ UNCHANGED <<did, device, screen, lines, touch, events, phase, mapper, steps, warned, flow, unread>>

DumpSnapshot ==
    /\ phase = "capture" /\ lines = << >> /\ shots # << >> /\ shots[Len(shots)].screen = NoScreen
    /\ shots' = [shots EXCEPT ![Len(shots)].screen = screen]
    /\ UNCHANGED <<did, device, now, screen, lines, touch, events, phase, mapper, steps, warned, flow, unread>>

-----------------------------------------------------------------------------
(* parseRawInputEvents, line by line: the event of a line, by the user action  *)
(* it stems from.  reach is the largest x the event names.                     *)
\* Slip: the event of the action after this one.
EventNextAction(kind, at) == [kind |-> kind, at |-> at, pos |-> NoPoint, reach |-> 0, key |-> "other",
                              seen |-> NoScreen, by |-> Len(did) + 1]
Event(kind, at) == [kind |-> kind, at |-> at, pos |-> NoPoint, reach |-> 0, key |-> "other",
                    seen |-> NoScreen, by |-> Len(did)]
Distance(p, q) == IF p < q THEN q - p ELSE p - q
IsSwipe(t, at) ==
    /\ t.start # NoPoint /\ t.current # NoPoint /\ t.y
    /\ \/ Distance(t.start, t.current) >= SwipeDistance /\ t.samples >= MinSamples
       \/ Distance(t.start, t.current) >= StrongDistance
    /\ at - t.at <= SwipeDuration

Began(t, at) == [NoTouch EXCEPT !.active = TRUE, !.at = at]
Moved(t, line) ==
    LET x == IF "x" \in line.axes THEN line.to ELSE t.current
        y == t.y \/ "y" \in line.axes
    IN  IF ~t.active THEN [t EXCEPT !.current = x, !.y = y]
        ELSE [t EXCEPT !.current = x, !.y = y,
                       !.start = IF @ = NoPoint THEN x ELSE @,
                       !.samples = @ + (IF line.axes = {"x", "y"} THEN 2 ELSE 1)]

Touched(t, kind, at) ==
    LET known == (IF t.y THEN {t.start, t.current} ELSE {t.current}) \ {NoPoint}
    IN  [Event(kind, at) EXCEPT
            !.pos = CASE ~t.y -> NoPoint [] kind = "swipe" -> t.start [] OTHER -> t.current,
            !.reach = Max(known \cup {0})]

\* Slip: BTN_TOUCH UP and the lift of the slot both end a touch.
FinalizedTwice(t, line) ==
    <<Touched(t, IF IsSwipe(t, line.at) THEN "swipe" ELSE "tap", line.at)>>

Finalized(t, line) ==
    IF ~t.active THEN << >>
    ELSE <<Touched(t, IF IsSwipe(t, line.at) THEN "swipe" ELSE "tap", line.at)>>

KeyEvents(line) ==
    IF line.key = "other" THEN << >>
    ELSE IF line.key \in Keys THEN <<[Event("type", line.at) EXCEPT !.key = line.key]>>
    ELSE <<Event(line.key, line.at)>>

ParseLine ==
    /\ phase = "capture" /\ lines # << >>
    /\ LET line == Head(lines) IN
        /\ touch' = CASE line.kind = "position" -> Moved(touch, line)
                      [] line.kind = "track" -> IF touch.active THEN touch ELSE Began(touch, line.at)
                      [] line.kind = "down" -> Began(touch, line.at)
                      [] line.kind \in {"up", "lift"} /\ touch.active ->
                           [NoTouch EXCEPT !.current = touch.current, !.y = touch.y]
                      [] OTHER -> touch
        /\ events' = events \o (CASE line.kind \in {"up", "lift"} -> Finalized(touch, line)
                                  [] line.kind = "key" -> KeyEvents(line)
                                  [] OTHER -> << >>)
    /\ lines' = Tail(lines)
    /\ UNCHANGED <<did, device, now, screen, shots, phase, mapper, steps, warned, flow, unread>>

-----------------------------------------------------------------------------
(* end_record_session dates the events, gives each a snapshot and scales them. *)
Taken == {i \in DOMAIN shots : shots[i].screen # NoScreen}

\* mapMonotonicToIso adds to startedAt what lies between the event and the anchor,
\* the uptime read some time after startedAt, which counts the device's sleep too;
\* without it, the first event.
Lag == IF device.lag = NoLag THEN events[1].at ELSE device.lag
Estimated(at) == IF at > Lag THEN at - Lag ELSE 0

\* chooseNearestSnapshotRef: the last one at or before the estimate, else the first.
\* Without any, the one end_record_session takes, if it succeeds.
Nearest(at, final) ==
    IF \E i \in Taken : shots[i].at <= at THEN shots[Max({i \in Taken : shots[i].at <= at})].screen
    ELSE IF Taken # {} THEN shots[Min(Taken)].screen
    ELSE final

\* normalizeEventsToViewport: once a coordinate lies well beyond the first snapshot,
\* in x or in y, the largest recorded is taken for the far end of the axis.
Farthest == Max({events[i].reach : i \in DOMAIN events} \cup {0})
\* Slip: no test whether the coordinates are raw.
ScaledAlways(x, first, beyondInY) ==
    IF x = NoPoint \/ first = NoScreen THEN x ELSE Rescaled(x, Farthest, Viewport[first])
Scaled(x, first, beyondInY) ==
    IF x = NoPoint \/ first = NoScreen \/ ~(beyondInY \/ 5 * Farthest > 6 * Viewport[first])
    THEN x
    ELSE Rescaled(x, Farthest, Viewport[first])

\* Pixels do not lie beyond a snapshot that fills the screen.
EndCapture ==
    /\ phase = "capture" /\ lines = << >> /\ phase' = "map"
    /\ \E final \in {screen, NoScreen}, beyondInY \in BOOLEAN :
        LET first == IF Taken # {} THEN shots[Min(Taken)].screen ELSE final
        IN  /\ (device.axis = Width /\ first # NoScreen /\ Viewport[first] = Width) => ~beyondInY
            /\ unread' = [i \in DOMAIN events |->
                  [events[i] EXCEPT !.at = Estimated(@),
                                    !.pos = Scaled(@, first, beyondInY),
                                    !.seen = Nearest(Estimated(events[i].at), final)]]
    /\ UNCHANGED <<did, device, now, screen, shots, lines, touch, events, mapper, steps, warned, flow>>

-----------------------------------------------------------------------------
(* mapRawEventsToRecordedSteps, event by event.                               *)
Selector(e) == IF e.pos = NoPoint \/ e.seen = NoScreen THEN NoElement ELSE Hit(e.seen, e.pos)
Step(kind, element, pos, by) == [kind |-> kind, element |-> element, pos |-> pos, by |-> by]
WithWait(step) ==
    IF step.element = NoElement \/ step.kind \notin {"tap_element", "type_into_element"} THEN <<step>>
    ELSE <<step, Step("wait_for_ui", step.element, NoPoint, step.by)>>
Read(n) == unread' = SubSeq(unread, n + 1, Len(unread))
Mapping(kinds) == phase = "map" /\ unread # << >> /\ unread[1].kind \in kinds

Noisy(e) == /\ e.pos # NoPoint /\ mapper.lastTap.pos = e.pos
            /\ e.at - mapper.lastTap.at <= DedupeWindow
MapTap ==
    /\ Mapping({"tap"}) /\ Read(1)
    /\ LET e == unread[1]
           el == Selector(e)
           strong == el # NoElement /\ el \notin WeakElements
       IN  IF Noisy(e)
           THEN /\ warned' = warned \cup {e.by} /\ UNCHANGED <<steps, mapper>>
           ELSE /\ mapper' = [lastTap |-> [pos |-> e.pos, at |-> e.at],
                              field |-> IF e.pos = NoPoint THEN mapper.field
                                        ELSE IF strong /\ el \in InputElements THEN el
                                        ELSE NoElement]
                /\ steps' = steps \o WithWait(
                       IF strong THEN Step("tap_element", el, e.pos, <<e.by>>)
                       ELSE Step("tap", NoElement, e.pos, <<e.by>>))
                /\ UNCHANGED warned
    /\ UNCHANGED <<did, device, now, screen, shots, lines, touch, events, phase, flow>>

\* A chunk of text: the events after the first, up to a pause or a delimiter,
\* which is read and dropped.
Follows(i) == /\ unread[i].kind = "type" /\ unread[i].at - unread[i - 1].at <= ChunkGap
              /\ unread[i].key # "enter"
ChunkLength == Max({n \in 1..Len(unread) : \A i \in 2..n : Follows(i)})
Delimited(n) == /\ n < Len(unread) /\ unread[n + 1].kind = "type" /\ unread[n + 1].key = "enter"
                /\ unread[n + 1].at - unread[n].at <= ChunkGap
MapType ==
    /\ Mapping({"type"})
    /\ LET n == ChunkLength IN
        IF unread[1].key # "letter"
        THEN /\ warned' = warned \cup {unread[1].by} /\ Read(1) /\ UNCHANGED steps
        ELSE /\ steps' = steps \o WithWait(Step("type_into_element", mapper.field, NoPoint,
                                                [i \in 1..n |-> unread[i].by]))
             /\ Read(IF Delimited(n) THEN n + 1 ELSE n)
             /\ UNCHANGED warned
    /\ UNCHANGED <<did, device, now, screen, shots, lines, touch, events, phase, mapper, flow>>

\* Slip: a swipe, home or back leaves the input target as it was.
MapOtherKeepsField ==
    /\ Mapping({"swipe", "home", "back"}) /\ Read(1)
    /\ LET e == unread[1]
           kind == IF e.kind = "swipe" THEN "swipe"
                   ELSE IF e.kind = "home" THEN "launch_app" ELSE "wait_for_ui"
       IN  steps' = Append(steps, Step(kind, NoElement, e.pos, <<e.by>>))
    /\ UNCHANGED <<did, device, now, screen, shots, lines, touch, events, phase, mapper, warned, flow>>

MapOther ==
    /\ Mapping({"swipe", "home", "back"}) /\ Read(1)
    /\ LET e == unread[1]
           kind == CASE e.kind = "swipe" -> "swipe"
                     [] e.kind = "home" -> "launch_app"
                     [] e.kind = "back" -> "wait_for_ui"
       IN  steps' = Append(steps, Step(kind, NoElement, e.pos, <<e.by>>))
    /\ mapper' = [mapper EXCEPT !.field = NoElement]
    /\ UNCHANGED <<did, device, now, screen, shots, lines, touch, events, phase, warned, flow>>

EndMapping ==
    /\ phase = "map" /\ unread = << >> /\ phase' = "render" /\ unread' = steps
    /\ UNCHANGED <<did, device, now, screen, shots, lines, touch, events, mapper, steps, warned, flow>>

-----------------------------------------------------------------------------
(* renderRecordedStepsAsFlow, step by step.                                   *)
Rendered(s) ==
    CASE s.kind = "launch_app" -> <<[s EXCEPT !.kind = "launchApp"]>>
      [] s.kind = "tap_element" -> <<[s EXCEPT !.kind = "tapOn"]>>
      [] s.kind = "tap" /\ s.pos # NoPoint -> <<[s EXCEPT !.kind = "tapPoint"]>>
      [] s.kind = "type_into_element" ->
           (IF s.element = NoElement THEN << >> ELSE <<[s EXCEPT !.kind = "focus"]>>)
           \o <<[s EXCEPT !.kind = "inputText"]>>
      [] s.kind = "swipe" -> <<s>>
      [] s.kind = "wait_for_ui" /\ s.element # NoElement -> <<[s EXCEPT !.kind = "assertVisible"]>>
      [] OTHER -> << >>

\* Slip: a step without a command is left out without a warning.
RenderStepSilently ==
    /\ phase = "render" /\ unread # << >> /\ Read(1)
    /\ flow' = flow \o Rendered(unread[1])
    /\ UNCHANGED <<did, device, now, screen, shots, lines, touch, events, phase, mapper, steps, warned>>

RenderStep ==
    /\ phase = "render" /\ unread # << >> /\ Read(1)
    /\ flow' = flow \o Rendered(unread[1])
    /\ warned' = IF Rendered(unread[1]) = << >> THEN warned \cup {unread[1].by[1]} ELSE warned
    /\ UNCHANGED <<did, device, now, screen, shots, lines, touch, events, phase, mapper, steps>>

EndRendering ==
    /\ phase = "render" /\ unread = << >> /\ phase' = "done"
    /\ UNCHANGED <<did, device, now, screen, shots, lines, touch, events, mapper, steps, warned, flow, unread>>

Reachable == {p \in Points : p <= device.axis}
Next ==
    \/ \E p \in Reachable, gap \in Gaps : Tap(p, gap)
    \/ \E p \in Reachable, duration \in Gaps : \E q \in Reachable \ {p} : Drag(p, q, duration)
    \/ \E kind \in Keys \ {"other"}, gap \in Gaps : Press(kind, gap)
    \/ \E kind \in {"home", "back", "other"} : Press(kind, 0)
    \/ ScreenChanges \/ NameSnapshot \/ DumpSnapshot \/ ParseLine \/ EndCapture
    \/ MapTap \/ MapType \/ MapOther \/ EndMapping
    \/ RenderStep \/ EndRendering

Spec == Init /\ [][Next]_vars

-----------------------------------------------------------------------------
EventKind == {"tap", "swipe", "type", "home", "back"}
Action == [kind : {"tap", "swipe", "home", "back"} \cup Keys, at : Nat, screen : Screens,
           element : Elements \cup {NoElement}]
ParsedEvent == [kind : EventKind, at : Nat, pos : Nat \cup {NoPoint}, reach : Nat, key : Keys,
                seen : Screens \cup {NoScreen}, by : 1..MaxActions]
RecordedStep == [kind : {"tap", "tap_element", "type_into_element", "swipe", "launch_app", "wait_for_ui"},
                 element : Elements \cup {NoElement}, pos : Nat \cup {NoPoint},
                 by : Seq(1..MaxActions)]
Command == [kind : {"tapOn", "tapPoint", "focus", "inputText", "swipe", "launchApp", "assertVisible"},
            element : Elements \cup {NoElement}, pos : Nat \cup {NoPoint},
            by : Seq(1..MaxActions)]
TypeOK ==
    /\ did \in Seq(Action) /\ Len(did) <= MaxActions /\ device \in Devices /\ now \in Nat /\ screen \in Screens
    /\ shots \in Seq([at : Nat, screen : Screens \cup {NoScreen}])
    /\ lines \in Seq([kind : {"track", "down", "position", "up", "lift", "key"}, at : Nat,
                      to : Points \cup {NoPoint}, axes : SUBSET {"x", "y"}, key : Keys \cup {"home", "back"}])
    /\ touch \in [active : BOOLEAN, start : Points \cup {NoPoint}, at : Nat, samples : Nat,
                  current : Points \cup {NoPoint}, y : BOOLEAN]
    /\ events \in Seq(ParsedEvent) /\ phase \in {"capture", "map", "render", "done"}
    /\ mapper \in [lastTap : [pos : Nat \cup {NoPoint}, at : Nat],
                   field : InputElements \cup {NoElement}]
    /\ steps \in Seq(RecordedStep) /\ warned \subseteq 1..MaxActions /\ flow \in Seq(Command)
    /\ IF phase = "map" THEN unread \in Seq(ParsedEvent) ELSE unread \in Seq(RecordedStep)

Replays(command) == command.kind \notin {"focus", "assertVisible"}
From(command) == {command.by[k] : k \in DOMAIN command.by}

\* The commands that replay something do so in the order the user acted, and no
\* action of the user is replayed twice: a touch that ends in two lines is one
\* event, and a chunk of text is read once.
FlowInOrder ==
    \A i, j \in DOMAIN flow : (i < j /\ Replays(flow[i]) /\ Replays(flow[j])) =>
        \A m \in From(flow[i]), n \in From(flow[j]) : m < n

\* An action that is not replayed is warned about, keys without a text and the
\* delimiters of text excepted.
NothingLostSilently ==
    phase = "done" => \A n \in DOMAIN did :
        \/ did[n].kind \in {"other", "enter"} \/ n \in warned
        \/ \E i \in DOMAIN flow : Replays(flow[i]) /\ n \in From(flow[i])

\* Text goes into the field of the last touch before it, and into none when the
\* user left that field by a swipe, home or back; touches the recorder dropped
\* with a warning do not count.
TypedWhereTapped ==
    phase = "done" => \A i \in DOMAIN flow : flow[i].kind = "focus" =>
        LET prior == {n \in 1..(flow[i].by[1] - 1) :
                          /\ did[n].kind \notin Keys
                          /\ ~(did[n].kind \in {"tap", "swipe"} /\ n \in warned)}
        IN  /\ prior # {}
            /\ \E j \in 1..(i - 1) : /\ flow[j].kind = "tapOn" /\ flow[j].by = <<Max(prior)>>
                                     /\ flow[j].element = flow[i].element

\* The recording says where its touches were: the first snapshot fills the screen,
\* and the panel reports pixels or some touch reached the far end of a longer axis.
ScaleIsKnown ==
    /\ Taken # {} /\ Viewport[shots[Min(Taken)].screen] = Width
    /\ \/ device.axis = Width
       \/ 5 * device.axis > 6 * Width /\ Farthest = device.axis

\* Some snapshot is older than the tap by the lag at least, and it and all between
\* it and the tap show the screen that was tapped.
ScreenIsKnown(tap) ==
    \E i \in Taken :
        /\ shots[i].at + Lag <= tap.at
        /\ \A j \in Taken : (j >= i /\ shots[j].at <= tap.at) => shots[j].screen = tap.screen

\* A tap replayed on an element is replayed on the one the user tapped, if the
\* recording says where on the screen its touches were and on which screen.
TapsTheElement ==
    \A i \in DOMAIN flow : flow[i].kind = "tapOn" =>
        LET tap == did[flow[i].by[1]]
        IN  (tap.kind = "tap" /\ ScaleIsKnown /\ ScreenIsKnown(tap)) => flow[i].element = tap.element
=============================================================================
