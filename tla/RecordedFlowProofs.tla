------------------------- MODULE RecordedFlowProofs -------------------------
(***************************************************************************)
(* Proofs about RecordedFlow, for any screens, elements, panels, clocks    *)
(* and bounds.                                                             *)
(*                                                                         *)
(* The invariant has a part for each phase, since each works on a list of  *)
(* its own: the lines still to be read (CaptureInv), the events still to   *)
(* be mapped (MapInv), the steps still to be rendered (RenderInv).  Three  *)
(* facts go along from list to list, and are what the properties become    *)
(* at the end, when nothing is left to read: what was read stems from      *)
(* earlier actions of the user than what is left, and each action of the   *)
(* user is in one or the other, or warned about, or need not be replayed;  *)
(* a tap on an element hit that element if the recording says where it     *)
(* was and on which screen; and of the actions between a text and the tap  *)
(* its field comes from, each is one that does not count.                  *)
(***************************************************************************)
EXTENDS RecordedFlow, FiniteSetTheorems, WellFoundedInduction, SequenceTheorems, TLAPS

\* What is left of a list after its first r elements.
LEMMA Rest ==
  ASSUME NEW S, NEW list \in Seq(S), NEW r \in 0 .. Len(list), NEW rest,
         rest = SubSeq(list, r + 1, Len(list))
  PROVE  /\ rest \in Seq(S) /\ Len(rest) = Len(list) - r
         /\ DOMAIN rest = 1 .. Len(rest) /\ Len(rest) \in Nat
         /\ \A i \in 1 .. Len(rest) : rest[i] = list[r + i] /\ r + i \in 1 .. Len(list)
  BY SMTT(30)

\* One list after another.
LEMMA Joined ==
  ASSUME NEW S, NEW a \in Seq(S), NEW b \in Seq(S), NEW c, c = a \o b
  PROVE  /\ c \in Seq(S) /\ Len(c) = Len(a) + Len(b)
         /\ \A i \in 1 .. Len(a) : c[i] = a[i]
         /\ \A i \in 1 .. Len(b) : c[Len(a) + i] = b[i]
  BY SMTT(30)

\* The positions of a list that one or two elements were added to.
LEMMA OneOrTwoMore ==
  ASSUME NEW n \in Nat, NEW m, m = n + 1 \/ m = n + 2, NEW i \in 1 .. m
  PROVE  i \in 1 .. n \/ i = n + 1 \/ (i = n + 2 /\ m = n + 2)
  OBVIOUS

\* A set of numbers up to some n has a largest: the segments above its members are finite sets, so
\* one of them contains no other.  Mirrored, it has a least.
LEMMA MaxOfPositions ==
  ASSUME NEW n \in Nat, NEW S \in SUBSET (0 .. n), S # {}
  PROVE  Max(S) \in S /\ \A j \in S : j <= Max(S)
<1> DEFINE Above(i) == {k \in 0 .. n : k > i}
           Family == {Above(i) : i \in S}
<1>1. IsFiniteSet(0 .. n)
  BY FS_Interval
<1>2. IsWellFoundedOn(StrictSubsetOrdering(0 .. n), SUBSET (0 .. n))
  BY <1>1, FS_StrictSubsetOrderingWellFounded, FS_FiniteSubsetsOfFinite, Zenon
<1>3. Family \subseteq SUBSET (0 .. n) /\ Family # {}
  OBVIOUS
<1>4. PICK A \in Family : \A B \in Family : <<B, A>> \notin StrictSubsetOrdering(0 .. n)
  <2> HIDE DEF Family
  <2> QED BY <1>2, <1>3, WFMin, Zenon
<1>5. PICK i \in S : A = Above(i)
  BY <1>4
<1>6. ASSUME NEW j \in S, j > i PROVE FALSE
  <2>1. Above(j) \in Family /\ Above(j) \subseteq Above(i)
    BY <1>6
  <2>2. j \in Above(i) /\ j \notin Above(j)
    BY <1>6
  <2>3. Above(j) # Above(i)
    BY <2>2
  <2> QED
    BY <1>4, <1>5, <2>1, <2>3 DEF StrictSubsetOrdering
<1>7. \A j \in S : i >= j
  BY <1>6
<1> QED
  BY <1>5, <1>7 DEF Max

LEMMA MinOfPositions ==
  ASSUME NEW n \in Nat, NEW S \in SUBSET (0 .. n), S # {}
  PROVE  Min(S) \in S /\ \A j \in S : Min(S) <= j
<1> DEFINE Mirror == {n - i : i \in S}
<1>1. Mirror \in SUBSET (0 .. n) /\ Mirror # {}
  <2>1. \A i \in S : n - i \in 0 .. n
    OBVIOUS
  <2>2. Mirror \subseteq 0 .. n
    BY <2>1
  <2> QED
    BY <2>2
<1>2. \A i \in S : n - i \in Mirror
  OBVIOUS
<1>3. Max(Mirror) \in Mirror /\ \A j \in Mirror : j <= Max(Mirror)
  <2> HIDE DEF Mirror
  <2> QED
    BY <1>1, MaxOfPositions
<1>4. PICK i \in S : Max(Mirror) = n - i
  BY <1>3
<1> HIDE DEF Mirror
<1>5. \A j \in S : i <= j
  BY <1>2, <1>3, <1>4
<1> QED
  BY <1>5 DEF Min

-----------------------------------------------------------------------------
(* The inductive invariant.                                                   *)
\* The types of a line and of the parser's touch.
LineRecord == [kind : {"track", "down", "position", "up", "lift", "key"}, at : Nat,
               to : Points \cup {NoPoint}, axes : SUBSET {"x", "y"}, key : Keys \cup {"home", "back"}]
TouchRecord == [active : BOOLEAN, start : Points \cup {NoPoint}, at : Nat, samples : Nat,
                current : Points \cup {NoPoint}, y : BOOLEAN]

\* Last: the action being logged; Emitted: its event has been read.
Touches == {"tap", "swipe"}
IsTouch(n) == did[n].kind \in Touches
Last == Len(did)
Emitted == \E i \in DOMAIN events : events[i].by = Last

\* A touch is logged at a point of the panel, a tap at one of the element it hit.
Places(n, p) ==
    /\ p \in Nat /\ p <= device.axis
    /\ did[n].kind = "tap" => Hit(did[n].screen, OnScreen(p)) = did[n].element
OnTarget(p) == Places(Last, p)

\* An event is of the kind of the action it stems from.
EventFits(e) ==
    /\ e.by \in 1 .. Len(did)
    /\ did[e.by].kind # "other"
    /\ e.kind \in Touches <=> IsTouch(e.by)
    /\ e.kind = "type" => did[e.by].kind = e.key

\* Until end_record_session dates and scales it, it has the time and the places of the action.
Truly(e) ==
    /\ e.at = did[e.by].at /\ e.reach \in Nat /\ e.reach <= device.axis
    /\ e.pos # NoPoint => Places(e.by, e.pos)

\* Events stem from ever later actions, and each action is logged but for unmapped keys.
Rising(list) == \A i, j \in DOMAIN list : i < j => list[i].by < list[j].by
Logged(n) == did[n].kind = "other" \/ \E i \in DOMAIN events : events[i].by = n

\* The lines of a touch end where it is lifted, with or without BTN_TOUCH UP before, and when
\* the action does.
LineFits(list, i, at) ==
    /\ list[i].kind # "key"
    /\ list[i].kind \in {"up", "lift"} => list[i].at = at
    /\ list[i].kind = "up" => i = Len(list) - 1
    /\ list[i].kind = "lift" => i = Len(list)
TouchLines(list, at) ==
    list # << >> /\ list[Len(list)].kind = "lift" /\ \A i \in DOMAIN list : LineFits(list, i, at)
Positions(list) == {list[i].to : i \in {n \in DOMAIN list : list[n].kind = "position"}}

\* Before its event is read, a touch is active or begins with the next line.
Known(t) == {t.start, t.current} \ {NoPoint}
TouchUnderWay ==
    /\ TouchLines(lines, did[Last].at) /\ \A p \in Positions(lines) : OnTarget(p)
    /\ touch.active \/ lines[1].kind = "track"
    /\ touch.active => \A p \in Known(touch) : OnTarget(p)

\* After it, there is at most the lift of the slot to read, and the touch is no longer active:
\* that is why it is read once.
TouchOver == ~touch.active /\ (lines # << >> => Len(lines) = 1 /\ lines[1].kind = "lift")

\* A key writes one line.
KeyLine(list) ==
    Len(list) = 1 /\ list[1].kind = "key" /\ list[1].key = did[Last].kind /\ list[1].at = did[Last].at
KeyPressed ==
    /\ ~touch.active
    /\ lines # << >> => KeyLine(lines) /\ ~Emitted
    /\ lines = << >> => Logged(Last)

\* What the mapper and the renderer have, while the user acts.
AtRest == /\ steps = << >> /\ flow = << >> /\ warned = {} /\ unread = << >>
          /\ mapper = [lastTap |-> NoTap, field |-> NoElement]
EventsInv == /\ Rising(events) /\ \A i \in DOMAIN events : EventFits(events[i]) /\ Truly(events[i])
             /\ \A n \in 1 .. Last - 1 : Logged(n)
TouchInv == /\ lines # << >> => Last > 0
            /\ Last = 0 => ~touch.active
            /\ Last > 0 => IF ~IsTouch(Last) THEN KeyPressed
                           ELSE IF Emitted THEN TouchOver ELSE TouchUnderWay

\* The lines and events of a recording under way.
CaptureInv == phase = "capture" => AtRest /\ EventsInv /\ TouchInv

\* The recording says where the action n was, and on which screen.  A step's element is the one
\* tapped then; so is the one that stands, on the screen an event is given, where it is scaled to.
Sure(n) == did[n].kind = "tap" /\ ScaleIsKnown /\ ScreenIsKnown(did[n])
RightElement(s) == Sure(s.by[1]) => s.element = did[s.by[1]].element
SeenRightly(e) ==
    e.kind = "tap" /\ e.pos # NoPoint /\ Sure(e.by) => Hit(e.seen, e.pos) = did[e.by].element

\* All steps act but for the waits for an element, which are no actions of the user.
Acting(s) == s.kind # "wait_for_ui" \/ s.element = NoElement

\* A step stems from actions of the user; a tap on an element from one touch that is replayed.
StepFits(s) ==
    /\ s.by # << >> /\ From(s) \subseteq 1 .. Len(did)
    /\ Acting(s) /\ s.kind # "type_into_element" => Len(s.by) = 1
    /\ s.kind \in {"tap", "tap_element"} => IsTouch(s.by[1])
    /\ s.kind = "tap_element" => s.by[1] \notin warned /\ RightElement(s) /\ s.element # NoElement

\* Steps act in the order the user did.
Before(s, t) == \A m \in From(s), n \in From(t) : m < n
Ordered(list) ==
    \A i, j \in DOMAIN list : i < j /\ Acting(list[i]) /\ Acting(list[j]) => Before(list[i], list[j])

\* A tap without a position: the renderer will leave it out, with a warning.  Between a text
\* and the touch before it, it counts as little as one warned about already, or a key.
Unplaced(list, n) == \E j \in DOMAIN list : list[j].kind = "tap" /\ list[j].pos = NoPoint /\ list[j].by = <<n>>
Discounted(list, n) ==
    did[n].kind \in Keys \/ (IsTouch(n) /\ (n \in warned \/ Unplaced(list, n)))

\* Texts with a field; LastTouch: b is the last before n that counts.
Typing(s) == s.kind = "type_into_element" /\ s.element # NoElement
LastTouch(list, b, n) == b < n /\ \A k \in b + 1 .. n - 1 : Discounted(list, k)

\* The tap on an element that stems from b.
TapOf(s, el, b) == s.kind = "tap_element" /\ s.element = el /\ s.by = <<b>>

\* Where an action of the user is, in the steps or still among the events.
Held(list, n) == \E i \in DOMAIN list : Acting(list[i]) /\ n \in From(list[i])
Waiting(n) == \E i \in DOMAIN unread : unread[i].by = n

\* The events still to be mapped are later than all that was mapped or warned about.
ReadAhead ==
    /\ Rising(unread) /\ \A i \in DOMAIN unread : EventFits(unread[i]) /\ SeenRightly(unread[i])
    /\ \A j \in DOMAIN unread :
         /\ \A i \in DOMAIN steps : \A m \in From(steps[i]) : m < unread[j].by
         /\ \A m \in warned : m < unread[j].by

\* What was mapped.
StepsInv == Ordered(steps) /\ \A i \in DOMAIN steps : StepFits(steps[i])

\* No action of the user is lost.
MapCovers ==
    \A n \in 1 .. Len(did) :
        did[n].kind \in {"other", "enter"} \/ n \in warned \/ Held(steps, n) \/ Waiting(n)

\* A text is after the tap on its field, and that is the last touch before it that counts.
Typed(i) ==
    \E j \in 1 .. i - 1, b \in 1 .. Len(did) :
        TapOf(steps[j], steps[i].element, b) /\ LastTouch(steps, b, steps[i].by[1])

\* So will be the next text: nothing that counts came after the tap on the mapper's field.
FieldTapped ==
    \E j \in DOMAIN steps, b \in 1 .. Len(did) :
        /\ TapOf(steps[j], mapper.field, b)
        /\ \A n \in b + 1 .. Len(did) : Discounted(steps, n) \/ Waiting(n)

\* The events still to be mapped, and the steps so far.
MapInv ==
    phase = "map" =>
      /\ flow = << >> /\ ReadAhead /\ StepsInv /\ MapCovers
      /\ \A i \in DOMAIN steps : Typing(steps[i]) => Typed(i)
      /\ mapper.field # NoElement => FieldTapped

\* The command that stems from the tap b.
TapOnOf(c, el, b) == c.kind = "tapOn" /\ c.element = el /\ c.by = <<b>>

\* A tap on an element is replayed on the one tapped, and is not warned about.
CommandFits(c) ==
    /\ c.by # << >>
    /\ c.kind = "tapOn" => Len(c.by) = 1 /\ IsTouch(c.by[1]) /\ c.by[1] \notin warned /\ RightElement(c)

\* Where an action of the user is once its step is rendered.
Replayed(n) == \E i \in DOMAIN flow : Replays(flow[i]) /\ n \in From(flow[i])

\* A text still to be rendered, with the tap before it; Focused: one that is rendered.
ToType(i) ==
    \E b \in 1 .. Len(did) :
        /\ LastTouch(unread, b, unread[i].by[1])
        /\ \/ \E j \in 1 .. i - 1 : TapOf(unread[j], unread[i].element, b)
           \/ \E j \in DOMAIN flow : TapOnOf(flow[j], unread[i].element, b)
Focused(i) ==
    \E b \in 1 .. Len(did), j \in 1 .. i - 1 :
        LastTouch(unread, b, flow[i].by[1]) /\ TapOnOf(flow[j], flow[i].element, b)

\* The steps still to be rendered, and the commands so far.
RenderInv ==
    phase \in {"render", "done"} =>
      /\ Ordered(unread) /\ \A i \in DOMAIN unread : StepFits(unread[i])
      /\ \A i \in DOMAIN flow : CommandFits(flow[i])
      /\ \A i \in DOMAIN flow, j \in DOMAIN unread :
            Replays(flow[i]) /\ Acting(unread[j]) => Before(flow[i], unread[j])
      /\ FlowInOrder
      /\ \A n \in 1 .. Len(did) :
           did[n].kind \in {"other", "enter"} \/ n \in warned \/ Held(unread, n) \/ Replayed(n)
      /\ \A i \in DOMAIN unread : Typing(unread[i]) => ToType(i)
      /\ \A i \in DOMAIN flow : flow[i].kind = "focus" => Focused(i)
      /\ phase = "done" => unread = << >>

\* The inductive invariant.
IInv == TypeOK /\ CaptureInv /\ MapInv /\ RenderInv

-----------------------------------------------------------------------------
(* The user, the device and the snapshot loop.                                *)
Shot == [at : Nat, screen : Screens \cup {NoScreen}]

\* What stays as it is while the recording goes on.
CaptureTypes ==
    /\ did \in Seq(Action) /\ Len(did) <= MaxActions /\ device \in Devices /\ now \in Nat
    /\ screen \in Screens
    /\ shots \in Seq(Shot) /\ lines \in Seq(LineRecord) /\ touch \in TouchRecord
    /\ events \in Seq(ParsedEvent)
MapperRecord == [lastTap : [pos : Nat \cup {NoPoint}, at : Nat], field : InputElements \cup {NoElement}]
MappedTypes ==
    /\ mapper \in MapperRecord
    /\ steps \in Seq(RecordedStep) /\ warned \subseteq 1..MaxActions /\ flow \in Seq(Command)
    /\ IF phase = "map" THEN unread \in Seq(ParsedEvent) ELSE unread \in Seq(RecordedStep)

\* Types, those of the recording apart from those of the mapper and the renderer.
LEMMA Types == TypeOK <=> CaptureTypes /\ MappedTypes /\ phase \in {"capture", "map", "render", "done"}
  BY Zenon DEF TypeOK, CaptureTypes, MappedTypes, LineRecord, TouchRecord, MapperRecord, Shot

\* What a step of the capture phase has to keep.
LEMMA StillRecording ==
  ASSUME IInv, phase = "capture", phase' = "capture", CaptureTypes', EventsInv', TouchInv',
         UNCHANGED <<mapper, steps, warned, flow, unread>>
  PROVE  IInv'
<1>1. AtRest' /\ MappedTypes'
  BY Types DEF IInv, CaptureInv, AtRest, MappedTypes
<1>2. TypeOK' <=> CaptureTypes' /\ MappedTypes' /\ phase' \in {"capture", "map", "render", "done"}
  BY Zenon DEF TypeOK, CaptureTypes, MappedTypes, LineRecord, TouchRecord, MapperRecord, Shot
<1> QED
  BY <1>1, <1>2 DEF IInv, CaptureInv, MapInv, RenderInv

\* Whatever the pixel, some element or none stands there.
LEMMA HitsElement ==
  ASSUME NEW s \in Screens, NEW x
  PROVE  Hit(s, x) \in Elements \cup {NoElement}
<1>1. ElementAt[s] \in [0..Width -> Elements \cup {NoElement}]
  BY Zenon, FlowAssumption
<1> QED
  BY <1>1 DEF Hit

\* An action of the user on an idle log, given the lines it writes.
LEMMA ActKeeps ==
  ASSUME IInv, NEW kind \in {"tap", "swipe", "home", "back"} \cup Keys,
         NEW p \in Points \cup {NoPoint}, NEW at \in Nat, NEW written \in Seq(LineRecord),
         Act(kind, p, at, written), written # << >>,
         kind \in Touches => /\ TouchLines(written, at) /\ written[1].kind = "track"
                            /\ \A q \in Positions(written) : OnTarget(q)',
         kind \notin Touches => /\ Len(written) = 1 /\ written[1].kind = "key"
                               /\ written[1].key = kind /\ written[1].at = at
  PROVE  IInv'
<1> DEFINE new == [kind |-> kind, at |-> at, screen |-> screen,
                   element |-> IF p = NoPoint THEN NoElement ELSE Hit(screen, OnScreen(p))]
<1>1. /\ phase = "capture" /\ phase' = "capture" /\ lines = << >> /\ lines' = written
      /\ Len(did) < MaxActions
      /\ did' = Append(did, new) /\ now' = at
      /\ UNCHANGED <<device, screen, shots, touch, events, mapper, steps, warned, flow, unread>>
  BY DEF Act
<1>2. \A s \in Screens : \A x : Hit(s, x) \in Elements \cup {NoElement}
  BY HitsElement
<1>3. CaptureTypes /\ EventsInv /\ TouchInv
  BY <1>1, Types DEF IInv, CaptureInv
<1>4. Len(did) \in Nat /\ MaxActions \in Nat
  BY <1>3, FlowAssumption DEF CaptureTypes
<1>5. new \in Action /\ new.kind = kind /\ new.at = at
  <2>1. PICK element : element = (IF p = NoPoint THEN NoElement ELSE Hit(screen, OnScreen(p)))
    OBVIOUS
  <2>2. element \in Elements \cup {NoElement} /\ screen \in Screens
    BY <1>2, <1>3, <2>1 DEF CaptureTypes
  <2>3. new = [kind |-> kind, at |-> at, screen |-> screen, element |-> element]
    BY <2>1
  <2> QED
    BY <2>2, <2>3 DEF Action
<1> HIDE DEF new
<1>6. /\ did' \in Seq(Action) /\ Len(did') = Len(did) + 1 /\ did'[Len(did) + 1] = new
      /\ \A n \in 1 .. Len(did) : did'[n] = did[n]
  BY <1>1, <1>3, <1>5 DEF CaptureTypes
<1>7. CaptureTypes'
  BY <1>1, <1>2, <1>3, <1>4, <1>6 DEF CaptureTypes
<1>8. \A n \in 1 .. Len(did) : Logged(n)
  <2>1. ASSUME Last > 0 PROVE Logged(Last)
    <3>1. IF ~IsTouch(Last) THEN KeyPressed ELSE IF Emitted THEN TouchOver ELSE TouchUnderWay
      BY <1>3, <2>1 DEF TouchInv
    <3> QED
      BY <1>1, <3>1 DEF KeyPressed, TouchUnderWay, TouchLines, Emitted, Logged
  <2> QED
    BY <1>3, <1>4, <2>1 DEF EventsInv, Last
<1>9. EventsInv'
  <2>1. Rising(events)'
    BY <1>1, <1>3 DEF EventsInv, Rising
  <2>2. \A i \in DOMAIN events : EventFits(events[i])'
    BY <1>1, <1>3, <1>4, <1>6 DEF EventsInv, EventFits, IsTouch
  <2>a. \A i \in DOMAIN events : Truly(events[i])'
    <3>1. ASSUME NEW n \in 1 .. Len(did), NEW x, Places(n, x) PROVE Places(n, x)'
      BY <1>1, <1>6, <3>1 DEF Places, OnScreen
    <3> QED
      BY <1>1, <1>3, <1>6, <3>1 DEF EventsInv, EventFits, Truly
  <2>3. \A n \in 1 .. Len(did) : Logged(n)'
    BY <1>1, <1>6, <1>8 DEF Logged
  <2> QED
    <3>1. Last' - 1 = Len(did)
      BY <1>4, <1>6 DEF Last
    <3> QED
      BY <1>1, <2>1, <2>2, <2>a, <2>3, <3>1 DEF EventsInv
<1>10. ~Emitted'
  <2>1. \A i \in DOMAIN events : events[i].by <= Len(did)
    BY <1>3, <1>4 DEF EventsInv, EventFits
  <2> QED
    BY <1>1, <1>4, <1>6, <2>1 DEF Emitted, Last
<1>11. ~touch.active
  <2>1. ASSUME Last > 0 PROVE ~touch.active
    <3>1. IF ~IsTouch(Last) THEN KeyPressed ELSE IF Emitted THEN TouchOver ELSE TouchUnderWay
      BY <1>3, <2>1 DEF TouchInv
    <3> QED
      BY <1>1, <3>1 DEF KeyPressed, TouchUnderWay, TouchLines, TouchOver
  <2> QED
    BY <1>3, <1>4, <2>1 DEF TouchInv, Last
<1>12. TouchInv'
  <2>1. Last' = Len(did) + 1 /\ did'[Last'] = new /\ (IsTouch(Last)' <=> kind \in Touches)
    BY <1>5, <1>6 DEF Last, IsTouch
  <2>2. CASE kind \in Touches
    <3>1. TouchUnderWay'
      BY <1>1, <1>5, <1>11, <2>1, <2>2 DEF TouchUnderWay
    <3> QED
      BY <1>1, <1>4, <1>5, <1>10, <2>1, <2>2, <3>1 DEF TouchInv
  <2>3. CASE kind \notin Touches
    <3>1. KeyPressed'
      BY <1>1, <1>5, <1>10, <1>11, <2>1, <2>3 DEF KeyPressed, KeyLine
    <3> QED
      BY <1>1, <1>4, <1>5, <1>10, <2>1, <2>3, <3>1 DEF TouchInv
  <2> QED
    BY <2>2, <2>3
<1> QED
  BY <1>1, <1>3, <1>7, <1>9, <1>12, StillRecording

\* The last action is the one just made.
LEMMA Acted ==
  ASSUME IInv, NEW kind \in {"tap", "swipe", "home", "back"} \cup Keys,
         NEW p \in Points \cup {NoPoint}, NEW at \in Nat, NEW written,
         Act(kind, p, at, written)
  PROVE  \A new \in {did[Len(did)]'} :
            new.kind = kind /\ new.screen = screen /\ (p # NoPoint => new.element = Hit(screen, OnScreen(p)))
<1> DEFINE new == [kind |-> kind, at |-> at, screen |-> screen,
                   element |-> IF p = NoPoint THEN NoElement ELSE Hit(screen, OnScreen(p))]
<1>1. did' = Append(did, new) /\ did \in Seq(Action)
  BY Types DEF Act, IInv, CaptureTypes
<1>2. new.kind = kind /\ new.screen = screen /\ (p # NoPoint => new.element = Hit(screen, OnScreen(p)))
  OBVIOUS
<1> HIDE DEF new
<1>3. did'[Len(did')] = new
  BY <1>1
<1> QED
  BY <1>2, <1>3

\* The lines the device writes.
LEMMA Lines ==
  ASSUME NEW kind \in {"track", "down", "up", "lift", "key"}, NEW at \in Nat
  PROVE  Line(kind, at) \in LineRecord /\ Line(kind, at).kind = kind /\ Line(kind, at).at = at
  BY DEF Line, LineRecord, Keys

LEMMA PositionLine ==
  ASSUME NEW p \in Points, NEW axes \in SUBSET {"x", "y"}, NEW at \in Nat
  PROVE  Position(p, axes, at) \in LineRecord /\ Position(p, axes, at).kind = "position"
         /\ Position(p, axes, at).to = p
<1>1. PICK l \in LineRecord : l = Line("position", at) /\ l.kind = "position"
  <2>1. Line("position", at) = [kind |-> "position", at |-> at, to |-> NoPoint, axes |-> {}, key |-> "other"]
    BY DEF Line
  <2>2. Line("position", at) \in LineRecord /\ Line("position", at).kind = "position"
    BY <2>1 DEF LineRecord, Keys
  <2> QED
    BY <2>2
<1>2. PICK m : m = [l EXCEPT !.to = p]
  OBVIOUS
<1>3. m \in LineRecord
  BY <1>2, ZenonT(30) DEF LineRecord
<1>4. PICK n : n = [m EXCEPT !.axes = axes]
  OBVIOUS
<1>5. n \in LineRecord
  BY <1>3, <1>4, ZenonT(30) DEF LineRecord
<1>6. m.kind = "position" /\ m.to = p
  BY <1>1, <1>2 DEF LineRecord
<1>7. n.kind = "position" /\ n.to = p
  BY <1>3, <1>4, <1>6 DEF LineRecord
<1>8. Position(p, axes, at) = n
  BY <1>1, <1>2, <1>4 DEF Position
<1> QED
  BY <1>5, <1>7, <1>8

\* The lines of a touch up to where it is lifted, at points of T, and those after.
Moving(list, T) == /\ list \in Seq(LineRecord) /\ list # << >> /\ list[1].kind = "track"
                   /\ \A i \in DOMAIN list : /\ list[i].kind \in {"track", "down", "position"}
                                             /\ list[i].kind = "position" => list[i].to \in T
Lifts(list, at) ==
    /\ list \in Seq(LineRecord) /\ Len(list) \in Nat /\ (Len(list) = 1 \/ Len(list) = 2)
    /\ list[Len(list)].kind = "lift" /\ (Len(list) = 2 => list[1].kind = "up")
    /\ \A i \in 1 .. Len(list) : list[i].at = at

\* Moves and then a lift are the lines of a touch.
LEMMA TouchWrites ==
  ASSUME NEW T, NEW moving, Moving(moving, T), NEW at, NEW lifted, Lifts(lifted, at),
         NEW written, written = moving \o lifted
  PROVE  written \in Seq(LineRecord) /\ TouchLines(written, at) /\ written[1].kind = "track" /\ written # << >>
         /\ Positions(written) \subseteq T
<1>1. /\ moving \in Seq(LineRecord) /\ lifted \in Seq(LineRecord)
      /\ Len(moving) \in Nat /\ Len(moving) > 0 /\ moving[1].kind = "track"
      /\ \A i \in 1 .. Len(moving) : /\ moving[i].kind \in {"track", "down", "position"}
                                     /\ moving[i].kind = "position" => moving[i].to \in T
  BY DEF Moving, Lifts
<1>2. /\ written \in Seq(LineRecord) /\ Len(written) = Len(moving) + Len(lifted)
      /\ \A i \in 1 .. Len(moving) : written[i] = moving[i]
      /\ \A i \in 1 .. Len(lifted) : written[Len(moving) + i] = lifted[i]
  BY <1>1, Joined
<1>3. /\ Len(lifted) \in Nat
      /\ Len(lifted) = 1 \/ Len(lifted) = 2
      /\ lifted[Len(lifted)].kind = "lift" /\ (Len(lifted) = 2 => lifted[1].kind = "up")
      /\ \A i \in 1 .. Len(lifted) : lifted[i].at = at
  BY DEF Lifts
<1>4. ASSUME NEW i \in 1 .. Len(written)
      PROVE  LineFits(written, i, at) /\ (written[i].kind = "position" => written[i].to \in T)
  <2>1. CASE i <= Len(moving)
    BY <1>1, <1>2, <2>1, SMTT(30) DEF LineFits
  <2>2. CASE i = Len(written)
    <3>1. written[i].kind = "lift" /\ written[i].at = at
      <4>1. i = Len(moving) + Len(lifted) /\ Len(lifted) \in 1 .. Len(lifted)
        <5>1. Len(lifted) \in 1 .. Len(lifted)
          BY <1>3
        <5> QED
          BY <1>2, <2>2, <5>1
      <4> QED
        BY <1>2, <1>3, <4>1
    <3> QED
      BY <2>2, <3>1 DEF LineFits
  <2>3. CASE i > Len(moving) /\ i # Len(written)
    <3>1. Len(lifted) = 2 /\ i = Len(moving) + 1 /\ i = Len(written) - 1
      BY <1>1, <1>2, <1>3, <2>3, SMTT(30)
    <3>2. written[i].kind = "up" /\ written[i].at = at
      BY <1>1, <1>2, <1>3, <3>1
    <3> QED
      BY <3>1, <3>2 DEF LineFits
  <2> QED
    BY <1>1, <1>2, <2>1, <2>2, <2>3
<1>5. written[Len(written)].kind = "lift" /\ written[1].kind = "track" /\ written # << >>
  <2>a. Len(lifted) \in 1 .. Len(lifted)
    BY <1>3
  <2>b. written[1] = moving[1] /\ Len(written) > 0
    BY <1>1, <1>2, <1>3
  <2>1. written # << >> /\ written[1] = moving[1] /\ Len(lifted) \in 1 .. Len(lifted)
    BY <2>a, <2>b
  <2>2. written[Len(moving) + Len(lifted)] = lifted[Len(lifted)]
    BY <1>2, <2>1
  <2> QED
    BY <1>1, <1>2, <1>3, <2>1, <2>2
<1>6. DOMAIN written = 1 .. Len(written)
  BY <1>2
<1>7. TouchLines(written, at)
  BY <1>4, <1>5, <1>6 DEF TouchLines
<1>8. Positions(written) \subseteq T
  BY <1>4, <1>6 DEF Positions
<1> QED
  BY <1>2, <1>5, <1>7, <1>8

\* So are those a finger writes when it comes down, on any device.
LEMMA Writing ==
  ASSUME device \in Devices, NEW p \in Points, NEW a \in Nat, NEW T, p \in T
  PROVE  Moving(Pressed(a, p), T)
<1>1. device.axes \in SUBSET {"x", "y"}
  BY FlowAssumption
<1>2. PICK track, down, at : track = Line("track", a) /\ down = Line("down", a) /\ at = Position(p, device.axes, a)
  OBVIOUS
<1>3. /\ track \in LineRecord /\ track.kind = "track" /\ down \in LineRecord /\ down.kind = "down"
      /\ at \in LineRecord /\ at.kind = "position" /\ at.to = p
  <2>1. track \in LineRecord /\ track.kind = "track"
    BY <1>2, Lines
  <2>2. down \in LineRecord /\ down.kind = "down"
    BY <1>2, Lines
  <2>3. at \in LineRecord /\ at.kind = "position" /\ at.to = p
    BY <1>1, <1>2, PositionLine
  <2> QED
    BY <2>1, <2>2, <2>3
<1> DEFINE Used == {track, down, at}
           Maybe(c) == IF c THEN <<down>> ELSE << >>
<1>4. PICK first, middle : first = <<track>> /\ middle = <<at>>
  OBVIOUS
<1>5. first \in Seq(Used) /\ Len(first) = 1 /\ first[1] = track /\ middle \in Seq(Used)
  BY <1>4
<1>6. PICK early, late : early = Maybe(device.button = "early") /\ late = Maybe(device.button = "late")
  OBVIOUS
<1>7. early \in Seq(Used) /\ late \in Seq(Used)
  <2>1. <<down>> \in Seq(Used)
    OBVIOUS
  <2>2. << >> \in Seq(Used)
    OBVIOUS
  <2> HIDE DEF Used
  <2> QED
    BY <1>6, <2>1, <2>2
<1>8. Pressed(a, p) = first \o early \o middle \o late
  BY <1>2, <1>4, <1>6 DEF Pressed
<1> HIDE DEF Used, Maybe
<1>9. PICK begun, moved, all : begun = first \o early /\ moved = begun \o middle /\ all = moved \o late
  OBVIOUS
<1>10. begun \in Seq(Used) /\ Len(begun) > 0 /\ Len(begun) \in Nat /\ begun[1] = track
  <2>1. /\ begun \in Seq(Used) /\ Len(begun) = Len(first) + Len(early)
        /\ \A i \in 1 .. Len(first) : begun[i] = first[i]
    <3>1. first \in Seq(Used) /\ early \in Seq(Used) /\ begun = first \o early
      BY <1>5, <1>7, <1>9
    <3> QED
      BY <3>1, Joined
  <2> QED
    BY <1>5, <1>7, <2>1
<1>11. moved \in Seq(Used) /\ Len(moved) > 0 /\ Len(moved) \in Nat /\ moved[1] = track
  <2>1. /\ moved \in Seq(Used) /\ Len(moved) = Len(begun) + Len(middle)
        /\ \A i \in 1 .. Len(begun) : moved[i] = begun[i]
    <3>1. begun \in Seq(Used) /\ middle \in Seq(Used) /\ moved = begun \o middle
      BY <1>5, <1>9, <1>10
    <3> QED
      BY <3>1, Joined
  <2> QED
    BY <1>5, <1>10, <2>1
<1>12. all \in Seq(Used) /\ Len(all) > 0 /\ Len(all) \in Nat /\ all[1] = track
  <2>1. /\ all \in Seq(Used) /\ Len(all) = Len(moved) + Len(late)
        /\ \A i \in 1 .. Len(moved) : all[i] = moved[i]
    <3>1. moved \in Seq(Used) /\ late \in Seq(Used) /\ all = moved \o late
      BY <1>7, <1>9, <1>11
    <3> QED
      BY <3>1, Joined
  <2>2. Len(late) \in Nat
    BY <1>7
  <2>3. 1 \in 1 .. Len(moved)
    BY <1>11
  <2>4. all[1] = track
    BY <1>11, <2>1, <2>3
  <2>5. Len(all) > 0 /\ Len(all) \in Nat
    BY <1>11, <2>1, <2>2
  <2> QED
    BY <2>1, <2>4, <2>5
<1>13. /\ Used \subseteq LineRecord /\ track.kind = "track"
       /\ \A line \in Used : /\ line.kind \in {"track", "down", "position"}
                             /\ line.kind = "position" => line.to \in T
  BY <1>3 DEF Used
<1>14. all \in Seq(LineRecord)
  BY <1>12, <1>13
<1>15. Moving(all, T)
  BY <1>12, <1>13, <1>14 DEF Moving
<1> QED
  BY <1>8, <1>9, <1>15

LEMMA Lifting ==
  ASSUME NEW b \in Nat
  PROVE  Lifts(Lifted(b), b)
<1>1. PICK up, lift : up = Line("up", b) /\ lift = Line("lift", b)
  OBVIOUS
<1>2. /\ up \in LineRecord /\ up.kind = "up" /\ up.at = b
      /\ lift \in LineRecord /\ lift.kind = "lift" /\ lift.at = b
  BY <1>1, Lines
<1>3. PICK all : all = Lifted(b)
  OBVIOUS
<1>4. CASE device.button = "none"
  <2>1. all = << >> \o <<lift>>
    BY <1>1, <1>3, <1>4 DEF Lifted
  <2>2. all \in Seq(LineRecord) /\ Len(all) = 1 /\ all[1] = lift
    BY <1>2, <2>1
  <2> QED
    BY <1>2, <1>3, <2>2 DEF Lifts
<1>5. CASE device.button # "none"
  <2>1. all = <<up>> \o <<lift>>
    BY <1>1, <1>3, <1>5 DEF Lifted
  <2>2. all \in Seq(LineRecord) /\ Len(all) = 2 /\ all[1] = up /\ all[2] = lift
    BY <1>2, <2>1
  <2> QED
    BY <1>2, <1>3, <2>2 DEF Lifts
<1> QED
  BY <1>4, <1>5

\* The user taps, drags and presses a key.
LEMMA TapKeeps ==
  ASSUME IInv, NEW p \in Reachable, NEW gap \in Gaps, Tap(p, gap)
  PROVE  IInv'
<1>1. PICK at, pressed, lifted, written :
         /\ at = now + gap /\ pressed = Pressed(at, p) /\ lifted = Lifted(at)
         /\ written = pressed \o lifted
  OBVIOUS
<1>2. Act("tap", p, at, written)
  BY <1>1 DEF Tap
<1>3. at \in Nat /\ device \in Devices /\ p # NoPoint /\ p \in Points /\ p \in Nat /\ p <= device.axis
  BY <1>1, Types, FlowAssumption DEF IInv, CaptureTypes, Reachable
<1>4. OnTarget(p)'
  <2>1. \A new \in {did[Len(did)]'} : new.screen = screen /\ new.element = Hit(screen, OnScreen(p))
    BY <1>2, <1>3, Acted
  <2>2. device' = device
    BY <1>2 DEF Act
  <2> QED
    BY <1>3, <2>1, <2>2 DEF OnTarget, Places, OnScreen, Last
<1>5. Moving(pressed, {p}) /\ Lifts(lifted, at)
  <2>1. PICK T : T = {p}
    OBVIOUS
  <2>2. p \in T
    BY <2>1
  <2>3. Moving(pressed, T)
    BY <1>1, <1>3, <2>2, Writing
  <2>4. Lifts(lifted, at)
    BY <1>1, <1>3, Lifting
  <2> QED
    BY <2>1, <2>3, <2>4
<1>6. /\ written \in Seq(LineRecord) /\ TouchLines(written, at) /\ written[1].kind = "track"
      /\ written # << >>
      /\ Positions(written) \subseteq {p}
  <2>1. PICK T : T = {p}
    OBVIOUS
  <2> QED
    <3>1. Moving(pressed, T) /\ Lifts(lifted, at) /\ written = pressed \o lifted
      BY <1>1, <1>5, <2>1
    <3> QED
      BY <2>1, <3>1, TouchWrites
<1>7. \A q \in Positions(written) : OnTarget(q)'
  BY <1>4, <1>6
<1> QED
  BY <1>2, <1>3, <1>6, <1>7, ActKeeps DEF Touches

LEMMA DragKeeps ==
  ASSUME IInv, NEW p \in Reachable, NEW q \in Reachable, NEW duration \in Gaps,
         Drag(p, q, duration)
  PROVE  IInv'
<1>1. PICK at, pressed, move, moving, lifted, written :
         /\ at = now + duration /\ pressed = Pressed(now, p) /\ move = Position(q, {"x", "y"}, at)
         /\ moving = pressed \o <<move>> /\ lifted = Lifted(at) /\ written = moving \o lifted
  OBVIOUS
<1>2. Act("swipe", p, at, written)
  BY <1>1 DEF Drag
<1>3. /\ at \in Nat /\ now \in Nat /\ device \in Devices /\ p # NoPoint
      /\ \A r \in {p, q} : r \in Points /\ r \in Nat /\ r <= device.axis
  BY <1>1, Types, SMTT(30), FlowAssumption DEF IInv, CaptureTypes, Reachable
<1>4. \A r \in {p, q} : OnTarget(r)'
  <2>1. \A new \in {did[Len(did)]'} : new.kind = "swipe"
    BY <1>2, <1>3, Acted
  <2>2. device' = device
    BY <1>2 DEF Act
  <2> QED
    BY <1>3, <2>1, <2>2 DEF OnTarget, Places, Last
<1>5. Moving(pressed, {p, q}) /\ Lifts(lifted, at)
  <2>1. PICK T : T = {p, q}
    OBVIOUS
  <2>2. p \in T /\ p \in Points
    BY <1>3, <2>1
  <2>3. Moving(pressed, T)
    BY <1>1, <1>3, <2>2, Writing
  <2>4. Lifts(lifted, at)
    BY <1>1, <1>3, Lifting
  <2> QED
    BY <2>1, <2>3, <2>4
<1>6. move \in LineRecord /\ move.kind = "position" /\ move.to = q
  <2>1. PICK axes \in SUBSET {"x", "y"} : axes = {"x", "y"}
    OBVIOUS
  <2>2. move = Position(q, axes, at) /\ q \in Points
    BY <1>1, <1>3, <2>1
  <2> QED
    BY <1>3, <2>2, PositionLine
<1>7. Moving(moving, {p, q})
  <2>1. pressed \in Seq(LineRecord) /\ Len(pressed) \in Nat /\ Len(pressed) > 0
    BY <1>5 DEF Moving
  <2>2. /\ moving \in Seq(LineRecord) /\ Len(moving) = Len(pressed) + 1
        /\ \A i \in 1 .. Len(pressed) : moving[i] = pressed[i]
        /\ moving[Len(pressed) + 1] = move
    BY <1>1, <1>6, <2>1
  <2>3. \A i \in 1 .. Len(moving) : i \in 1 .. Len(pressed) \/ i = Len(pressed) + 1
    BY <2>1, <2>2
  <2> QED
    BY <1>5, <1>6, <2>1, <2>2, <2>3, SMTT(30) DEF Moving
<1>8. /\ written \in Seq(LineRecord) /\ TouchLines(written, at) /\ written[1].kind = "track"
      /\ written # << >> /\ Positions(written) \subseteq {p, q}
  <2>1. PICK T : T = {p, q}
    OBVIOUS
  <2>2. Moving(moving, T) /\ Lifts(lifted, at) /\ written = moving \o lifted
    BY <1>1, <1>5, <1>7, <2>1
  <2> QED
    BY <2>1, <2>2, TouchWrites
<1>9. \A r \in Positions(written) : OnTarget(r)'
  BY <1>4, <1>8
<1> QED
  BY <1>2, <1>3, <1>8, <1>9, ActKeeps DEF Touches

LEMMA PressKeeps ==
  ASSUME IInv, NEW kind \in {"home", "back"} \cup Keys, NEW gap \in Nat, Press(kind, gap)
  PROVE  IInv'
<1> DEFINE at == now + gap
           line == [Line("key", at) EXCEPT !.key = kind]
<1>1. Act(kind, NoPoint, at, <<line>>)
  BY DEF Press
<1>2. at \in Nat
  BY Types DEF IInv, CaptureTypes
<1> HIDE DEF at
<1>3. PICK l : l = Line("key", at)
  OBVIOUS
<1>a. l \in LineRecord /\ l.kind = "key" /\ l.at = at
  BY <1>2, <1>3, Lines
<1>b. line = [l EXCEPT !.key = kind]
  BY <1>3
<1> HIDE DEF line
<1>4. line \in LineRecord /\ line.kind = "key" /\ line.key = kind /\ line.at = at
  <2>1. line \in LineRecord
    BY <1>a, <1>b, ZenonT(30) DEF LineRecord
  <2> QED
    BY <1>a, <1>b, <2>1 DEF LineRecord
<1>5. PICK written : written = <<line>>
  OBVIOUS
<1>6. written \in Seq(LineRecord) /\ written # << >> /\ Len(written) = 1 /\ written[1] = line
  BY <1>4, <1>5
<1>7. kind \notin Touches
  BY DEF Touches, Keys
<1> QED
  BY <1>1, <1>2, <1>4, <1>5, <1>6, <1>7, ActKeeps

\* The app and the snapshot loop: nothing that was read or is still to be read changes.
LEMMA NothingRead ==
  ASSUME IInv, phase = "capture", phase' = "capture", CaptureTypes',
         UNCHANGED <<did, device, lines, touch, events, mapper, steps, warned, flow, unread>>
  PROVE  IInv'
<1>1. EventsInv /\ TouchInv
  BY DEF IInv, CaptureInv
<1>2. \A n, p : Places(n, p)' <=> Places(n, p)
  BY DEF Places, OnScreen
<1>3. EventsInv'
  BY <1>1, <1>2 DEF EventsInv, Rising, Logged, Last, EventFits, Truly, IsTouch
<1>4. \A p : OnTarget(p)' <=> OnTarget(p)
  BY <1>2 DEF OnTarget, Last
<1>5. TouchInv'
  BY <1>1, <1>4 DEF TouchInv, Last, IsTouch, KeyPressed, KeyLine, Emitted, TouchOver, TouchUnderWay, Logged
<1> QED
  BY <1>3, <1>5, StillRecording

LEMMA ScreenChangesKeeps ==
  ASSUME IInv, ScreenChanges
  PROVE  IInv'
<1>1. /\ phase = "capture" /\ phase' = "capture" /\ screen' \in Screens
      /\ UNCHANGED <<did, device, now, shots, lines, touch, events, mapper, steps, warned, flow, unread>>
  BY DEF ScreenChanges
<1>2. CaptureTypes'
  BY <1>1, Types DEF IInv, CaptureTypes
<1> QED
  BY <1>1, <1>2, NothingRead

LEMMA NameSnapshotKeeps ==
  ASSUME IInv, NameSnapshot
  PROVE  IInv'
<1>1. /\ phase = "capture" /\ phase' = "capture" /\ now' = now + 1
      /\ shots' = Append(shots, [at |-> now', screen |-> NoScreen])
      /\ UNCHANGED <<did, device, screen, lines, touch, events, mapper, steps, warned, flow, unread>>
  BY DEF NameSnapshot
<1>2. CaptureTypes
  BY Types DEF IInv
<1>3. now' \in Nat /\ shots' \in Seq(Shot)
  BY <1>1, <1>2 DEF CaptureTypes, Shot
<1>4. CaptureTypes'
  BY <1>1, <1>2, <1>3 DEF CaptureTypes
<1> QED
  BY <1>1, <1>4, NothingRead

LEMMA DumpSnapshotKeeps ==
  ASSUME IInv, DumpSnapshot
  PROVE  IInv'
<1>1. /\ phase = "capture" /\ phase' = "capture" /\ shots # << >>
      /\ shots' = [shots EXCEPT ![Len(shots)].screen = screen]
      /\ UNCHANGED <<did, device, now, screen, lines, touch, events, mapper, steps, warned, flow, unread>>
  BY DEF DumpSnapshot
<1>2. CaptureTypes
  BY Types DEF IInv
<1>3. shots' \in Seq(Shot)
  <2>1. shots \in Seq(Shot) /\ Len(shots) \in 1 .. Len(shots) /\ screen \in Screens
    BY <1>1, <1>2 DEF CaptureTypes
  <2>2. PICK shot : shot = [shots[Len(shots)] EXCEPT !.screen = screen]
    OBVIOUS
  <2>3. shot \in Shot
    <3>1. shots[Len(shots)] \in Shot
      BY <2>1
    <3> QED
      BY <2>1, <2>2, <3>1, ZenonT(30) DEF Shot
  <2>4. shots' = [shots EXCEPT ![Len(shots)] = shot]
    BY <1>1, <2>2
  <2> QED
    BY <2>1, <2>3, <2>4
<1>4. CaptureTypes'
  BY <1>1, <1>2, <1>3 DEF CaptureTypes
<1> QED
  BY <1>1, <1>4, NothingRead

-----------------------------------------------------------------------------
(* The parser.                                                                *)
\* What a line does to the parser's touch.
LEMMA MovedTouch ==
  ASSUME NEW t \in TouchRecord, NEW line \in LineRecord, NEW moved, moved = Moved(t, line)
  PROVE  moved \in TouchRecord /\ (moved.active <=> t.active) /\ Known(moved) \subseteq Known(t) \cup {line.to}
<1>1. PICK x, y : /\ x = (IF "x" \in line.axes THEN line.to ELSE t.current)
                  /\ y = (t.y \/ "y" \in line.axes)
  OBVIOUS
<1>2. /\ x \in Points \cup {NoPoint} /\ x \in {line.to, t.current} /\ t.samples \in Nat
      /\ t.start \in Points \cup {NoPoint}
  BY <1>1 DEF LineRecord, TouchRecord
<1>3. y \in BOOLEAN
  <2>1. t.y \in BOOLEAN
    BY Zenon DEF TouchRecord
  <2> QED
    BY <1>1, <2>1
<1>4. PICK start, samples :
         /\ start = (IF t.start = NoPoint THEN x ELSE t.start)
         /\ samples = t.samples + (IF line.axes = {"x", "y"} THEN 2 ELSE 1)
  OBVIOUS
<1>5. start \in Points \cup {NoPoint} /\ start \in {t.start, x} /\ samples \in Nat
  BY <1>2, <1>4
<1>6. moved = IF ~t.active THEN [t EXCEPT !.current = x, !.y = y]
              ELSE [t EXCEPT !.current = x, !.y = y, !.start = start, !.samples = samples]
  <2>1. moved = IF ~t.active THEN [t EXCEPT !.current = x, !.y = y]
                ELSE [t EXCEPT !.current = x, !.y = y,
                               !.start = IF @ = NoPoint THEN x ELSE @,
                               !.samples = @ + (IF line.axes = {"x", "y"} THEN 2 ELSE 1)]
    BY <1>1 DEF Moved
  <2> QED
    BY <1>4, <2>1, Zenon DEF TouchRecord
<1>7. CASE ~t.active
  <2>1. moved = [t EXCEPT !.current = x, !.y = y]
    BY <1>6, <1>7
  <2>2. moved \in TouchRecord
    BY <1>2, <1>3, <2>1, ZenonT(30) DEF TouchRecord
  <2>3. moved.current = x /\ moved.start = t.start
    BY <2>1, Zenon DEF TouchRecord
  <2>4. moved.active <=> t.active
    BY <2>1, Zenon DEF TouchRecord
  <2> QED
    BY <1>2, <2>2, <2>3, <2>4 DEF Known
<1>8. CASE t.active
  <2>1. moved = [t EXCEPT !.current = x, !.y = y, !.start = start, !.samples = samples]
    BY <1>6, <1>8
  <2>2. moved \in TouchRecord
    BY <1>2, <1>3, <1>5, <2>1, ZenonT(60) DEF TouchRecord
  <2>3. moved.current = x /\ moved.start = start
    BY <2>1, Zenon DEF TouchRecord
  <2>4. moved.active <=> t.active
    BY <2>1, Zenon DEF TouchRecord
  <2> QED
    BY <1>2, <1>5, <2>2, <2>3, <2>4 DEF Known
<1> QED
  BY <1>7, <1>8

LEMMA BeganTouch ==
  ASSUME NEW t \in TouchRecord, NEW at \in Nat, NEW began, began = Began(t, at)
  PROVE  began \in TouchRecord /\ began.active /\ Known(began) = {}
<1>1. began = [active |-> TRUE, start |-> NoPoint, at |-> at, samples |-> 0, current |-> NoPoint, y |-> FALSE]
  BY DEF Began, NoTouch
<1>2. began.active
  BY <1>1
<1>3. began \in TouchRecord /\ began.current = NoPoint /\ began.start = NoPoint
  BY <1>1 DEF TouchRecord
<1> QED
  BY <1>2, <1>3 DEF Known

LEMMA EndedTouch ==
  ASSUME NEW t \in TouchRecord, NEW over, over = [NoTouch EXCEPT !.current = t.current, !.y = t.y]
  PROVE  over \in TouchRecord /\ ~over.active
<1>1. NoTouch \in TouchRecord /\ ~NoTouch.active
  BY DEF NoTouch, TouchRecord
<1>2. t.current \in Points \cup {NoPoint} /\ t.y \in BOOLEAN
  BY Zenon DEF TouchRecord
<1>3. over \in TouchRecord
  BY <1>1, <1>2, ZenonT(30) DEF TouchRecord
<1>4. ~over.active
  BY <1>1, Zenon DEF TouchRecord
<1> QED
  BY <1>3, <1>4

\* An event stems from the last action.
LEMMA ReadEvent ==
  ASSUME CaptureTypes, Last > 0, NEW kind \in EventKind, NEW at \in Nat,
         NEW e, e = Event(kind, at)
  PROVE  e \in ParsedEvent /\ e.kind = kind /\ e.at = at /\ e.by = Last /\ e.pos = NoPoint /\ e.reach = 0
<1>1. Last \in 1 .. MaxActions
  BY FlowAssumption DEF CaptureTypes, Last
<1>2. e = [kind |-> kind, at |-> at, pos |-> NoPoint, reach |-> 0, key |-> "other", seen |-> NoScreen, by |-> Last]
  BY DEF Event, Last
<1> QED
  BY <1>1, <1>2 DEF ParsedEvent, Keys

\* The positions of a touch, and 0, have a largest.
LEMMA Reaches ==
  ASSUME NEW t \in TouchRecord, NEW S \in SUBSET Known(t), NEW R, R = S \cup {0}
  PROVE  Max(R) \in R /\ Max(R) \in Nat
<1>1. t.start \in Nat \cup {NoPoint} /\ t.current \in Nat \cup {NoPoint}
  BY FlowAssumption DEF TouchRecord
<1>2. PICK n \in Nat : Known(t) \subseteq 0 .. n
  <2>1. CASE t.start = NoPoint
    <3>1. CASE t.current = NoPoint
      BY <2>1, <3>1 DEF Known
    <3>2. CASE t.current \in Nat
      <4>1. Known(t) \subseteq 0 .. t.current
        BY <2>1, <3>2 DEF Known
      <4> QED
        BY <3>2, <4>1
    <3> QED
      BY <1>1, <3>1, <3>2
  <2>2. CASE t.start \in Nat
    <3>1. CASE t.current = NoPoint
      <4>1. Known(t) \subseteq 0 .. t.start
        BY <2>2, <3>1 DEF Known
      <4> QED
        BY <2>2, <4>1
    <3>2. CASE t.current \in Nat
      <4>1. Known(t) \subseteq 0 .. (t.start + t.current) /\ t.start + t.current \in Nat
        BY <2>2, <3>2 DEF Known
      <4> QED
        BY <4>1
    <3> QED
      BY <1>1, <3>1, <3>2
  <2> QED
    BY <1>1, <2>1, <2>2
<1>3. R \in SUBSET (0 .. n) /\ R # {}
  BY <1>2
<1>4. Max(R) \in R
  BY <1>2, <1>3, MaxOfPositions
<1> QED
  <2>1. PICK m : m = Max(R)
    OBVIOUS
  <2>2. m \in 0 .. n
    BY <1>3, <1>4, <2>1
  <2>3. m \in Nat
    BY <2>2
  <2> QED
    BY <1>4, <2>1, <2>3

\* The event of a touch is placed and reaches where the touch was.
LEMMA TouchedEvent ==
  ASSUME CaptureTypes, Last > 0, NEW t \in TouchRecord,
         NEW kind \in {"tap", "swipe"}, NEW at \in Nat, NEW e, e = Touched(t, kind, at)
  PROVE  /\ e \in ParsedEvent /\ e.kind = kind /\ e.at = at /\ e.by = Last
         /\ e.pos # NoPoint => e.pos \in Known(t)
         /\ e.reach \in Known(t) \cup {0}
<1>1. PICK a : a = Event(kind, at)
  OBVIOUS
<1>2. a \in ParsedEvent /\ a.kind = kind /\ a.at = at /\ a.by = Last
  BY <1>1, ReadEvent DEF EventKind
<1>3. PICK S : S = (IF t.y THEN {t.start, t.current} ELSE {t.current}) \ {NoPoint}
  OBVIOUS
<1>4. S \in SUBSET Known(t)
  BY <1>3 DEF Known
<1>5. PICK pos, reach : /\ pos = (CASE ~t.y -> NoPoint [] kind = "swipe" -> t.start [] OTHER -> t.current)
                        /\ reach = Max(S \cup {0})
  OBVIOUS
<1>6. reach \in Known(t) \cup {0} /\ reach \in Nat
  <2>1. PICK R : R = S \cup {0}
    OBVIOUS
  <2>2. Max(R) \in R /\ Max(R) \in Nat
    BY <1>4, <2>1, Reaches
  <2> QED
    BY <1>4, <1>5, <2>1, <2>2
<1>7. pos \in {NoPoint, t.start, t.current}
  <2>1. CASE ~t.y
    BY <1>5, <2>1
  <2>2. CASE t.y /\ kind = "swipe"
    BY <1>5, <2>2
  <2>3. CASE t.y /\ kind # "swipe"
    BY <1>5, <2>3
  <2> QED
    BY <2>1, <2>2, <2>3
<1>8. pos \in Nat \cup {NoPoint} /\ (pos # NoPoint => pos \in Known(t))
  BY <1>7, FlowAssumption DEF TouchRecord, Known
<1>9. e = [a EXCEPT !.pos = pos, !.reach = reach]
  BY <1>1, <1>3, <1>5 DEF Touched
<1>10. e \in ParsedEvent
  BY <1>2, <1>6, <1>8, <1>9, ZenonT(30) DEF ParsedEvent
<1>11. e.kind = kind /\ e.at = at /\ e.by = Last /\ e.pos = pos /\ e.reach = reach
  BY <1>2, <1>9 DEF ParsedEvent
<1> QED
  BY <1>6, <1>8, <1>10, <1>11

LEMMA FinalizedTouch ==
  ASSUME CaptureTypes, Last > 0, NEW t \in TouchRecord, t.active,
         NEW line \in LineRecord
  PROVE  \E e \in ParsedEvent : /\ Finalized(t, line) = <<e>>
                                /\ e.kind \in {"tap", "swipe"} /\ e.at = line.at /\ e.by = Last
                                /\ e.pos # NoPoint => e.pos \in Known(t)
                                /\ e.reach \in Known(t) \cup {0}
<1>1. PICK kind \in {"tap", "swipe"} : kind = IF IsSwipe(t, line.at) THEN "swipe" ELSE "tap"
  OBVIOUS
<1>2. PICK e : e = Touched(t, kind, line.at)
  OBVIOUS
<1>3. Finalized(t, line) = <<e>>
  BY <1>1, <1>2 DEF Finalized
<1>4. line.at \in Nat
  BY DEF LineRecord
<1>5. /\ e \in ParsedEvent /\ e.kind = kind /\ e.at = line.at /\ e.by = Last
      /\ e.pos # NoPoint => e.pos \in Known(t)
      /\ e.reach \in Known(t) \cup {0}
  BY <1>2, <1>4, TouchedEvent
<1> QED
  BY <1>1, <1>3, <1>5

\* The event of the last action is read.
LEMMA EventRead ==
  ASSUME CaptureTypes, EventsInv, ~Emitted, Last > 0, UNCHANGED <<did, device>>,
         NEW e \in ParsedEvent, EventFits(e), Truly(e), e.by = Last, events' = events \o <<e>>
  PROVE  events' \in Seq(ParsedEvent) /\ EventsInv' /\ Emitted' /\ Logged(Last)'
<1>1. /\ events \in Seq(ParsedEvent) /\ Len(events) \in Nat /\ DOMAIN events = 1 .. Len(events)
      /\ Last \in Nat
  BY DEF CaptureTypes, Last
<1>2. /\ events' \in Seq(ParsedEvent) /\ Len(events') = Len(events) + 1 /\ events'[Len(events) + 1] = e
      /\ \A i \in 1 .. Len(events) : events'[i] = events[i]
  BY <1>1
<1>3. DOMAIN events' = 1 .. Len(events) + 1
  BY <1>2
<1>4. \A i \in 1 .. Len(events) : EventFits(events[i]) /\ events[i].by < Last
  <2>1. \A i \in 1 .. Len(events) : EventFits(events[i]) /\ events[i].by # Last /\ events[i].by \in 1 .. Last
    BY <1>1 DEF EventsInv, Emitted, EventFits, Last
  <2> QED
    BY <1>1, <2>1
<1>a. \A i \in 1 .. Len(events) : Truly(events[i])
  BY <1>1 DEF EventsInv
<1>5. \A i \in 1 .. Len(events) + 1 : EventFits(events'[i]) /\ Truly(events'[i])
  BY <1>1, <1>2, <1>4, <1>a
<1>6. ASSUME NEW i \in DOMAIN events' PROVE EventFits(events[i])' /\ Truly(events[i])'
  <2>1. EventFits(events'[i]) /\ Truly(events'[i])
    BY <1>3, <1>5
  <2>2. EventFits(events[i])'
    BY <2>1 DEF EventFits, IsTouch
  <2>3. Truly(events[i])'
    BY <2>1 DEF Truly, Places, OnScreen
  <2> QED
    BY <2>2, <2>3
<1>7. Rising(events)'
  <2>1. ASSUME NEW i \in 1 .. Len(events) + 1, NEW j \in 1 .. Len(events) + 1, i < j
        PROVE  events'[i].by < events'[j].by
    <3>1. i \in 1 .. Len(events)
      BY <1>1, <2>1
    <3>2. CASE j \in 1 .. Len(events)
      BY <1>1, <1>2, <2>1, <3>1, <3>2 DEF EventsInv, Rising
    <3>3. CASE j = Len(events) + 1
      BY <1>2, <1>4, <3>1, <3>3
    <3> QED
      BY <1>1, <3>2, <3>3
  <2> QED
    BY <1>3, <2>1 DEF Rising
<1>8. \A n : Logged(n) => Logged(n)'
  BY <1>1, <1>2, <1>3 DEF Logged
<1>9. Len(events) + 1 \in DOMAIN events'
  BY <1>1, <1>3
<1>10. Emitted' /\ Logged(Last)'
  BY <1>2, <1>9 DEF Emitted, Logged, Last
<1>11. \A n \in 1 .. Last' - 1 : Logged(n)'
  BY <1>8 DEF EventsInv, Last
<1> QED
  BY <1>2, <1>6, <1>7, <1>10, <1>11 DEF EventsInv

\* The next line; NoEvent: one that ends nothing.
LEMMA NextLine ==
  ASSUME CaptureTypes, lines # << >>, NEW rest, rest = Tail(lines)
  PROVE  /\ Head(lines) = lines[1] /\ lines[1] \in LineRecord
         /\ rest \in Seq(LineRecord) /\ Len(rest) = Len(lines) - 1 /\ Len(lines) \in Nat /\ Len(lines) > 0
         /\ \A i \in 1 .. Len(rest) : i + 1 \in 1 .. Len(lines) /\ rest[i] = lines[i + 1]
<1>1. lines \in Seq(LineRecord)
  BY DEF CaptureTypes
<1> QED
  BY <1>1

LEMMA NoEvent ==
  ASSUME EventsInv, NEW new, events \in Seq(ParsedEvent), new = << >>, events' = events \o new,
         UNCHANGED <<did, device>>
  PROVE  events' = events /\ EventsInv' /\ (Emitted' <=> Emitted)
<1>1. events' = events
  OBVIOUS
<1>2. \A n, p : Places(n, p)' <=> Places(n, p)
  BY DEF Places, OnScreen
<1> QED
  BY <1>1, <1>2 DEF EventsInv, Emitted, Last, Rising, EventFits, Truly, IsTouch, Logged

\* parseRawInputEvents reads a line: of a key, of a touch that is over, of one under way.
LEMMA KeyLineKeeps ==
  ASSUME IInv, ParseLine, ~IsTouch(Last)
  PROVE  IInv'
<1>1. /\ phase = "capture" /\ phase' = "capture" /\ lines # << >> /\ lines' = Tail(lines)
      /\ UNCHANGED <<did, device, now, screen, shots, mapper, steps, warned, flow, unread>>
  BY DEF ParseLine
<1>2. CaptureTypes /\ EventsInv /\ TouchInv
  BY <1>1, Types DEF IInv, CaptureInv
<1>3. Last > 0 /\ KeyPressed /\ Last \in Nat /\ did[Last] \in Action
  <2>1. Last > 0 /\ KeyPressed
    BY <1>1, <1>2 DEF TouchInv
  <2> QED
    BY <1>2, <2>1 DEF CaptureTypes, Last
<1>4. PICK line \in LineRecord : line = Head(lines) /\ line = lines[1]
  BY <1>1, <1>2, NextLine
<1>5. ~touch.active /\ Len(lines) = 1 /\ line.kind = "key" /\ line.key = did[Last].kind /\ ~Emitted
      /\ line.at = did[Last].at
  BY <1>1, <1>3, <1>4 DEF KeyPressed, KeyLine
<1>6. lines' = << >>
  <2>1. lines \in Seq(LineRecord)
    BY <1>2 DEF CaptureTypes
  <2>2. PICK rest : rest = Tail(lines)
    OBVIOUS
  <2>3. rest \in Seq(LineRecord) /\ Len(rest) = Len(lines) - 1
    BY <1>1, <1>2, <2>2, NextLine
  <2>4. Len(rest) = 0
    BY <1>5, <2>3
  <2>5. rest = << >>
    BY <2>3, <2>4
  <2> QED
    BY <1>1, <2>2, <2>5
<1>7. touch' = touch /\ events' = events \o KeyEvents(line)
  BY <1>4, <1>5 DEF ParseLine
<1>8. line.at \in Nat /\ events \in Seq(ParsedEvent) /\ did[Last].kind \notin Touches
  BY <1>2, <1>3 DEF LineRecord, CaptureTypes, IsTouch
<1>9. events' \in Seq(ParsedEvent) /\ EventsInv' /\ Logged(Last)'
  <2>1. CASE line.key = "other"
    <3>1. KeyEvents(line) = << >>
      BY <2>1 DEF KeyEvents
    <3>2. EventsInv' /\ events' = events
      BY <1>1, <1>2, <1>7, <1>8, <3>1, NoEvent
    <3> QED
      BY <1>1, <1>5, <1>8, <2>1, <3>2 DEF Logged, Last
  <2>2. ASSUME NEW e \in ParsedEvent, KeyEvents(line) = <<e>>, e.kind \notin Touches, e.at = line.at,
               e.by = Last, e.pos = NoPoint, e.reach = 0,
               e.kind = "type" => e.key = line.key, line.key # "other"
        PROVE  events' \in Seq(ParsedEvent) /\ EventsInv' /\ Logged(Last)'
    <3>1. EventFits(e)
      BY <1>2, <1>3, <1>5, <1>8, <2>2, SMTT(30) DEF EventFits, IsTouch, Touches, Last, CaptureTypes
    <3>2. Truly(e)
      <4>1. device.axis \in Nat
        BY <1>2, FlowAssumption DEF CaptureTypes
      <4> QED
        BY <1>5, <2>2, <4>1 DEF Truly
    <3> QED
      BY <1>1, <1>2, <1>3, <1>5, <1>7, <2>2, <3>1, <3>2, EventRead
  <2>3. CASE line.key \in Keys /\ line.key # "other"
    <3>1. PICK a : a = Event("type", line.at)
      OBVIOUS
    <3>2. a \in ParsedEvent /\ a.kind = "type" /\ a.at = line.at /\ a.by = Last /\ a.pos = NoPoint /\ a.reach = 0
      <4>1. PICK kind \in EventKind : kind = "type"
        BY DEF EventKind
      <4>2. a = Event(kind, line.at)
        BY <3>1, <4>1
      <4>3. /\ a \in ParsedEvent /\ a.kind = kind /\ a.at = line.at /\ a.by = Last
            /\ a.pos = NoPoint /\ a.reach = 0
        BY <1>2, <1>3, <1>8, <4>2, ReadEvent
      <4> QED
        BY <4>1, <4>3
    <3>3. PICK e : e = [a EXCEPT !.key = line.key]
      OBVIOUS
    <3>4. e \in ParsedEvent
      BY <2>3, <3>2, <3>3, ZenonT(30) DEF ParsedEvent
    <3>5. e.kind = "type" /\ e.at = line.at /\ e.by = Last /\ e.key = line.key /\ e.pos = NoPoint /\ e.reach = 0
      BY <3>2, <3>3 DEF ParsedEvent
    <3>6. KeyEvents(line) = <<e>>
      BY <2>3, <3>1, <3>3 DEF KeyEvents
    <3> QED
      BY <2>2, <2>3, <3>4, <3>5, <3>6 DEF Touches
  <2>4. CASE line.key \notin Keys
    <3>1. PICK e : e = Event(line.key, line.at)
      OBVIOUS
    <3>2. line.key \in {"home", "back"}
      BY <2>4 DEF LineRecord
    <3>3. e \in ParsedEvent /\ e.kind = line.key /\ e.at = line.at /\ e.by = Last /\ e.pos = NoPoint /\ e.reach = 0
      <4>1. line.key \in EventKind
        BY <3>2 DEF EventKind
      <4> QED
        BY <1>2, <1>3, <1>8, <3>1, <4>1, ReadEvent
    <3>4. KeyEvents(line) = <<e>> /\ line.key # "other"
      BY <2>4, <3>1 DEF KeyEvents, Keys
    <3> QED
      BY <2>2, <3>2, <3>3, <3>4 DEF Touches
  <2> QED
    BY <2>1, <2>3, <2>4
<1>10. CaptureTypes'
  BY <1>1, <1>2, <1>6, <1>7, <1>9 DEF CaptureTypes
<1>11. TouchInv'
  BY <1>1, <1>3, <1>5, <1>6, <1>7, <1>9 DEF TouchInv, KeyPressed, IsTouch, Last
<1> QED
  BY <1>1, <1>2, <1>9, <1>10, <1>11, StillRecording

LEMMA OverLineKeeps ==
  ASSUME IInv, ParseLine, IsTouch(Last), Emitted
  PROVE  IInv'
<1>1. /\ phase = "capture" /\ phase' = "capture" /\ lines # << >> /\ lines' = Tail(lines)
      /\ UNCHANGED <<did, device, now, screen, shots, mapper, steps, warned, flow, unread>>
  BY DEF ParseLine
<1>2. CaptureTypes /\ EventsInv /\ TouchInv
  BY <1>1, Types DEF IInv, CaptureInv
<1>3. Last > 0 /\ TouchOver
  BY <1>1, <1>2 DEF TouchInv
<1>4. PICK line \in LineRecord : line = Head(lines) /\ line = lines[1]
  BY <1>1, <1>2, NextLine
<1>5. ~touch.active /\ Len(lines) = 1 /\ line.kind = "lift"
  BY <1>1, <1>3, <1>4 DEF TouchOver
<1>6. lines' = << >>
  <2>1. lines \in Seq(LineRecord)
    BY <1>2 DEF CaptureTypes
  <2>2. PICK rest : rest = Tail(lines)
    OBVIOUS
  <2>3. rest \in Seq(LineRecord) /\ Len(rest) = Len(lines) - 1
    BY <1>1, <1>2, <2>2, NextLine
  <2>4. Len(rest) = 0
    BY <1>5, <2>3
  <2>5. rest = << >>
    BY <2>3, <2>4
  <2> QED
    BY <1>1, <2>2, <2>5
<1>7. touch' = touch /\ events' = events \o Finalized(touch, line)
  BY <1>4, <1>5 DEF ParseLine
<1>8. EventsInv' /\ events' = events /\ Emitted'
  <2>1. Finalized(touch, line) = << >> /\ events \in Seq(ParsedEvent)
    BY <1>2, <1>5 DEF Finalized, CaptureTypes
  <2> QED
    BY <1>1, <1>2, <1>7, <2>1, NoEvent
<1>9. CaptureTypes'
  BY <1>1, <1>2, <1>6, <1>7, <1>8 DEF CaptureTypes
<1>10. TouchInv'
  BY <1>1, <1>3, <1>5, <1>6, <1>7, <1>8 DEF TouchInv, TouchOver, IsTouch, Last
<1> QED
  BY <1>1, <1>2, <1>8, <1>9, <1>10, StillRecording

LEMMA TouchLineKeeps ==
  ASSUME IInv, ParseLine, IsTouch(Last), ~Emitted
  PROVE  IInv'
<1>1. /\ phase = "capture" /\ phase' = "capture" /\ lines # << >> /\ lines' = Tail(lines)
      /\ UNCHANGED <<did, device, now, screen, shots, mapper, steps, warned, flow, unread>>
  BY DEF ParseLine
<1>2. CaptureTypes /\ EventsInv /\ TouchInv
  BY <1>1, Types DEF IInv, CaptureInv
<1>3. Last > 0 /\ TouchUnderWay
  BY <1>1, <1>2 DEF TouchInv
<1>4. PICK line \in LineRecord : line = Head(lines) /\ line = lines[1]
  BY <1>1, <1>2, NextLine
<1>5. /\ lines' \in Seq(LineRecord) /\ Len(lines') = Len(lines) - 1 /\ Len(lines) \in Nat
      /\ Len(lines) > 0
      /\ \A i \in 1 .. Len(lines') : i + 1 \in 1 .. Len(lines) /\ lines'[i] = lines[i + 1]
  BY <1>1, <1>2, NextLine
<1>6. /\ lines[Len(lines)].kind = "lift"
      /\ touch.active \/ line.kind = "track"
      /\ \A i \in 1 .. Len(lines) : LineFits(lines, i, did[Last].at)
      /\ \A p \in Positions(lines) : OnTarget(p)
      /\ touch.active => \A p \in Known(touch) : OnTarget(p)
      /\ touch \in TouchRecord /\ events \in Seq(ParsedEvent) /\ line.at \in Nat
  <2>1. /\ lines \in Seq(LineRecord) /\ touch \in TouchRecord /\ events \in Seq(ParsedEvent)
        /\ line.at \in Nat
    BY <1>2 DEF CaptureTypes, LineRecord
  <2> QED
    BY <1>3, <1>4, <2>1 DEF TouchUnderWay, TouchLines
<1>7. CASE line.kind \in {"up", "lift"}
  <2>1. touch.active
    BY <1>6, <1>7
  <2>2. touch' = [NoTouch EXCEPT !.current = touch.current, !.y = touch.y] /\ events' = events \o Finalized(touch, line)
    BY <1>4, <1>7, <2>1 DEF ParseLine
  <2>3. touch' \in TouchRecord /\ ~touch'.active
    BY <1>6, <2>2, EndedTouch
  <2>4. PICK e \in ParsedEvent : /\ Finalized(touch, line) = <<e>>
                                 /\ e.kind \in {"tap", "swipe"} /\ e.at = line.at /\ e.by = Last
                                 /\ e.pos # NoPoint => e.pos \in Known(touch)
                                 /\ e.reach \in Known(touch) \cup {0}
    BY <1>2, <1>3, <1>6, <2>1, FinalizedTouch
  <2>5. EventFits(e)
    <3>1. e.kind \in Touches /\ e.kind # "type" /\ did[Last].kind # "other"
      BY <2>4 DEF Touches, IsTouch
    <3>2. e.by \in 1 .. Len(did)
      BY <1>2, <1>3, <2>4 DEF Last, CaptureTypes
    <3> QED
      BY <2>4, <3>1, <3>2 DEF EventFits
  <2>a. Truly(e)
    <3>1. e.at = did[e.by].at
      <4>1. LineFits(lines, 1, did[Last].at)
        BY <1>5, <1>6
      <4> QED
        BY <1>4, <1>7, <2>4, <4>1 DEF LineFits
    <3>2. \A p \in Known(touch) : Places(Last, p)
      BY <1>6, <2>1 DEF OnTarget
    <3>3. e.reach \in Nat /\ e.reach <= device.axis
      <4>1. device.axis \in Nat
        BY <1>2, FlowAssumption DEF CaptureTypes
      <4> QED
        BY <2>4, <3>2, <4>1 DEF Places
    <3> QED
      BY <2>4, <3>1, <3>2, <3>3 DEF Truly
  <2>6. events' \in Seq(ParsedEvent) /\ EventsInv' /\ Emitted'
    BY <1>1, <1>2, <1>3, <2>2, <2>4, <2>5, <2>a, EventRead
  <2>7. lines' # << >> => Len(lines') = 1 /\ lines'[1].kind = "lift"
    <3>1. LineFits(lines, 1, did[Last].at) /\ 1 \in 1 .. Len(lines)
      BY <1>5, <1>6
    <3>2. line.kind = "lift" => Len(lines) = 1
      BY <1>4, <1>5, <3>1 DEF LineFits
    <3>3. line.kind = "up" => Len(lines) = 2
      <4>1. line.kind = "up" => 1 = Len(lines) - 1
        BY <1>4, <3>1 DEF LineFits
      <4>2. Len(lines) \in Nat
        BY <1>5
      <4> QED
        BY <4>1, <4>2
    <3>4. CASE Len(lines) = 1
      BY <1>5, <3>4
    <3>5. CASE Len(lines) = 2
      BY <1>5, <1>6, <3>5
    <3> QED
      BY <1>7, <3>2, <3>3, <3>4, <3>5
  <2>8. CaptureTypes'
    BY <1>1, <1>2, <1>5, <2>3, <2>6 DEF CaptureTypes
  <2>9. TouchInv'
    BY <1>1, <1>3, <2>3, <2>6, <2>7 DEF TouchInv, TouchOver, IsTouch, Last
  <2> QED
    BY <1>1, <1>2, <2>6, <2>8, <2>9, StillRecording
<1>8. CASE line.kind \notin {"up", "lift"}
  <2>1. line.kind # "key" /\ Len(lines) # 1
    <3>1. LineFits(lines, 1, did[Last].at)
      BY <1>5, <1>6
    <3> QED
      BY <1>4, <1>5, <1>6, <1>8, <3>1 DEF LineFits
  <2>2. line.kind = "track" \/ line.kind = "down" \/ line.kind = "position"
    BY <1>8, <2>1 DEF LineRecord
  <2>3. events' = events \o << >>
    BY <1>4, <1>8, <2>1 DEF ParseLine
  <2>4. EventsInv' /\ events' = events /\ (Emitted' <=> Emitted)
    <3>1. PICK none : none = << >> /\ events' = events \o none
      BY <2>3
    <3> QED
      BY <1>1, <1>2, <1>6, <3>1, NoEvent
  <2>5. touch' \in TouchRecord /\ touch'.active /\ \A p \in Known(touch') : OnTarget(p)
    <3>1. CASE line.kind = "position"
      <4>1. touch' = Moved(touch, line)
        BY <1>4, <3>1 DEF ParseLine
      <4>2. /\ touch' \in TouchRecord /\ (touch'.active <=> touch.active)
            /\ Known(touch') \subseteq Known(touch) \cup {line.to}
        BY <1>6, <4>1, MovedTouch
      <4>3. line.to \in Positions(lines)
        <5>1. 1 \in DOMAIN lines /\ lines[1] = line
          <6>1. lines \in Seq(LineRecord)
            BY <1>2 DEF CaptureTypes
          <6> QED
            BY <1>4, <1>5, <6>1
        <5>2. 1 \in {n \in DOMAIN lines : lines[n].kind = "position"}
          BY <3>1, <5>1
        <5>3. lines[1].to \in Positions(lines)
          BY <5>2 DEF Positions
        <5> QED
          BY <5>1, <5>3
      <4> QED
        BY <1>6, <3>1, <4>2, <4>3
    <3>2. CASE line.kind = "track"
      <4>1. touch' = IF touch.active THEN touch ELSE Began(touch, line.at)
        BY <1>4, <3>2 DEF ParseLine
      <4>2. CASE touch.active
        BY <1>6, <4>1, <4>2
      <4>3. CASE ~touch.active
        <5>1. touch' \in TouchRecord /\ touch'.active /\ Known(touch') = {}
          BY <1>6, <4>1, <4>3, BeganTouch
        <5> QED
          BY <5>1
      <4> QED
        BY <4>2, <4>3
    <3>3. CASE line.kind = "down"
      <4>1. touch' = Began(touch, line.at)
        BY <1>4, <3>3 DEF ParseLine
      <4>2. touch' \in TouchRecord /\ touch'.active /\ Known(touch') = {}
        BY <1>6, <4>1, BeganTouch
      <4> QED
        BY <4>2
    <3> QED
      BY <2>2, <3>1, <3>2, <3>3
  <2>6. lines' # << >> /\ TouchLines(lines', did[Last].at)
    <3>1. Len(lines') > 0 /\ lines'[Len(lines')] = lines[Len(lines)] /\ DOMAIN lines' = 1 .. Len(lines')
      <4>1. Len(lines') \in 1 .. Len(lines') /\ Len(lines') + 1 = Len(lines)
        BY <1>5, <2>1
      <4> QED
        BY <1>5, <4>1
    <3>2. ASSUME NEW i \in 1 .. Len(lines') PROVE LineFits(lines', i, did[Last].at)
      <4>1. LineFits(lines, i + 1, did[Last].at) /\ lines'[i] = lines[i + 1]
        BY <1>5, <1>6
      <4> QED
        BY <1>5, <4>1 DEF LineFits
    <3> QED
      BY <1>5, <1>6, <3>1, <3>2 DEF TouchLines
  <2>7. Positions(lines') \subseteq Positions(lines)
    <3>1. DOMAIN lines' = 1 .. Len(lines') /\ DOMAIN lines = 1 .. Len(lines)
      BY <1>2, <1>5 DEF CaptureTypes
    <3> QED
      BY <1>5, <3>1 DEF Positions
  <2>8. TouchUnderWay'
    <3>1. \A p : OnTarget(p)' <=> OnTarget(p)
      BY <1>1 DEF OnTarget, Places, OnScreen, Last
    <3>2. \A p \in Positions(lines') : OnTarget(p)'
      BY <1>6, <2>7, <3>1
    <3>3. \A p \in Known(touch)' : OnTarget(p)'
      BY <2>5, <3>1 DEF Known
    <3>4. TouchLines(lines, did[Last].at)'
      BY <1>1, <2>6 DEF TouchLines, LineFits, Last
    <3> QED
      BY <2>5, <2>6, <3>2, <3>3, <3>4 DEF TouchUnderWay
  <2>9. CaptureTypes'
    BY <1>1, <1>2, <1>5, <2>4, <2>5 DEF CaptureTypes
  <2>10. TouchInv'
    BY <1>1, <1>3, <2>4, <2>5, <2>8 DEF TouchInv, IsTouch, Last
  <2> QED
    BY <1>1, <1>2, <2>4, <2>9, <2>10, StillRecording
<1> QED
  BY <1>7, <1>8

LEMMA ParseLineKeeps ==
  ASSUME IInv, ParseLine
  PROVE  IInv'
  BY KeyLineKeeps, OverLineKeeps, TouchLineKeeps

-----------------------------------------------------------------------------
(* The snapshot an event is given, and the place it is scaled to.             *)
\* mapMonotonicToIso: neither the lag nor an estimate is negative.
LEMMA Dated ==
  ASSUME CaptureTypes, events # << >>, NEW at \in Nat
  PROVE  Lag \in Nat /\ Estimated(at) \in Nat /\ Estimated(at) <= at
         /\ \A earlier \in Nat : earlier + Lag <= at => earlier <= Estimated(at)
<1>1. Lag \in Nat
  <2>1. events[1] \in ParsedEvent /\ device \in Devices
    BY DEF CaptureTypes
  <2>2. events[1].at \in Nat
    BY <2>1 DEF ParsedEvent
  <2>3. device.lag \in Nat \cup {NoLag}
    BY <2>1, FlowAssumption
  <2> QED
    BY <2>2, <2>3 DEF Lag
<1>2. PICK lag \in Nat : lag = Lag
  BY <1>1
<1>3. Estimated(at) = IF at > lag THEN at - lag ELSE 0
  BY <1>2 DEF Estimated
<1> QED
  BY <1>2, <1>3

\* chooseNearestSnapshotRef gives an event the last snapshot taken at or before its time.
LEMMA NearestSeen ==
  ASSUME CaptureTypes, NEW at \in Nat, NEW final \in Screens \cup {NoScreen}
  PROVE  /\ Nearest(at, final) \in Screens \cup {NoScreen}
         /\ \A i \in Taken : shots[i].at <= at =>
              \E k \in Taken : k >= i /\ shots[k].at <= at /\ Nearest(at, final) = shots[k].screen
<1>1. /\ Taken \in SUBSET (0 .. Len(shots)) /\ Len(shots) \in Nat
      /\ \A i \in Taken : shots[i].screen \in Screens \cup {NoScreen}
  <2>1. shots \in Seq(Shot)
    BY DEF CaptureTypes
  <2>2. \A i \in Taken : shots[i] \in Shot /\ i \in 1 .. Len(shots)
    BY <2>1 DEF Taken
  <2> QED
    BY <2>1, <2>2 DEF Shot
<1>2. PICK Earlier : Earlier = {i \in Taken : shots[i].at <= at}
  OBVIOUS
<1>3. Earlier \in SUBSET (0 .. Len(shots)) /\ Earlier \subseteq Taken
  BY <1>1, <1>2
<1>4. CASE Earlier # {}
  <2>1. Max(Earlier) \in Earlier /\ \A j \in Earlier : j <= Max(Earlier)
    BY <1>1, <1>3, <1>4, MaxOfPositions
  <2>2. Nearest(at, final) = shots[Max(Earlier)].screen
    BY <1>2, <1>4 DEF Nearest
  <2>3. PICK k : k = Max(Earlier)
    OBVIOUS
  <2>4. k \in Taken /\ shots[k].at <= at /\ Nearest(at, final) = shots[k].screen
    BY <1>2, <2>1, <2>2, <2>3
  <2>5. \A i \in Taken : shots[i].at <= at => k >= i
    BY <1>1, <1>2, <2>1, <2>3, <2>4
  <2> QED
    BY <1>1, <2>4, <2>5
<1>5. CASE Earlier = {} /\ Taken # {}
  <2>1. Min(Taken) \in Taken
    BY <1>1, <1>5, MinOfPositions
  <2>2. Nearest(at, final) = shots[Min(Taken)].screen
    BY <1>2, <1>5 DEF Nearest
  <2> QED
    BY <1>1, <1>2, <1>5, <2>1, <2>2
<1>6. CASE Taken = {}
  BY <1>6 DEF Nearest
<1> QED
  BY <1>4, <1>5, <1>6

\* The largest coordinate recorded is one of the panel.
LEMMA FarthestReached ==
  ASSUME CaptureTypes, EventsInv
  PROVE  Farthest \in Nat /\ Farthest <= device.axis
<1>1. device.axis \in Nat /\ \A i \in DOMAIN events : events[i].reach \in 0 .. device.axis
  <2>1. device.axis \in Nat
    BY FlowAssumption DEF CaptureTypes
  <2> QED
    BY <2>1 DEF EventsInv, Truly
<1>2. PICK R : R = {events[i].reach : i \in DOMAIN events} \cup {0}
  OBVIOUS
<1>3. R \in SUBSET (0 .. device.axis) /\ R # {}
  BY <1>1, <1>2
<1>4. Max(R) \in R
  BY <1>1, <1>3, MaxOfPositions
<1> QED
  BY <1>1, <1>2, <1>3, <1>4 DEF Farthest

\* normalizeCoordinate gives a pixel.
LEMMA RescaledPixel ==
  ASSUME NEW x \in Nat, NEW max \in Nat, NEW width \in Nat
  PROVE  Rescaled(x, max, width) \in Nat
<1>1. CASE max = 0
  BY <1>1 DEF Rescaled
<1>2. CASE max # 0
  <2>1. PICK a, b : a = 2 * x * width + max /\ b = 2 * max
    OBVIOUS
  <2>2. x * width \in Nat
    OBVIOUS
  <2>3. 2 * x * width = 2 * (x * width)
    OBVIOUS
  <2>4. a \in Nat /\ b \in Nat /\ b > 0
    BY <1>2, <2>1, <2>2, <2>3
  <2>5. a \div b \in Nat
    BY <2>4
  <2>6. PICK pixel \in Nat : pixel = a \div b
    BY <2>5
  <2>7. Rescaled(x, max, width) = IF pixel > width THEN width ELSE pixel
    BY <1>2, <2>1, <2>6 DEF Rescaled
  <2> QED
    BY <2>6, <2>7
<1> QED
  BY <1>1, <1>2

LEMMA ScaledPlace ==
  ASSUME CaptureTypes, EventsInv, NEW x \in Nat \cup {NoPoint},
         NEW first \in Screens \cup {NoScreen}, NEW beyondInY \in BOOLEAN
  PROVE  /\ Scaled(x, first, beyondInY) \in Nat \cup {NoPoint}
         /\ Scaled(x, first, beyondInY) # NoPoint => x # NoPoint
<1>1. Farthest \in Nat
  BY FarthestReached
<1>2. CASE x = NoPoint \/ first = NoScreen \/ ~(beyondInY \/ 5 * Farthest > 6 * Viewport[first])
  BY <1>2 DEF Scaled
<1>3. CASE ~(x = NoPoint \/ first = NoScreen \/ ~(beyondInY \/ 5 * Farthest > 6 * Viewport[first]))
  <2>1. x \in Nat /\ first \in Screens
    BY <1>3
  <2>2. Viewport[first] \in Nat
    BY <2>1, FlowAssumption
  <2>3. Scaled(x, first, beyondInY) = Rescaled(x, Farthest, Viewport[first])
    BY <1>3 DEF Scaled
  <2> QED
    BY <1>1, <1>3, <2>1, <2>2, <2>3, RescaledPixel
<1> QED
  BY <1>2, <1>3

\* The recording says where its touches were: they are scaled to the pixels they were at.
LEMMA ScaledRightly ==
  ASSUME CaptureTypes, EventsInv, ScaleIsKnown, NEW x \in Nat,
         NEW first, first = shots[Min(Taken)].screen, NEW beyondInY \in BOOLEAN,
         (device.axis = Width /\ first # NoScreen /\ Viewport[first] = Width) => ~beyondInY
  PROVE  Scaled(x, first, beyondInY) = OnScreen(x)
<1>1. first # NoScreen /\ Viewport[first] = Width /\ x # NoPoint
  <2>1. Taken \in SUBSET (0 .. Len(shots)) /\ Len(shots) \in Nat /\ Taken # {}
    BY DEF CaptureTypes, Taken, ScaleIsKnown
  <2>2. Min(Taken) \in Taken
    BY <2>1, MinOfPositions
  <2> QED
    BY <2>2, FlowAssumption DEF Taken, ScaleIsKnown
<1>2. Farthest \in Nat /\ Farthest <= device.axis /\ device.axis \in Nat /\ Width \in Nat
  <2>1. device.axis \in Nat
    BY FlowAssumption DEF CaptureTypes
  <2> QED
    BY <2>1, FarthestReached, FlowAssumption
<1>3. CASE device.axis = Width
  <2>1. ~beyondInY /\ ~(5 * Farthest > 6 * Width)
    BY <1>1, <1>2, <1>3
  <2> QED
    BY <1>1, <1>3, <2>1 DEF Scaled, OnScreen
<1>4. CASE device.axis # Width
  <2>1. 5 * Farthest > 6 * Width /\ Farthest = device.axis
    BY <1>4 DEF ScaleIsKnown
  <2> QED
    BY <1>1, <1>4, <2>1 DEF Scaled, OnScreen
<1> QED
  BY <1>3, <1>4

\* When all lines are read, every action is logged.
LEMMA AllLogged ==
  ASSUME CaptureTypes, EventsInv, TouchInv, lines = << >>
  PROVE  \A n \in 1 .. Len(did) : Logged(n)
<1>1. Last \in Nat
  BY DEF CaptureTypes, Last
<1>2. ASSUME Last > 0 PROVE Logged(Last)
  <2>1. IF ~IsTouch(Last) THEN KeyPressed ELSE IF Emitted THEN TouchOver ELSE TouchUnderWay
    BY <1>2 DEF TouchInv
  <2> QED
    BY <2>1 DEF KeyPressed, TouchUnderWay, TouchLines, Emitted, Logged
<1> QED
  BY <1>1, <1>2 DEF EventsInv, Last

\* What the recording says does not change once it has ended.
LEMMA SureStays ==
  ASSUME UNCHANGED <<did, device, shots, events>>
  PROVE  \A n : Sure(n)' <=> Sure(n)
<1>1. Taken' = Taken /\ Lag' = Lag /\ Farthest' = Farthest
  BY DEF Taken, Lag, Farthest
<1>2. ScaleIsKnown' <=> ScaleIsKnown
  BY <1>1 DEF ScaleIsKnown
<1>3. \A n : ScreenIsKnown(did[n])' <=> ScreenIsKnown(did[n])
  BY <1>1 DEF ScreenIsKnown
<1> QED
  BY <1>2, <1>3 DEF Sure

\* The mapper is given the events, with their snapshots.
LEMMA EndCaptureKeeps ==
  ASSUME IInv, EndCapture
  PROVE  IInv'
<1>1. /\ phase = "capture" /\ phase' = "map" /\ lines = << >>
      /\ UNCHANGED <<did, device, now, screen, shots, lines, touch, events, mapper, steps, warned, flow>>
  BY DEF EndCapture
<1>2. CaptureTypes /\ MappedTypes /\ EventsInv /\ TouchInv /\ AtRest
  BY <1>1, Types DEF IInv, CaptureInv
<1> DEFINE Given(e, first, beyondInY, final) ==
                [e EXCEPT !.at = Estimated(@), !.pos = Scaled(@, first, beyondInY),
                          !.seen = Nearest(Estimated(e.at), final)]
<1>3. PICK final \in Screens \cup {NoScreen}, beyondInY \in BOOLEAN :
        \E first :
          /\ first = IF Taken # {} THEN shots[Min(Taken)].screen ELSE final
          /\ (device.axis = Width /\ first # NoScreen /\ Viewport[first] = Width) => ~beyondInY
          /\ unread' = [i \in DOMAIN events |-> Given(events[i], first, beyondInY, final)]
  <2>1. PICK final \in {screen, NoScreen}, beyondInY \in BOOLEAN :
          LET first == IF Taken # {} THEN shots[Min(Taken)].screen ELSE final
          IN  /\ (device.axis = Width /\ first # NoScreen /\ Viewport[first] = Width) => ~beyondInY
              /\ unread' = [i \in DOMAIN events |-> Given(events[i], first, beyondInY, final)]
    BY DEF EndCapture
  <2>2. final \in Screens \cup {NoScreen}
    BY <1>2 DEF CaptureTypes
  <2>3. PICK first : first = IF Taken # {} THEN shots[Min(Taken)].screen ELSE final
    OBVIOUS
  <2>4. /\ (device.axis = Width /\ first # NoScreen /\ Viewport[first] = Width) => ~beyondInY
        /\ unread' = [i \in DOMAIN events |-> Given(events[i], first, beyondInY, final)]
    BY <2>1, <2>3
  <2> HIDE DEF Given
  <2> QED
    BY <2>2, <2>3, <2>4
<1>4. /\ events \in Seq(ParsedEvent) /\ shots \in Seq(Shot) /\ did \in Seq(Action)
      /\ Len(events) \in Nat /\ DOMAIN events = 1 .. Len(events)
      /\ \A i \in 1 .. Len(events) : events[i] \in ParsedEvent
  BY <1>2 DEF CaptureTypes
<1>b. PICK first :
          /\ first = IF Taken # {} THEN shots[Min(Taken)].screen ELSE final
          /\ (device.axis = Width /\ first # NoScreen /\ Viewport[first] = Width) => ~beyondInY
          /\ unread' = [i \in DOMAIN events |-> Given(events[i], first, beyondInY, final)]
  BY <1>3
<1>a. first \in Screens \cup {NoScreen}
  <2>1. CASE Taken = {}
    BY <1>b, <2>1
  <2>2. CASE Taken # {}
    <3>1. Taken \in SUBSET (0 .. Len(shots)) /\ Len(shots) \in Nat
      BY <1>4 DEF Taken
    <3>2. Min(Taken) \in Taken
      BY <2>2, <3>1, MinOfPositions
    <3>3. shots[Min(Taken)] \in Shot
      BY <1>4, <3>2 DEF Taken
    <3> QED
      BY <1>b, <2>2, <3>3 DEF Shot
  <2> QED
    BY <2>1, <2>2
<1>5. ASSUME NEW i \in 1 .. Len(events), NEW e, e = Given(events[i], first, beyondInY, final)
      PROVE  e \in ParsedEvent /\ e.by = events[i].by /\ EventFits(e) /\ SeenRightly(e)
  <2>1. /\ events[i] \in ParsedEvent /\ events[i].at \in Nat /\ EventFits(events[i]) /\ Truly(events[i])
        /\ events[i].pos \in Nat \cup {NoPoint} /\ events # << >>
    <3>1. events[i] \in ParsedEvent /\ events # << >>
      BY <1>4
    <3>2. events[i].at \in Nat /\ events[i].pos \in Nat \cup {NoPoint}
      BY <3>1 DEF ParsedEvent
    <3> QED
      BY <1>2, <1>4, <3>1, <3>2 DEF EventsInv
  <2>2. PICK at, pos, seen : /\ at = Estimated(events[i].at)
                             /\ pos = Scaled(events[i].pos, first, beyondInY)
                             /\ seen = Nearest(at, final)
    OBVIOUS
  <2>3. /\ at \in Nat /\ at <= events[i].at
        /\ \A earlier \in Nat : earlier + Lag <= events[i].at => earlier <= at
    BY <1>2, <2>1, <2>2, Dated
  <2>4. pos \in Nat \cup {NoPoint} /\ (pos # NoPoint => events[i].pos # NoPoint)
    BY <1>2, <1>a, <2>1, <2>2, ScaledPlace
  <2>5. /\ seen \in Screens \cup {NoScreen}
        /\ \A j \in Taken : shots[j].at <= at =>
              \E k \in Taken : k >= j /\ shots[k].at <= at /\ seen = shots[k].screen
    BY <1>2, <2>2, <2>3, NearestSeen
  <2>6. e = [events[i] EXCEPT !.at = at, !.pos = pos, !.seen = seen]
    BY <1>5, <2>1, <2>2, Zenon DEF ParsedEvent
  <2>7. e \in ParsedEvent
    BY <2>1, <2>3, <2>4, <2>5, <2>6, ZenonT(30) DEF ParsedEvent
  <2>8. e.by = events[i].by /\ e.kind = events[i].kind /\ e.key = events[i].key
        /\ e.pos = pos /\ e.seen = seen
    BY <2>1, <2>6 DEF ParsedEvent
  <2>9. EventFits(e)
    BY <2>1, <2>8 DEF EventFits
  <2>10. SeenRightly(e)
    <3> SUFFICES ASSUME e.pos # NoPoint, Sure(e.by), e.kind = "tap"
                 PROVE  Hit(e.seen, e.pos) = did[e.by].element
      BY DEF SeenRightly
    <3> DEFINE tap == did[e.by]
    <3>1. tap.kind = "tap" /\ ScaleIsKnown /\ ScreenIsKnown(tap) /\ tap.at = events[i].at /\ Taken # {}
      BY <2>1, <2>8 DEF Sure, Truly, ScaleIsKnown
    <3>2. events[i].pos \in Nat /\ Hit(tap.screen, OnScreen(events[i].pos)) = tap.element
      BY <2>1, <2>4, <2>8, <3>1 DEF Truly, Places
    <3>3. pos = OnScreen(events[i].pos)
      BY <1>2, <1>b, <2>2, <3>1, <3>2, ScaledRightly
    <3>4. seen = tap.screen
      <4>1. PICK j \in Taken :
               /\ shots[j].at + Lag <= tap.at
               /\ \A k \in Taken : (k >= j /\ shots[k].at <= tap.at) => shots[k].screen = tap.screen
        BY <3>1 DEF ScreenIsKnown
      <4>2. \A k \in Taken : shots[k].at \in Nat
        <5>1. \A k \in Taken : shots[k] \in Shot
          BY <1>4 DEF Taken
        <5> QED
          BY <5>1 DEF Shot
      <4>3. shots[j].at <= at
        BY <2>3, <3>1, <4>1, <4>2
      <4>4. PICK k \in Taken : k >= j /\ shots[k].at <= at /\ seen = shots[k].screen
        BY <2>5, <4>3
      <4>5. shots[k].at <= tap.at
        BY <2>1, <2>3, <3>1, <4>2, <4>4
      <4> QED
        BY <4>1, <4>4, <4>5
    <3> QED
      BY <2>8, <3>2, <3>3, <3>4
  <2> QED
    BY <2>7, <2>8, <2>9, <2>10
<1> HIDE DEF Given
<1>6. /\ unread' \in Seq(ParsedEvent) /\ Len(unread') = Len(events)
      /\ \A i \in 1 .. Len(events) : unread'[i].by = events[i].by /\ EventFits(unread'[i]) /\ SeenRightly(unread'[i])
  <2>1. /\ DOMAIN unread' = 1 .. Len(events)
        /\ \A i \in 1 .. Len(events) : unread'[i] = Given(events[i], first, beyondInY, final)
    BY <1>b, <1>4
  <2>2. \A i \in 1 .. Len(events) : /\ unread'[i] \in ParsedEvent /\ unread'[i].by = events[i].by
                                    /\ EventFits(unread'[i]) /\ SeenRightly(unread'[i])
    BY <1>5, <2>1
  <2>3. unread' = [i \in 1 .. Len(events) |-> unread'[i]]
    BY <1>b, <1>4
  <2>4. unread' \in Seq(ParsedEvent) /\ Len(unread') = Len(events)
    <3>1. PICK read : read = unread'
      OBVIOUS
    <3>2. /\ read = [i \in 1 .. Len(events) |-> read[i]]
          /\ \A i \in 1 .. Len(events) : read[i] \in ParsedEvent
      BY <2>2, <2>3, <3>1
    <3>3. read \in Seq(ParsedEvent) /\ Len(read) = Len(events)
      BY <1>4, <3>2
    <3> QED
      BY <3>1, <3>3
  <2> QED
    BY <2>2, <2>4
<1>7. DOMAIN unread' = 1 .. Len(events) /\ DOMAIN steps' = {} /\ warned' = {} /\ flow' = << >>
  BY <1>1, <1>2, <1>6 DEF AtRest
<1>8. ReadAhead'
  <2>1. Rising(unread)'
    BY <1>2, <1>4, <1>6, <1>7 DEF EventsInv, Rising
  <2>2. \A i \in DOMAIN unread' : EventFits(unread[i])' /\ SeenRightly(unread[i])'
    BY <1>1, <1>6, <1>7, SureStays DEF EventFits, SeenRightly, IsTouch
  <2> QED
    BY <1>7, <2>1, <2>2 DEF ReadAhead
<1>9. StepsInv'
  BY <1>7 DEF StepsInv, Ordered
<1>10. MapCovers'
  <2>1. \A n \in 1 .. Len(did) : Logged(n)
    BY <1>1, <1>2, AllLogged
  <2>2. \A n \in 1 .. Len(did) : did[n].kind = "other" \/ Waiting(n)'
    BY <1>4, <1>6, <1>7, <2>1 DEF Logged, Waiting
  <2> QED
    BY <1>1, <2>2 DEF MapCovers
<1>11. mapper'.field = NoElement
  BY <1>1, <1>2 DEF AtRest
<1>12. MapInv'
  BY <1>7, <1>8, <1>9, <1>10, <1>11 DEF MapInv
<1>13. TypeOK'
  <2>1. CaptureTypes' /\ MappedTypes'
    BY <1>1, <1>2, <1>6 DEF CaptureTypes, MappedTypes
  <2> QED
    BY <1>1, <2>1, Zenon DEF TypeOK, CaptureTypes, MappedTypes, LineRecord, TouchRecord, MapperRecord, Shot
<1> QED
  BY <1>1, <1>12, <1>13 DEF IInv, CaptureInv, RenderInv

-----------------------------------------------------------------------------
(* The mapper.                                                                *)
\* What a step of the map phase has to keep.
LEMMA StillMapping ==
  ASSUME IInv, phase = "map", phase' = "map", MappedTypes', MapInv',
         UNCHANGED <<did, device, now, screen, shots, lines, touch, events>>
  PROVE  IInv'
<1>1. CaptureTypes'
  BY Types DEF IInv, CaptureTypes
<1>2. TypeOK'
  BY <1>1, Zenon DEF TypeOK, CaptureTypes, MappedTypes, LineRecord, TouchRecord, MapperRecord, Shot
<1> QED
  BY <1>2 DEF IInv, CaptureInv, RenderInv

\* WithWait adds at most one step, which acts for nobody.
LEMMA Waits ==
  ASSUME NEW s \in RecordedStep, NEW w, w = WithWait(s)
  PROVE  /\ w \in Seq(RecordedStep) /\ w[1] = s /\ Len(w) \in Nat /\ (Len(w) = 1 \/ Len(w) = 2)
         /\ Len(w) = 2 => w[2].kind = "wait_for_ui" /\ w[2].element # NoElement /\ w[2].by = s.by
<1>1. CASE s.element = NoElement \/ s.kind \notin {"tap_element", "type_into_element"}
  <2>1. w = <<s>>
    BY <1>1 DEF WithWait
  <2> QED
    BY <2>1
<1>2. CASE ~(s.element = NoElement \/ s.kind \notin {"tap_element", "type_into_element"})
  <2>1. PICK wait : wait = Step("wait_for_ui", s.element, NoPoint, s.by)
    OBVIOUS
  <2>2. w = <<s, wait>>
    BY <1>2, <2>1 DEF WithWait
  <2>3. wait \in RecordedStep /\ wait.kind = "wait_for_ui" /\ wait.element = s.element /\ wait.by = s.by
    BY <2>1 DEF Step, RecordedStep
  <2> QED
    BY <1>2, <2>2, <2>3
<1> QED
  BY <1>1, <1>2

\* What the invariant says in the map phase, with the ranges of its sequences.
LEMMA MapFacts ==
  ASSUME IInv, phase = "map"
  PROVE  /\ CaptureTypes /\ MappedTypes /\ MapInv /\ ReadAhead /\ StepsInv /\ MapCovers
         /\ unread \in Seq(ParsedEvent) /\ steps \in Seq(RecordedStep) /\ mapper \in MapperRecord
         /\ Len(unread) \in Nat /\ Len(steps) \in Nat /\ Len(did) \in Nat
         /\ DOMAIN unread = 1 .. Len(unread) /\ DOMAIN steps = 1 .. Len(steps)
         /\ \A i \in 1 .. Len(steps) : StepFits(steps[i])
         /\ \A i \in 1 .. Len(unread) : EventFits(unread[i]) /\ unread[i].by \in 1 .. Len(did)
         /\ \A i, j \in 1 .. Len(unread) : i < j => unread[i].by < unread[j].by
         /\ \A i \in 1 .. Len(steps) : \A m \in From(steps[i]) : m \in 1 .. Len(did)
<1>1. CaptureTypes /\ MappedTypes /\ MapInv
  BY Types DEF IInv
<1>2. ReadAhead /\ StepsInv /\ MapCovers
  BY <1>1 DEF MapInv
<1>3. /\ unread \in Seq(ParsedEvent) /\ steps \in Seq(RecordedStep) /\ mapper \in MapperRecord
      /\ did \in Seq(Action)
  BY <1>1 DEF MappedTypes, CaptureTypes
<1>4. \A i \in DOMAIN steps : StepFits(steps[i])
  BY <1>2 DEF StepsInv
<1>5. \A i \in DOMAIN steps : \A m \in From(steps[i]) : m \in 1 .. Len(did)
  BY <1>4 DEF StepFits
<1>6. \A i \in DOMAIN unread : EventFits(unread[i]) /\ unread[i].by \in 1 .. Len(did)
  BY <1>2 DEF ReadAhead, EventFits
<1>7. \A i, j \in DOMAIN unread : i < j => unread[i].by < unread[j].by
  BY <1>2 DEF ReadAhead, Rising
<1>8. /\ Len(unread) \in Nat /\ Len(steps) \in Nat /\ Len(did) \in Nat
      /\ DOMAIN unread = 1 .. Len(unread) /\ DOMAIN steps = 1 .. Len(steps)
  BY <1>3
<1> QED
  BY <1>1, <1>2, <1>3, <1>4, <1>5, <1>6, <1>7, <1>8

\* The step s is made from the first r events, delimiters and unmapped keys aside.
MadeFrom(s, r) ==
    /\ s.by[1] = unread[1].by
    /\ \A m \in From(s) : \E i \in 1 .. r : m = unread[i].by
    /\ \A i \in 1 .. r : unread[i].by \in From(s) \/ did[unread[i].by].kind \in {"other", "enter"}

\* The field after those events is the one before, or that of the tap s.
FieldAfter(s, r, field) ==
    \/ /\ field = mapper.field
       /\ \A i \in 1 .. r : \/ did[unread[i].by].kind \in Keys
                            \/ /\ IsTouch(unread[i].by) /\ s.kind = "tap" /\ s.pos = NoPoint
                               /\ s.by = <<unread[i].by>>
    \/ TapOf(s, field, unread[1].by) /\ r = 1

\* Some events become a step: the part that all three kinds of mapping share.
LEMMA StepAdded ==
  ASSUME IInv, phase = "map", phase' = "map",
         UNCHANGED <<did, device, now, screen, shots, lines, touch, events, warned, flow>>,
         NEW r \in 1 .. Len(unread), unread' = SubSeq(unread, r + 1, Len(unread)),
         NEW s \in RecordedStep, steps' = steps \o WithWait(s), mapper' \in MapperRecord,
         StepFits(s), Acting(s), MadeFrom(s, r), Typing(s) => s.element = mapper.field,
         mapper'.field # NoElement => FieldAfter(s, r, mapper'.field)
  PROVE  IInv'
<1>1. /\ unread \in Seq(ParsedEvent) /\ steps \in Seq(RecordedStep) /\ MappedTypes
      /\ Len(unread) \in Nat /\ Len(steps) \in Nat /\ Len(did) \in Nat /\ r \in Nat /\ r > 0
      /\ r <= Len(unread)
      /\ DOMAIN unread = 1 .. Len(unread) /\ DOMAIN steps = 1 .. Len(steps)
  BY MapFacts
<1>a. \A i \in 1 .. Len(steps) : StepFits(steps[i])
  BY MapFacts
<1>b. \A i \in 1 .. Len(unread) : EventFits(unread[i]) /\ unread[i].by \in 1 .. Len(did)
  BY MapFacts
<1>c. \A i, j \in 1 .. Len(unread) : i < j => unread[i].by < unread[j].by
  BY MapFacts
<1>2. MapInv /\ ReadAhead /\ StepsInv /\ MapCovers
  BY MapFacts
<1>3. /\ unread' \in Seq(ParsedEvent) /\ Len(unread') = Len(unread) - r
      /\ DOMAIN unread' = 1 .. Len(unread') /\ Len(unread') \in Nat
      /\ \A i \in 1 .. Len(unread') : unread'[i] = unread[r + i] /\ r + i \in 1 .. Len(unread)
  <2>1. r \in 0 .. Len(unread) /\ unread \in Seq(ParsedEvent)
    BY <1>1
  <2>2. PICK rest : rest = SubSeq(unread, r + 1, Len(unread)) /\ unread' = rest
    OBVIOUS
  <2>3. /\ rest \in Seq(ParsedEvent) /\ Len(rest) = Len(unread) - r
        /\ DOMAIN rest = 1 .. Len(rest) /\ Len(rest) \in Nat
        /\ \A i \in 1 .. Len(rest) : rest[i] = unread[r + i] /\ r + i \in 1 .. Len(unread)
    BY <2>1, <2>2, Rest, SMTT(30)
  <2> QED
    BY <1>1, <2>2, <2>3
<1>4. DOMAIN unread' = 1 .. Len(unread') /\ Len(unread') \in Nat
  BY <1>3
<1>d. /\ r \in Nat /\ r > 0 /\ r <= Len(unread) /\ Len(unread) \in Nat /\ Len(unread') = Len(unread) - r
      /\ Len(unread') \in Nat
  BY <1>1, <1>3
<1>e. \A i \in 1 .. Len(unread') : unread'[i] = unread[r + i] /\ r + i \in 1 .. Len(unread)
  BY <1>3
<1>5. PICK w : w = WithWait(s)
  OBVIOUS
<1>6. /\ w \in Seq(RecordedStep) /\ w[1] = s /\ Len(w) \in Nat /\ (Len(w) = 1 \/ Len(w) = 2)
      /\ Len(w) = 2 => w[2].kind = "wait_for_ui" /\ w[2].element # NoElement /\ w[2].by = s.by
  BY <1>5, Waits
<1>7. /\ steps' \in Seq(RecordedStep) /\ Len(steps') = Len(steps) + Len(w)
      /\ \A i \in 1 .. Len(steps) : steps'[i] = steps[i]
      /\ \A i \in 1 .. Len(w) : steps'[Len(steps) + i] = w[i]
  BY <1>1, <1>5, <1>6, Joined, SMTT(30)
<1>8. DOMAIN steps' = 1 .. Len(steps') /\ Len(steps') \in Nat /\ Len(steps) + 1 \in 1 .. Len(steps')
      /\ steps'[Len(steps) + 1] = s
  BY <1>1, <1>6, <1>7
<1>f. Len(steps) \in Nat /\ (Len(w) = 1 \/ Len(w) = 2) /\ Len(steps') = Len(steps) + Len(w)
  BY <1>1, <1>6, <1>7
<1>9. ASSUME NEW i \in 1 .. Len(steps')
      PROVE  \/ i \in 1 .. Len(steps) /\ steps'[i] = steps[i]
             \/ i = Len(steps) + 1 /\ steps'[i] = s
             \/ i = Len(steps) + 2 /\ ~Acting(steps'[i]) /\ steps'[i].by = s.by /\ steps'[i].kind = "wait_for_ui"
  <2>1. i \in 1 .. Len(steps) \/ i = Len(steps) + 1 \/ (i = Len(steps) + 2 /\ Len(w) = 2)
    <3>1. Len(steps') = Len(steps) + 1 \/ Len(steps') = Len(steps) + 2
      BY <1>f
    <3>2. Len(steps) \in Nat
      BY <1>f
    <3>3. i \in 1 .. Len(steps) \/ i = Len(steps) + 1 \/ (i = Len(steps) + 2 /\ Len(steps') = Len(steps) + 2)
      BY <3>1, <3>2, OneOrTwoMore
    <3> QED
      BY <1>f, <3>3
  <2>2. CASE i = Len(steps) + 2 /\ Len(w) = 2
    <3>1. steps'[i] = w[2]
      BY <1>6, <1>7, <2>2
    <3> QED
      BY <1>6, <2>2, <3>1 DEF Acting
  <2> QED
    BY <1>7, <1>8, <2>1, <2>2
<1>10. \A t \in RecordedStep : t.by = s.by => From(t) = From(s)
  BY DEF From
<1>11. \A i \in 1 .. Len(steps') : i \in 1 .. Len(steps) \/ From(steps'[i]) = From(s)
  <2>1. \A i \in 1 .. Len(steps') : steps'[i] \in RecordedStep
    BY <1>7, <1>8
  <2> QED
    BY <1>9, <1>10, <2>1
<1>12. MappedTypes'
  BY <1>1, <1>3, <1>7 DEF MappedTypes
<1>13. \A i \in 1 .. Len(steps) : \A m \in From(steps[i]), j \in 1 .. Len(unread) : m < unread[j].by
  BY <1>1, <1>2 DEF ReadAhead
<1>14. \A m \in From(s), j \in 1 .. Len(unread') : m < unread'[j].by
  <2> SUFFICES ASSUME NEW m \in From(s), NEW j \in 1 .. Len(unread') PROVE m < unread'[j].by
    OBVIOUS
  <2>1. PICK i \in 1 .. r : m = unread[i].by
    BY DEF MadeFrom
  <2>2. i \in 1 .. Len(unread) /\ r + j \in 1 .. Len(unread) /\ i < r + j
    BY <1>d, <1>e
  <2> QED
    BY <1>e, <1>c, <2>1, <2>2
<1>15. ReadAhead'
  <2>1. Rising(unread)'
    <3>1. \A i, j \in 1 .. Len(unread') : i < j => unread'[i].by < unread'[j].by
      <4> SUFFICES ASSUME NEW i \in 1 .. Len(unread'), NEW j \in 1 .. Len(unread'), i < j
                   PROVE  unread'[i].by < unread'[j].by
        OBVIOUS
      <4>1. r + i \in 1 .. Len(unread) /\ r + j \in 1 .. Len(unread) /\ r + i < r + j
        BY <1>d, SMTT(30)
      <4> QED
        BY <1>c, <1>e, <4>1
    <3> QED
      BY <1>4, <3>1 DEF Rising
  <2>2. ASSUME NEW i \in 1 .. Len(unread') PROVE EventFits(unread[i])' /\ SeenRightly(unread[i])'
    <3>1. EventFits(unread'[i]) /\ SeenRightly(unread'[i])
      BY <1>1, <1>2, <1>3 DEF ReadAhead
    <3> QED
      BY <3>1, SureStays DEF EventFits, SeenRightly, IsTouch
  <2>3. ASSUME NEW i \in 1 .. Len(steps'), NEW m \in From(steps'[i]), NEW j \in 1 .. Len(unread')
        PROVE  m < unread'[j].by
    <3>1. CASE i \in 1 .. Len(steps)
      BY <1>3, <1>7, <1>13, <2>3, <3>1
    <3>2. CASE From(steps'[i]) = From(s)
      BY <1>14, <2>3, <3>2
    <3> QED
      BY <1>11, <3>1, <3>2
  <2>4. \A m \in warned, j \in 1 .. Len(unread') : m < unread'[j].by
    BY <1>1, <1>2, <1>3 DEF ReadAhead
  <2>5. \A i \in DOMAIN steps' : \A m \in From(steps[i])' : m \in From(steps'[i])
    BY DEF From
  <2> QED
    BY <1>4, <1>8, <2>1, <2>2, <2>3, <2>4, <2>5 DEF ReadAhead
<1>16. StepsInv'
  <2>1. ASSUME NEW i \in 1 .. Len(steps'), NEW j \in 1 .. Len(steps'), i < j, Acting(steps'[i]),
               Acting(steps'[j])
        PROVE  Before(steps'[i], steps'[j])
    <3>1. i \in 1 .. Len(steps) /\ steps'[i] = steps[i]
      <4>1. j = Len(steps) + 2 => ~Acting(steps'[j])
        BY <1>9, <1>f, SMTT(30)
      <4>2. i = Len(steps) + 1 => j = Len(steps) + 2
        BY <1>f, <2>1, SMTT(30)
      <4>3. i # Len(steps) + 2
        <5>1. PICK n \in Nat, m \in Nat : n = Len(steps) /\ m = Len(steps') /\ m <= n + 2
          BY <1>f, SMTT(30)
        <5> QED
          BY <2>1, <5>1
      <4> QED
        BY <1>9, <2>1, <4>1, <4>2, <4>3
    <3>2. CASE j \in 1 .. Len(steps)
      BY <1>1, <1>2, <1>7, <2>1, <3>1, <3>2 DEF StepsInv, Ordered
    <3>3. CASE j \notin 1 .. Len(steps)
      <4>1. From(steps'[j]) = From(s)
        BY <1>11, <3>3
      <4>2. ASSUME NEW m \in From(steps[i]), NEW n \in From(s) PROVE m < n
        <5>1. PICK k \in 1 .. r : n = unread[k].by
          BY DEF MadeFrom
        <5>2. k \in 1 .. Len(unread)
          BY <1>d
        <5> QED
          BY <1>13, <3>1, <4>2, <5>1, <5>2
      <4> QED
        BY <3>1, <4>1, <4>2 DEF Before
    <3> QED
      BY <3>2, <3>3
  <2>a. Ordered(steps')
    BY <1>8, <2>1 DEF Ordered
  <2>2. Ordered(steps)'
    BY <2>a
  <2>3. ASSUME NEW i \in 1 .. Len(steps') PROVE StepFits(steps'[i])
    <3>1. CASE i = Len(steps) + 2 /\ ~Acting(steps'[i]) /\ steps'[i].by = s.by /\ steps'[i].kind = "wait_for_ui"
      <4>1. From(steps'[i]) = From(s)
        BY <3>1 DEF From
      <4> QED
        BY <3>1, <4>1 DEF StepFits
    <3> QED
      BY <1>a, <1>9, <3>1
  <2>4. \A i \in 1 .. Len(steps') : StepFits(steps[i])'
    BY <2>3, SureStays DEF StepFits, From, Acting, RightElement, IsTouch
  <2> QED
    BY <1>8, <2>2, <2>4 DEF StepsInv
<1>17. \A n : Held(steps, n) => Held(steps, n)'
  BY <1>1, <1>7, <1>8 DEF Held, Acting, From
<1>18. \A n \in From(s) : Held(steps, n)'
  BY <1>8 DEF Held, Acting, From
<1>19. \A n : Waiting(n) => Waiting(n)' \/ \E i \in 1 .. r : unread[i].by = n
  <2> SUFFICES ASSUME NEW n, Waiting(n) PROVE Waiting(n)' \/ \E i \in 1 .. r : unread[i].by = n
    OBVIOUS
  <2>1. PICK i \in 1 .. Len(unread) : unread[i].by = n
    BY <1>1 DEF Waiting
  <2>2. CASE i > r
    <3>1. i - r \in 1 .. Len(unread') /\ r + (i - r) = i
      BY <1>d, <2>2, SMTT(30)
    <3>2. unread'[i - r] = unread[i]
      BY <1>e, <3>1
    <3> QED
      BY <1>4, <2>1, <3>1, <3>2 DEF Waiting
  <2>3. CASE i <= r
    BY <1>d, <2>1, <2>3
  <2> QED
    BY <1>d, <2>2, <2>3
<1>20. MapCovers'
  <2>a. \A i \in 1 .. r : unread[i].by \in From(s) \/ did[unread[i].by].kind \in {"other", "enter"}
    BY DEF MadeFrom
  <2> SUFFICES ASSUME NEW n \in 1 .. Len(did)
               PROVE  did[n].kind \in {"other", "enter"} \/ n \in warned \/ Held(steps, n)' \/ Waiting(n)'
    BY DEF MapCovers
  <2>1. CASE Waiting(n)
    BY <1>18, <1>19, <2>1, <2>a
  <2> QED
    BY <1>2, <1>17, <2>1 DEF MapCovers
<1>21. \A n : Discounted(steps, n) => Discounted(steps, n)'
  <2>1. \A j \in DOMAIN steps : j \in DOMAIN steps' /\ steps'[j] = steps[j]
    BY <1>1, <1>7, <1>8
  <2>2. \A n : Unplaced(steps, n) => Unplaced(steps, n)'
    BY <2>1 DEF Unplaced
  <2> QED
    BY <2>2 DEF Discounted, IsTouch
<1>22. \A b, n : LastTouch(steps, b, n) => LastTouch(steps, b, n)'
  BY <1>21 DEF LastTouch
<1>23. ASSUME mapper.field # NoElement
       PROVE  \E j \in 1 .. Len(steps), b \in 1 .. Len(did) :
                  /\ TapOf(steps[j], mapper.field, b)
                  /\ \A n \in b + 1 .. Len(did) : Discounted(steps, n) \/ Waiting(n)
  BY <1>1, <1>2, <1>23 DEF MapInv, FieldTapped
<1>24. ASSUME NEW i \in 1 .. Len(steps'), Typing(steps'[i]) PROVE Typed(i)'
  <2>1. CASE i \in 1 .. Len(steps)
    <3>1. Typed(i)
      BY <1>1, <1>2, <1>7, <1>24, <2>1 DEF MapInv
    <3>2. PICK j \in 1 .. i - 1, b \in 1 .. Len(did) :
              TapOf(steps[j], steps[i].element, b) /\ LastTouch(steps, b, steps[i].by[1])
      BY <3>1 DEF Typed
    <3>3. j \in 1 .. Len(steps) /\ steps'[j] = steps[j] /\ steps'[i] = steps[i]
      BY <1>1, <1>7, <2>1, <3>2
    <3>4. LastTouch(steps, b, steps[i].by[1])'
      BY <1>22, <3>2, <3>3
    <3> QED
      BY <3>2, <3>3, <3>4 DEF Typed, TapOf
  <2>2. CASE i = Len(steps) + 1 /\ steps'[i] = s
    <3>1. Typing(s) /\ s.element = mapper.field /\ mapper.field # NoElement
      BY <1>24, <2>2 DEF Typing
    <3>2. PICK j \in 1 .. Len(steps), b \in 1 .. Len(did) :
              /\ TapOf(steps[j], mapper.field, b)
              /\ \A n \in b + 1 .. Len(did) : Discounted(steps, n) \/ Waiting(n)
      BY <1>23, <3>1
    <3>3. 1 \in 1 .. Len(unread) /\ unread[1].by \in 1 .. Len(did) /\ unread[1].by \in Int
      BY <1>1, <1>b
    <3>4. b \in From(steps[j])
      BY <3>2 DEF TapOf, From
    <3>5. b < unread[1].by
      BY <1>13, <3>3, <3>4
    <3>6. ASSUME NEW n \in b + 1 .. unread[1].by - 1 PROVE Discounted(steps, n)
      <4>1. n \in b + 1 .. Len(did) /\ n < unread[1].by
        BY <1>1, <3>3, SMTT(30)
      <4>2. ~Waiting(n)
        <5> SUFFICES ASSUME NEW k \in 1 .. Len(unread), unread[k].by = n PROVE FALSE
          BY <1>1 DEF Waiting
        <5>1. k = 1 \/ unread[1].by < unread[k].by
          BY <1>1, <1>c, <3>3
        <5> QED
          BY <3>3, <4>1, <5>1, SMTT(30)
      <4> QED
        BY <3>2, <4>1, <4>2
    <3>7. LastTouch(steps, b, s.by[1])'
      BY <1>22, <3>5, <3>6 DEF LastTouch, MadeFrom
    <3>8. j \in 1 .. i - 1 /\ steps'[j] = steps[j]
      BY <1>1, <1>7, <2>2
    <3> QED
      BY <2>2, <3>1, <3>2, <3>7, <3>8 DEF Typed, TapOf
  <2>3. CASE steps'[i].kind = "wait_for_ui"
    BY <1>24, <2>3 DEF Typing
  <2> QED
    BY <1>9, <2>1, <2>2, <2>3
<1>25. ASSUME mapper'.field # NoElement PROVE FieldTapped'
  <2>a. FieldAfter(s, r, mapper'.field)
    BY <1>25
  <2>1. CASE /\ mapper'.field = mapper.field
             /\ \A i \in 1 .. r : \/ did[unread[i].by].kind \in Keys
                                  \/ /\ IsTouch(unread[i].by) /\ s.kind = "tap" /\ s.pos = NoPoint
                                     /\ s.by = <<unread[i].by>>
    <3>1. PICK j \in 1 .. Len(steps), b \in 1 .. Len(did) :
              /\ TapOf(steps[j], mapper.field, b)
              /\ \A n \in b + 1 .. Len(did) : Discounted(steps, n) \/ Waiting(n)
      BY <1>23, <1>25, <2>1
    <3>2. \A i \in 1 .. r : \A n \in {unread[i].by} : Discounted(steps, n)'
      BY <1>8, <2>1 DEF Discounted, Unplaced, IsTouch
    <3>3. \A n \in b + 1 .. Len(did) : Discounted(steps, n)' \/ Waiting(n)'
      BY <1>19, <1>21, <3>1, <3>2
    <3>4. j \in DOMAIN steps' /\ steps'[j] = steps[j]
      BY <1>1, <1>7, <1>8
    <3> QED
      BY <2>1, <3>1, <3>3, <3>4 DEF FieldTapped, TapOf
  <2>2. CASE TapOf(s, mapper'.field, unread[1].by) /\ r = 1
    <3>1. 1 \in 1 .. Len(unread) /\ unread[1].by \in 1 .. Len(did)
      BY <1>1, <1>b, <2>2
    <3>2. ASSUME NEW n \in unread[1].by + 1 .. Len(did) PROVE Discounted(steps, n)' \/ Waiting(n)'
      <4>1. n \in 1 .. Len(did) /\ unread[1].by < n /\ unread[1].by \in Int
        BY <1>1, <3>1
      <4>2. did[n].kind \in {"other", "enter"} \/ n \in warned \/ Held(steps, n) \/ Waiting(n)
        BY <1>2, <4>1 DEF MapCovers
      <4>3. n \notin warned
        <5>1. n \in warned => n < unread[1].by
          BY <1>1, <1>2, <3>1 DEF ReadAhead
        <5> QED
          BY <4>1, <5>1
      <4>4. ~Held(steps, n)
        BY <1>1, <1>13, <3>1, <4>1 DEF Held
      <4>5. did[n].kind \in {"other", "enter"} => Discounted(steps, n)'
        BY DEF Discounted, Keys
      <4>6. Waiting(n) => Waiting(n)'
        BY <1>19, <2>2, <4>1
      <4> QED
        BY <4>2, <4>3, <4>4, <4>5, <4>6
    <3> QED
      BY <1>8, <2>2, <3>1, <3>2 DEF FieldTapped, TapOf
  <2> QED
    BY <2>1, <2>2, <2>a DEF FieldAfter
<1>26. flow' = << >>
  BY <1>2 DEF MapInv
<1>27. \A i \in DOMAIN steps' : Typing(steps[i])' => Typed(i)'
  BY <1>8, <1>24 DEF Typing
<1>28. MapInv'
  BY <1>15, <1>16, <1>20, <1>25, <1>26, <1>27 DEF MapInv
<1> QED
  BY <1>12, <1>28, StillMapping

\* An event is dropped with a warning.
LEMMA WarnedAdded ==
  ASSUME IInv, phase = "map", phase' = "map",
         UNCHANGED <<did, device, now, screen, shots, lines, touch, events, flow, steps, mapper>>,
         unread # << >>, unread' = SubSeq(unread, 1 + 1, Len(unread)), warned' = warned \cup {unread[1].by},
         did[unread[1].by].kind \in Keys \cup Touches
  PROVE  IInv'
<1>1. /\ unread \in Seq(ParsedEvent) /\ steps \in Seq(RecordedStep) /\ MappedTypes
      /\ Len(unread) \in Nat /\ Len(unread) >= 1 /\ Len(steps) \in Nat /\ Len(did) \in Nat
      /\ DOMAIN unread = 1 .. Len(unread) /\ DOMAIN steps = 1 .. Len(steps)
  BY MapFacts
<1>a. \A i \in 1 .. Len(steps) : StepFits(steps[i])
  BY MapFacts
<1>b. \A i \in 1 .. Len(unread) : EventFits(unread[i]) /\ unread[i].by \in 1 .. Len(did)
  BY MapFacts
<1>c. \A i, j \in 1 .. Len(unread) : i < j => unread[i].by < unread[j].by
  BY MapFacts
<1>2. MapInv /\ ReadAhead /\ StepsInv /\ MapCovers
  BY MapFacts
<1>3. PICK rest : /\ rest = SubSeq(unread, 1 + 1, Len(unread)) /\ unread' = rest
                  /\ rest \in Seq(ParsedEvent) /\ Len(rest) = Len(unread) - 1
                  /\ DOMAIN rest = 1 .. Len(rest) /\ Len(rest) \in Nat
                  /\ \A i \in 1 .. Len(rest) : rest[i] = unread[1 + i] /\ 1 + i \in 1 .. Len(unread)
  <2>1. 1 \in 0 .. Len(unread) /\ unread \in Seq(ParsedEvent)
    BY <1>1
  <2> QED
    BY <2>1, Rest, SMTT(30)
<1>4. 1 \in 1 .. Len(unread) /\ unread[1].by \in 1 .. Len(did) /\ unread[1].by \in Int
  BY <1>1, <1>b
<1>5. \A j \in 1 .. Len(unread') : /\ unread'[j] = unread[1 + j] /\ 1 + j \in 1 .. Len(unread)
                                   /\ unread[1].by < unread'[j].by
  <2> SUFFICES ASSUME NEW j \in 1 .. Len(rest)
               PROVE  rest[j] = unread[1 + j] /\ 1 + j \in 1 .. Len(unread) /\ unread[1].by < rest[j].by
    BY <1>3
  <2>1. rest[j] = unread[1 + j] /\ 1 + j \in 1 .. Len(unread) /\ 1 < 1 + j
    BY <1>3
  <2> QED
    BY <1>4, <1>c, <2>1
<1>6. DOMAIN unread' = 1 .. Len(unread') /\ unread' \in Seq(ParsedEvent) /\ Len(unread') = Len(unread) - 1
  BY <1>3
<1>7. \A i \in 1 .. Len(steps) : \A m \in From(steps[i]), j \in 1 .. Len(unread) : m < unread[j].by
  BY <1>1, <1>2 DEF ReadAhead
<1>8. MappedTypes'
  <2>1. did \in Seq(Action) /\ Len(did) <= MaxActions /\ MaxActions \in Nat
    BY Types, FlowAssumption DEF IInv, CaptureTypes
  <2>2. unread[1].by \in 1 .. MaxActions
    BY <1>1, <1>4, <2>1
  <2> QED
    BY <1>1, <1>6, <2>2 DEF MappedTypes
<1>9. ReadAhead'
  <2>1. \A i, j \in 1 .. Len(unread') : i < j => unread'[i].by < unread'[j].by
    <3> SUFFICES ASSUME NEW i \in 1 .. Len(unread'), NEW j \in 1 .. Len(unread'), i < j
                 PROVE  unread'[i].by < unread'[j].by
      OBVIOUS
    <3>1. 1 + i < 1 + j
      OBVIOUS
    <3> QED
      BY <1>5, <1>c, <3>1
  <2>2. Rising(unread)'
    BY <1>6, <2>1 DEF Rising
  <2>3. ASSUME NEW i \in 1 .. Len(unread') PROVE EventFits(unread[i])' /\ SeenRightly(unread[i])'
    <3>1. EventFits(unread'[i]) /\ SeenRightly(unread'[i])
      BY <1>1, <1>2, <1>5 DEF ReadAhead
    <3> QED
      BY <3>1, SureStays DEF EventFits, SeenRightly, IsTouch
  <2>4. \A i \in 1 .. Len(steps) : \A m \in From(steps[i]), j \in 1 .. Len(unread') : m < unread'[j].by
    BY <1>5, <1>7
  <2>5. \A m \in warned', j \in 1 .. Len(unread') : m < unread'[j].by
    BY <1>1, <1>2, <1>5 DEF ReadAhead
  <2>6. \A i \in DOMAIN steps : From(steps[i])' = From(steps[i])
    BY DEF From
  <2> QED
    BY <1>1, <1>6, <2>2, <2>3, <2>4, <2>5, <2>6 DEF ReadAhead
<1>10. StepsInv'
  <2>1. \A i \in 1 .. Len(steps) : StepFits(steps[i])'
    <3> SUFFICES ASSUME NEW i \in 1 .. Len(steps) PROVE StepFits(steps[i])'
      OBVIOUS
    <3>1. StepFits(steps[i]) /\ steps[i] \in RecordedStep
      BY <1>1, <1>a
    <3>2. steps[i].by # << >> /\ steps[i].by \in Seq(1 .. MaxActions)
      BY <3>1 DEF StepFits, RecordedStep
    <3>3. steps[i].by[1] \in From(steps[i])
      BY <3>2 DEF From
    <3>4. steps[i].by[1] < unread[1].by
      BY <1>4, <1>7, <3>3
    <3>5. steps[i].by[1] # unread[1].by
      BY <1>4, <3>4
    <3> QED
      BY <3>1, <3>5, SureStays DEF StepFits, Acting, RightElement, IsTouch, From
  <2>2. Ordered(steps)'
    BY <1>2 DEF StepsInv, Ordered
  <2> QED
    BY <1>1, <2>1, <2>2 DEF StepsInv
<1>11. \A n : Waiting(n) => Waiting(n)' \/ unread[1].by = n
  <2> SUFFICES ASSUME NEW n, NEW i \in 1 .. Len(unread), unread[i].by = n, i # 1 PROVE Waiting(n)'
    BY <1>1 DEF Waiting
  <2>1. i - 1 \in 1 .. Len(unread') /\ 1 + (i - 1) = i
    BY <1>1, <1>6
  <2> QED
    BY <1>5, <1>6, <2>1 DEF Waiting
<1>12. MapCovers'
  <2> SUFFICES ASSUME NEW n \in 1 .. Len(did)
               PROVE  did[n].kind \in {"other", "enter"} \/ n \in warned' \/ Held(steps, n)' \/ Waiting(n)'
    BY DEF MapCovers
  <2>1. Held(steps, n) => Held(steps, n)'
    BY DEF Held, Acting, From
  <2> QED
    BY <1>2, <1>11, <2>1 DEF MapCovers
<1>13. \A n : Discounted(steps, n) => Discounted(steps, n)'
  BY DEF Discounted, Unplaced, IsTouch
<1>14. \A n \in {unread[1].by} : Discounted(steps, n)'
  BY DEF Discounted, IsTouch
<1>15. ASSUME NEW i \in DOMAIN steps, Typing(steps[i]) PROVE Typed(i)'
  <2>1. Typed(i)
    BY <1>2, <1>15 DEF MapInv
  <2>2. \A b, n : LastTouch(steps, b, n) => LastTouch(steps, b, n)'
    BY <1>13 DEF LastTouch
  <2>3. PICK j \in 1 .. i - 1, b \in 1 .. Len(did) :
            TapOf(steps[j], steps[i].element, b) /\ LastTouch(steps, b, steps[i].by[1])
    BY <2>1 DEF Typed
  <2>4. LastTouch(steps, b, steps[i].by[1])'
    BY <2>2, <2>3
  <2> QED
    BY <2>3, <2>4 DEF Typed, TapOf
<1>16. ASSUME mapper.field # NoElement PROVE FieldTapped'
  <2>1. PICK j \in DOMAIN steps, b \in 1 .. Len(did) :
            /\ TapOf(steps[j], mapper.field, b)
            /\ \A n \in b + 1 .. Len(did) : Discounted(steps, n) \/ Waiting(n)
    BY <1>2, <1>16 DEF MapInv, FieldTapped
  <2>2. \A n \in b + 1 .. Len(did) : Discounted(steps, n)' \/ Waiting(n)'
    BY <1>11, <1>13, <1>14, <2>1
  <2> QED
    BY <2>1, <2>2 DEF FieldTapped, TapOf
<1>17. MapInv'
  <2>1. flow' = << >>
    BY <1>2 DEF MapInv
  <2>2. \A i \in DOMAIN steps' : Typing(steps[i])' => Typed(i)'
    BY <1>15 DEF Typing
  <2> QED
    BY <1>9, <1>10, <1>12, <1>16, <2>1, <2>2 DEF MapInv
<1> QED
  BY <1>8, <1>17, StillMapping

\* What stems from one action.
LEMMA Single ==
  ASSUME NEW s, NEW n, s.by = <<n>>
  PROVE  From(s) = {n} /\ s.by # << >> /\ Len(s.by) = 1 /\ s.by[1] = n
<1>1. PICK by : by = <<n>> /\ by = s.by
  OBVIOUS
<1>2. DOMAIN by = {1} /\ by[1] = n /\ Len(by) = 1 /\ by # << >>
  BY <1>1
<1> QED
  BY <1>1, <1>2 DEF From

StepKinds == {"tap", "tap_element", "type_into_element", "swipe", "launch_app", "wait_for_ui"}

\* The first event that waits, and that a step made from it alone is made from it.
LEMMA FirstEvent ==
  ASSUME IInv, phase = "map", unread # << >>, NEW e, e = unread[1]
  PROVE  /\ e \in ParsedEvent /\ EventFits(e) /\ SeenRightly(e) /\ e.by \in 1 .. Len(did)
         /\ e.by \in 1 .. MaxActions
         /\ 1 \in 1 .. Len(unread)
         /\ \A by \in {<<e.by>>} : by \in Seq(1 .. MaxActions)
         /\ \A s : s.by = <<e.by>> => MadeFrom(s, 1) /\ s.by # << >> /\ Len(s.by) = 1 /\ s.by[1] = e.by /\ From(s) = {e.by}
<1>1. /\ unread \in Seq(ParsedEvent) /\ Len(unread) \in Nat /\ DOMAIN unread = 1 .. Len(unread)
      /\ ReadAhead
      /\ did \in Seq(Action) /\ Len(did) <= MaxActions /\ MaxActions \in Nat /\ Len(did) \in Nat
  BY MapFacts, FlowAssumption DEF CaptureTypes
<1>2. 1 \in 1 .. Len(unread)
  BY <1>1
<1>3. e \in ParsedEvent /\ EventFits(e) /\ SeenRightly(e)
  BY <1>1, <1>2 DEF ReadAhead
<1>4. e.by \in 1 .. Len(did)
  BY <1>3 DEF EventFits
<1>5. e.by \in 1 .. MaxActions
  BY <1>1, <1>4
<1>6. ASSUME NEW s, s.by = <<e.by>>
      PROVE  MadeFrom(s, 1) /\ s.by # << >> /\ Len(s.by) = 1 /\ s.by[1] = e.by /\ From(s) = {e.by}
  <2>1. From(s) = {e.by} /\ s.by # << >> /\ Len(s.by) = 1 /\ s.by[1] = e.by
    BY <1>6, Single
  <2> QED
    BY <2>1 DEF MadeFrom
<1>7. \A by \in {<<e.by>>} : by \in Seq(1 .. MaxActions)
  <2>1. PICK T : T = 1 .. MaxActions
    OBVIOUS
  <2>2. e.by \in T
    BY <1>5, <2>1
  <2>3. <<e.by>> \in Seq(T)
    BY <2>2
  <2> QED
    BY <2>1, <2>3
<1> QED
  BY <1>2, <1>3, <1>4, <1>5, <1>6, <1>7

\* mapRawEventsToRecordedSteps maps a swipe, home or back: the field is left.
LEMMA MapOtherKeeps ==
  ASSUME IInv, MapOther
  PROVE  IInv'
<1>1. /\ phase = "map" /\ phase' = "map" /\ unread # << >> /\ unread' = SubSeq(unread, 1 + 1, Len(unread))
      /\ unread[1].kind \in {"swipe", "home", "back"}
      /\ UNCHANGED <<did, device, now, screen, shots, lines, touch, events, warned, flow>>
      /\ mapper' = [mapper EXCEPT !.field = NoElement]
  BY DEF MapOther, Mapping, Read
<1>2. PICK e : e = unread[1]
  OBVIOUS
<1>3. /\ e \in ParsedEvent /\ EventFits(e) /\ e.by \in 1 .. Len(did) /\ 1 \in 1 .. Len(unread)
      /\ \A by \in {<<e.by>>} : by \in Seq(1 .. MaxActions)
      /\ \A s : s.by = <<e.by>> => MadeFrom(s, 1) /\ s.by # << >> /\ Len(s.by) = 1 /\ s.by[1] = e.by /\ From(s) = {e.by}
  BY <1>1, <1>2, FirstEvent
<1>4. PICK kind, s :
          /\ kind \in {"swipe", "launch_app", "wait_for_ui"}
          /\ s = Step(kind, NoElement, e.pos, <<e.by>>) /\ steps' = Append(steps, s)
  <2> DEFINE kind == CASE e.kind = "swipe" -> "swipe"
                       [] e.kind = "home" -> "launch_app"
                       [] e.kind = "back" -> "wait_for_ui"
  <2>1. kind \in {"swipe", "launch_app", "wait_for_ui"}
    BY <1>1, <1>2
  <2>2. steps' = Append(steps, Step(kind, NoElement, e.pos, <<e.by>>))
    BY <1>2 DEF MapOther
  <2> HIDE DEF kind
  <2> QED
    BY <2>1, <2>2
<1>5. s \in RecordedStep /\ s.kind = kind /\ s.element = NoElement /\ s.pos = e.pos /\ s.by = <<e.by>>
  <2>1. PICK by \in Seq(1 .. MaxActions) : by = <<e.by>>
    BY <1>3
  <2>2. e.pos \in Nat \cup {NoPoint}
    BY <1>3 DEF ParsedEvent
  <2>3. s = Step(kind, NoElement, e.pos, by)
    BY <1>4, <2>1
  <2>4. kind \in StepKinds /\ NoElement \in Elements \cup {NoElement}
    BY <1>4 DEF StepKinds
  <2>5. s \in RecordedStep /\ s.kind = kind /\ s.element = NoElement /\ s.pos = e.pos /\ s.by = by
    BY <2>1, <2>2, <2>3, <2>4 DEF Step, RecordedStep, StepKinds
  <2> QED
    BY <2>1, <2>5
<1>6. MadeFrom(s, 1) /\ s.by # << >> /\ Len(s.by) = 1 /\ s.by[1] = e.by /\ From(s) = {e.by}
  BY <1>3, <1>5
<1>7. steps' = steps \o WithWait(s)
  <2>1. WithWait(s) = <<s>>
    BY <1>5 DEF WithWait
  <2>2. PICK w : w = <<s>>
    OBVIOUS
  <2>3. steps \o w = Append(steps, s)
    BY <2>2, MapFacts, <1>1, <1>5
  <2> QED
    BY <1>4, <2>1, <2>2, <2>3
<1>8. StepFits(s) /\ Acting(s) /\ ~Typing(s)
  BY <1>3, <1>4, <1>5, <1>6 DEF StepFits, Acting, Typing
<1>9. mapper' \in MapperRecord /\ mapper'.field = NoElement
  <2>1. mapper \in MapperRecord /\ NoElement \in InputElements \cup {NoElement}
    BY <1>1, MapFacts
  <2>2. mapper' \in MapperRecord
    BY <1>1, <2>1, ZenonT(30) DEF MapperRecord
  <2>3. mapper'.field = NoElement
    BY <1>1, <2>1 DEF MapperRecord
  <2> QED
    BY <2>2, <2>3
<1> QED
  BY <1>1, <1>3, <1>5, <1>6, <1>7, <1>8, <1>9, StepAdded

\* A tap is noise, or gives the field if it hit one.
LEMMA MapTapKeeps ==
  ASSUME IInv, MapTap
  PROVE  IInv'
<1> DEFINE e == unread[1]
           el == Selector(e)
           strong == el # NoElement /\ el \notin WeakElements
<1>1. /\ phase = "map" /\ phase' = "map" /\ unread # << >> /\ unread' = SubSeq(unread, 1 + 1, Len(unread))
      /\ e.kind = "tap"
      /\ UNCHANGED <<did, device, now, screen, shots, lines, touch, events, flow>>
  BY DEF MapTap, Mapping, Read
<1>2. /\ e \in ParsedEvent /\ EventFits(e) /\ SeenRightly(e) /\ e.by \in 1 .. Len(did)
      /\ 1 \in 1 .. Len(unread)
      /\ \A by \in {<<e.by>>} : by \in Seq(1 .. MaxActions)
      /\ \A s : s.by = <<e.by>> => MadeFrom(s, 1) /\ s.by # << >> /\ Len(s.by) = 1 /\ s.by[1] = e.by /\ From(s) = {e.by}
  BY <1>1, FirstEvent
<1>3. /\ IsTouch(e.by) /\ e.pos \in Nat \cup {NoPoint} /\ e.seen \in Screens \cup {NoScreen}
      /\ e.at \in Nat
  BY <1>1, <1>2 DEF EventFits, Touches, ParsedEvent
<1>4. CASE Noisy(e)
  <2>1. warned' = warned \cup {unread[1].by} /\ UNCHANGED <<steps, mapper>>
    BY <1>4 DEF MapTap
  <2>2. did[unread[1].by].kind \in Keys \cup Touches
    BY <1>3 DEF IsTouch
  <2> QED
    BY <1>1, <2>1, <2>2, WarnedAdded
<1>5. CASE ~Noisy(e)
  <2> DEFINE field == IF e.pos = NoPoint THEN mapper.field ELSE IF strong /\ el \in InputElements THEN el ELSE NoElement
  <2>1. PICK s : s = IF strong THEN Step("tap_element", el, e.pos, <<e.by>>)
                               ELSE Step("tap", NoElement, e.pos, <<e.by>>)
    OBVIOUS
  <2>2. /\ mapper' = [lastTap |-> [pos |-> e.pos, at |-> e.at], field |-> field]
        /\ steps' = steps \o WithWait(s) /\ warned' = warned
    BY <1>5, <2>1 DEF MapTap
  <2>3. /\ el \in Elements \cup {NoElement}
        /\ (el # NoElement => e.pos # NoPoint /\ e.seen # NoScreen /\ el = Hit(e.seen, e.pos))
    <3>1. CASE e.pos = NoPoint \/ e.seen = NoScreen
      BY <3>1 DEF Selector
    <3>2. CASE e.pos # NoPoint /\ e.seen \in Screens
      BY <3>2, HitsElement DEF Selector
    <3> QED
      BY <1>3, <3>1, <3>2
  <2>4. mapper.field \in InputElements \cup {NoElement}
    <3>1. mapper \in MapperRecord
      BY <1>1, MapFacts
    <3> QED
      BY <3>1 DEF MapperRecord
  <2>5. /\ field \in InputElements \cup {NoElement}
        /\ e.pos = NoPoint => field = mapper.field /\ ~strong
        /\ e.pos # NoPoint /\ field # NoElement => strong /\ field = el
    BY <2>3, <2>4
  <2> HIDE DEF el, field
  <2>6. mapper'.field = field /\ mapper' \in MapperRecord
    <3>1. PICK last : last = [pos |-> e.pos, at |-> e.at] /\ last \in [pos : Nat \cup {NoPoint}, at : Nat]
      <4>1. [pos |-> e.pos, at |-> e.at] \in [pos : Nat \cup {NoPoint}, at : Nat]
        BY <1>3
      <4> QED
        BY <4>1, Zenon
    <3>2. mapper' = [lastTap |-> last, field |-> field]
      BY <2>2, <3>1
    <3> QED
      BY <2>5, <3>1, <3>2 DEF MapperRecord
  <2>7. /\ s \in RecordedStep /\ s.pos = e.pos /\ s.by = <<e.by>>
        /\ s.kind = IF strong THEN "tap_element" ELSE "tap"
        /\ strong => s.element = el
        /\ ~strong => s.element = NoElement
    <3>1. PICK by \in Seq(1 .. MaxActions) : by = <<e.by>>
      BY <1>2
    <3>2. CASE strong
      <4>1. s = Step("tap_element", el, e.pos, by)
        BY <2>1, <3>1, <3>2
      <4>2. s \in RecordedStep /\ s.kind = "tap_element" /\ s.element = el /\ s.pos = e.pos /\ s.by = by
        <5>1. /\ "tap_element" \in StepKinds /\ el \in Elements \cup {NoElement}
              /\ e.pos \in Nat \cup {NoPoint}
          BY <1>3, <2>3 DEF StepKinds
        <5> QED
          BY <3>1, <4>1, <5>1 DEF Step, RecordedStep, StepKinds
      <4> QED
        BY <3>1, <3>2, <4>2
    <3>3. CASE ~strong
      <4>1. s = Step("tap", NoElement, e.pos, by)
        BY <2>1, <3>1, <3>3
      <4>2. s \in RecordedStep /\ s.kind = "tap" /\ s.element = NoElement /\ s.pos = e.pos /\ s.by = by
        <5>1. /\ "tap" \in StepKinds /\ NoElement \in Elements \cup {NoElement}
              /\ e.pos \in Nat \cup {NoPoint}
          BY <1>3 DEF StepKinds
        <5> QED
          BY <3>1, <4>1, <5>1 DEF Step, RecordedStep, StepKinds
      <4> QED
        BY <3>1, <3>3, <4>2
    <3> QED
      BY <3>2, <3>3
  <2>8. MadeFrom(s, 1) /\ s.by # << >> /\ Len(s.by) = 1 /\ s.by[1] = e.by /\ From(s) = {e.by}
    BY <1>2, <2>7
  <2>9. s.kind \in {"tap", "tap_element"} /\ Acting(s) /\ ~Typing(s)
    BY <2>7 DEF Acting, Typing
  <2>10. e.by \notin warned
    <3>1. ReadAhead /\ DOMAIN unread = 1 .. Len(unread)
      BY <1>1, MapFacts
    <3>2. e.by \in warned => e.by < e.by
      BY <1>2, <3>1 DEF ReadAhead
    <3>3. ~(e.by < e.by)
      BY <1>2
    <3> QED
      BY <3>2, <3>3
  <2>11. s.kind = "tap_element" => RightElement(s) /\ s.element # NoElement
    <3> SUFFICES ASSUME s.kind = "tap_element", Sure(e.by) PROVE s.element = did[e.by].element
      BY <2>7, <2>8 DEF RightElement
    <3>1. strong /\ s.element = el
      BY <2>7
    <3> QED
      BY <1>1, <1>2, <2>3, <3>1 DEF SeenRightly
  <2>12. StepFits(s)
    BY <1>2, <1>3, <2>8, <2>9, <2>10, <2>11 DEF StepFits
  <2>13. mapper'.field # NoElement => FieldAfter(s, 1, mapper'.field)
    <3>1. CASE e.pos = NoPoint
      BY <1>3, <2>5, <2>6, <2>7, <3>1 DEF FieldAfter
    <3>2. CASE e.pos # NoPoint
      BY <2>5, <2>6, <2>7, <3>2 DEF FieldAfter, TapOf
    <3> QED
      BY <3>1, <3>2
  <2> QED
    BY <1>1, <1>2, <2>2, <2>6, <2>7, <2>8, <2>9, <2>12, <2>13, StepAdded
<1> QED
  BY <1>4, <1>5

\* A chunk is not empty, and all its events are text.
LEMMA ChunkIsText ==
  ASSUME IInv, phase = "map", unread # << >>, NEW n, n = ChunkLength
  PROVE  n \in 1 .. Len(unread) /\ \A i \in 2 .. n : Follows(i)
<1>1. Len(unread) \in Nat /\ 1 \in 1 .. Len(unread)
  BY MapFacts, FirstEvent
<1> DEFINE Chunks == {m \in 1..Len(unread) : \A i \in 2..m : Follows(i)}
<1>2. 1 \in Chunks
  BY <1>1
<1>3. Chunks \in SUBSET (0 .. Len(unread)) /\ Chunks # {}
  BY <1>1, <1>2
<1>4. Max(Chunks) \in Chunks
  <2> HIDE DEF Chunks
  <2> QED
    BY <1>1, <1>3, MaxOfPositions
<1>5. n = Max(Chunks)
  BY DEF ChunkLength
<1> QED
  BY <1>4, <1>5

\* A chunk of text goes into the mapper's field; a delimiter is dropped.
LEMMA MapTypeKeeps ==
  ASSUME IInv, MapType
  PROVE  IInv'
<1> DEFINE e == unread[1]
<1>1. /\ phase = "map" /\ phase' = "map" /\ unread # << >> /\ e.kind = "type"
      /\ UNCHANGED <<did, device, now, screen, shots, lines, touch, events, mapper, flow>>
  BY DEF MapType, Mapping
<1>2. /\ unread \in Seq(ParsedEvent) /\ Len(unread) \in Nat
      /\ \A i \in 1 .. Len(unread) : unread[i] \in ParsedEvent /\ EventFits(unread[i]) /\ unread[i].by \in 1 .. MaxActions
  <2>1. /\ unread \in Seq(ParsedEvent) /\ Len(unread) \in Nat
        /\ \A i \in 1 .. Len(unread) : EventFits(unread[i])
    BY <1>1, MapFacts
  <2>2. \A i \in 1 .. Len(unread) : unread[i] \in ParsedEvent
    BY <2>1
  <2> QED
    BY <2>1, <2>2 DEF ParsedEvent
<1>3. \A i \in 1 .. Len(unread) : unread[i].kind = "type" => /\ did[unread[i].by].kind = unread[i].key
                                                            /\ unread[i].key \in Keys
  BY <1>2 DEF EventFits, ParsedEvent
<1>4. 1 \in 1 .. Len(unread)
  BY <1>1, FirstEvent
<1>5. CASE e.key # "letter"
  <2>1. /\ warned' = warned \cup {unread[1].by} /\ unread' = SubSeq(unread, 1 + 1, Len(unread))
        /\ UNCHANGED steps
    BY <1>5 DEF MapType, Read
  <2>2. did[unread[1].by].kind \in Keys \cup Touches
    BY <1>1, <1>3, <1>4
  <2> QED
    BY <1>1, <2>1, <2>2, WarnedAdded
<1>6. CASE e.key = "letter"
  <2>1. PICK n : n = ChunkLength
    OBVIOUS
  <2>2. n \in 1 .. Len(unread) /\ \A i \in 2 .. n : Follows(i)
    BY <1>1, <2>1, ChunkIsText
  <2>3. PICK r, by : r = (IF Delimited(n) THEN n + 1 ELSE n) /\ by = [i \in 1..n |-> unread[i].by]
    OBVIOUS
  <2>4. PICK s : s = Step("type_into_element", mapper.field, NoPoint, by)
    OBVIOUS
  <2>5. /\ steps' = steps \o WithWait(s) /\ unread' = SubSeq(unread, r + 1, Len(unread))
        /\ warned' = warned
    BY <1>6, <2>1, <2>3, <2>4 DEF MapType, Read
  <2>6. by \in Seq(1 .. MaxActions) /\ Len(by) = n /\ \A i \in 1 .. n : by[i] = unread[i].by
    <3>1. n \in Nat /\ \A i \in 1 .. n : i \in 1 .. Len(unread)
      BY <1>2, <2>2
    <3>2. PICK S : S = 1 .. MaxActions
      OBVIOUS
    <3>3. \A i \in 1 .. n : unread[i].by \in S
      BY <1>2, <3>1, <3>2
    <3>4. by = [i \in 1..n |-> unread[i].by]
      BY <2>3
    <3>5. by \in Seq(S) /\ Len(by) = n
      BY <3>1, <3>3, <3>4
    <3> QED
      BY <3>2, <3>4, <3>5
  <2>7. mapper \in MapperRecord /\ mapper' \in MapperRecord /\ mapper.field \in Elements \cup {NoElement}
    <3>1. mapper \in MapperRecord
      BY <1>1, MapFacts
    <3> QED
      BY <1>1, <3>1, FlowAssumption DEF MapperRecord
  <2>8. s \in RecordedStep /\ s.kind = "type_into_element" /\ s.element = mapper.field /\ s.by = by
    <3>1. "type_into_element" \in StepKinds /\ NoPoint \in Nat \cup {NoPoint}
      BY DEF StepKinds
    <3>2. by \in Seq(1 .. MaxActions) /\ mapper.field \in Elements \cup {NoElement}
      BY <2>6, <2>7
    <3> QED
      BY <2>4, <3>1, <3>2, <2>6 DEF Step, RecordedStep, StepKinds
  <2>9. From(s) = {unread[i].by : i \in 1 .. n}
    <3>1. DOMAIN by = 1 .. n /\ From(s) = {by[i] : i \in DOMAIN by}
      BY <2>3, <2>8 DEF From
    <3> QED
      BY <2>6, <3>1
  <2>10. \A i \in 1 .. n : unread[i].kind = "type"
    BY <1>1, <2>2 DEF Follows
  <2>11. /\ r \in 1 .. Len(unread)
         /\ \A i \in 1 .. r : i \in 1 .. n \/ (i = n + 1 /\ unread[i].kind = "type" /\ unread[i].key = "enter")
    <3>1. CASE Delimited(n)
      BY <1>2, <2>2, <2>3, <3>1 DEF Delimited
    <3>2. CASE ~Delimited(n)
      BY <1>2, <2>2, <2>3, <3>2
    <3> QED
      BY <3>1, <3>2
  <2>12. \A i \in 1 .. r : i \in 1 .. Len(unread) /\ did[unread[i].by].kind \in Keys
                           /\ (unread[i].by \in From(s) \/ did[unread[i].by].kind \in {"other", "enter"})
    <3> SUFFICES ASSUME NEW i \in 1 .. r
                 PROVE  i \in 1 .. Len(unread) /\ did[unread[i].by].kind \in Keys
                        /\ (unread[i].by \in From(s) \/ did[unread[i].by].kind \in {"other", "enter"})
      OBVIOUS
    <3>1. i \in 1 .. Len(unread)
      BY <1>2, <2>11
    <3> QED
      BY <1>3, <2>9, <2>10, <2>11, <3>1
  <2>13. MadeFrom(s, r)
    <3>1. s.by[1] = unread[1].by
      BY <2>2, <2>6, <2>8
    <3>2. \A m \in From(s) : \E i \in 1 .. r : m = unread[i].by
      <4>1. \A i \in 1 .. n : i \in 1 .. r
        BY <1>2, <2>2, <2>3
      <4> QED
        BY <2>9, <4>1
    <3> QED
      BY <2>12, <3>1, <3>2 DEF MadeFrom
  <2>14. StepFits(s) /\ Acting(s)
    <3>1. s.by # << >>
      BY <1>2, <2>2, <2>6, <2>8
    <3>2. From(s) \subseteq 1 .. Len(did)
      <4>1. \A i \in 1 .. n : unread[i].by \in 1 .. Len(did)
        BY <1>2, <2>2 DEF EventFits
      <4> QED
        BY <2>9, <4>1
    <3> QED
      BY <2>8, <3>1, <3>2 DEF StepFits, Acting
  <2>15. mapper'.field # NoElement => FieldAfter(s, r, mapper'.field)
    BY <1>1, <2>12 DEF FieldAfter
  <2> QED
    BY <1>1, <2>5, <2>7, <2>8, <2>11, <2>13, <2>14, <2>15, StepAdded
<1> QED
  BY <1>5, <1>6

-----------------------------------------------------------------------------
(* The renderer.                                                              *)
\* The renderer is given the steps.
LEMMA EndMappingKeeps ==
  ASSUME IInv, EndMapping
  PROVE  IInv'
<1>1. /\ phase = "map" /\ phase' = "render" /\ unread = << >> /\ unread' = steps
      /\ UNCHANGED <<did, device, now, screen, shots, lines, touch, events, mapper, steps, warned, flow>>
  BY DEF EndMapping
<1>2. /\ CaptureTypes /\ MappedTypes /\ MapInv /\ StepsInv /\ MapCovers /\ flow = << >>
      /\ steps \in Seq(RecordedStep) /\ DOMAIN unread = {}
  BY <1>1, MapFacts DEF MapInv
<1>3. TypeOK'
  <2>1. CaptureTypes' /\ MappedTypes'
    BY <1>1, <1>2 DEF CaptureTypes, MappedTypes
  <2> QED
    BY <1>1, <2>1, Zenon DEF TypeOK, CaptureTypes, MappedTypes, LineRecord, TouchRecord, MapperRecord, Shot
<1>4. DOMAIN flow' = {}
  BY <1>1, <1>2
<1>5. Ordered(unread)' /\ \A i \in DOMAIN unread' : StepFits(unread[i])'
  <2>1. Ordered(steps) /\ \A i \in DOMAIN steps : StepFits(steps[i])
    BY <1>2 DEF StepsInv
  <2>2. \A i \in DOMAIN unread' : StepFits(unread'[i])
    BY <1>1, <2>1
  <2>3. ASSUME NEW i \in DOMAIN unread' PROVE StepFits(unread[i])'
    <3>1. StepFits(unread'[i])
      BY <2>2
    <3> QED
      BY <1>1, <3>1, SureStays DEF StepFits, RightElement, IsTouch
  <2>4. Ordered(unread')
    BY <1>1, <2>1
  <2> QED
    BY <2>3, <2>4
<1>6. \A n \in 1 .. Len(did) : did[n].kind \in {"other", "enter"} \/ n \in warned \/ Held(unread, n)'
  <2>1. \A n \in 1 .. Len(did) : did[n].kind \in {"other", "enter"} \/ n \in warned \/ Held(steps, n)
    BY <1>2 DEF MapCovers, Waiting
  <2>2. \A n : Held(steps, n) => Held(unread', n)
    BY <1>1
  <2> QED
    BY <2>1, <2>2
<1>7. \A b, n : LastTouch(steps, b, n) => LastTouch(unread, b, n)'
  <2>1. \A n : Discounted(steps, n) => Discounted(unread, n)'
    BY <1>1 DEF Discounted, IsTouch, Unplaced
  <2> QED
    BY <2>1 DEF LastTouch
<1>8. ASSUME NEW i \in DOMAIN unread', Typing(unread'[i]) PROVE ToType(i)'
  <2>1. Typed(i)
    BY <1>1, <1>2, <1>8 DEF MapInv
  <2>2. PICK j \in 1 .. i - 1, b \in 1 .. Len(did) :
            TapOf(steps[j], steps[i].element, b) /\ LastTouch(steps, b, steps[i].by[1])
    BY <2>1 DEF Typed
  <2>3. LastTouch(unread, b, unread[i].by[1])'
    BY <1>1, <1>7, <2>2
  <2> QED
    BY <1>1, <2>2, <2>3 DEF ToType
<1>9. FlowInOrder'
  BY <1>4 DEF FlowInOrder
<1>10. RenderInv'
  <2>1. \A i \in DOMAIN unread' : Typing(unread[i])' => ToType(i)'
    BY <1>8
  <2> QED
    BY <1>1, <1>4, <1>5, <1>6, <1>9, <2>1 DEF RenderInv
<1> QED
  BY <1>1, <1>3, <1>10 DEF IInv, CaptureInv, MapInv

\* What renderRecordedStepsAsFlow makes of a step: the commands stem from the same actions, at
\* most the last of them replays, and a step that acts is left out only if it has no position.
LEMMA RendersTo ==
  ASSUME NEW s \in RecordedStep, NEW r, r = Rendered(s)
  PROVE  /\ r \in Seq(Command) /\ Len(r) \in Nat /\ DOMAIN r = 1 .. Len(r)
         /\ \A i \in 1 .. Len(r) :
              /\ r[i].by = s.by /\ r[i].element = s.element
              /\ r[i].kind = "tapOn" => s.kind = "tap_element"
              /\ r[i].kind = "focus" => Typing(s)
              /\ Replays(r[i]) => Acting(s) /\ i = Len(r)
         /\ r = << >> => (s.kind = "tap" /\ s.pos = NoPoint) \/ (s.kind = "wait_for_ui" /\ s.element = NoElement)
         /\ r # << >> /\ Acting(s) => Len(r) > 0 /\ Replays(r[Len(r)])
         /\ s.kind = "tap_element" => Len(r) = 1 /\ r[1].kind = "tapOn"
         /\ s.kind = "tap" /\ s.pos = NoPoint => r = << >>
<1>1. \A kind \in {"tapOn", "tapPoint", "focus", "inputText", "swipe", "launchApp", "assertVisible"} :
        \A c :
          c = [s EXCEPT !.kind = kind] =>
              c \in Command /\ c.kind = kind /\ c.by = s.by /\ c.element = s.element
  BY DEF RecordedStep, Command
<1>2. ASSUME NEW kind \in {"tapOn", "tapPoint", "focus", "inputText", "swipe", "launchApp", "assertVisible"},
             NEW c, r = <<c>>, c = [s EXCEPT !.kind = kind]
      PROVE  /\ r \in Seq(Command) /\ Len(r) = 1 /\ r # << >> /\ DOMAIN r = 1 .. Len(r)
             /\ r[1].kind = kind /\ r[1].by = s.by /\ r[1].element = s.element
  <2>1. c \in Command /\ c.kind = kind /\ c.by = s.by /\ c.element = s.element
    BY <1>1, <1>2
  <2>2. r \in Seq(Command) /\ Len(r) = 1 /\ r[1] = c
    BY <1>2, <2>1
  <2>3. DOMAIN r = 1 .. Len(r) /\ r # << >>
    BY <2>2
  <2> QED
    BY <2>1, <2>2, <2>3
<1>3. s.kind \in {"tap", "tap_element", "type_into_element", "swipe", "launch_app", "wait_for_ui"}
  BY DEF RecordedStep
<1>4. CASE s.kind = "launch_app"
  <2>1. PICK c : r = <<c>> /\ c = [s EXCEPT !.kind = "launchApp"]
    BY <1>4 DEF Rendered
  <2> QED
    BY <1>2, <1>4, <2>1 DEF Replays, Acting
<1>5. CASE s.kind = "tap_element"
  <2>1. PICK c : r = <<c>> /\ c = [s EXCEPT !.kind = "tapOn"]
    BY <1>5 DEF Rendered
  <2> QED
    BY <1>2, <1>5, <2>1 DEF Replays, Acting
<1>6. CASE s.kind = "tap"
  <2>1. CASE s.pos # NoPoint
    <3>1. PICK c : r = <<c>> /\ c = [s EXCEPT !.kind = "tapPoint"]
      BY <1>6, <2>1 DEF Rendered
    <3> QED
      BY <1>2, <1>6, <2>1, <3>1, SMTT(30) DEF Replays, Acting
  <2>2. CASE s.pos = NoPoint
    <3>1. r = << >>
      BY <1>6, <2>2 DEF Rendered
    <3> QED
      BY <1>6, <2>2, <3>1
  <2> QED
    BY <2>1, <2>2
<1>7. CASE s.kind = "swipe"
  <2>1. r = <<s>>
    BY <1>7 DEF Rendered
  <2>2. s = [s EXCEPT !.kind = "swipe"]
    BY <1>7 DEF RecordedStep
  <2> QED
    BY <1>2, <1>7, <2>1, <2>2 DEF Replays, Acting
<1>8. CASE s.kind = "wait_for_ui"
  <2>1. CASE s.element # NoElement
    <3>1. PICK c : r = <<c>> /\ c = [s EXCEPT !.kind = "assertVisible"]
      BY <1>8, <2>1 DEF Rendered
    <3> QED
      BY <1>2, <1>8, <2>1, <3>1 DEF Replays, Acting
  <2>2. CASE s.element = NoElement
    <3>1. r = << >>
      BY <1>8, <2>2 DEF Rendered
    <3> QED
      BY <1>8, <2>2, <3>1
  <2> QED
    BY <2>1, <2>2
<1>9. CASE s.kind = "type_into_element"
  <2>1. PICK f, c : f = [s EXCEPT !.kind = "focus"] /\ c = [s EXCEPT !.kind = "inputText"]
    OBVIOUS
  <2>2. f \in Command /\ f.kind = "focus" /\ f.by = s.by /\ f.element = s.element
    BY <1>1, <2>1
  <2>3. c \in Command /\ c.kind = "inputText" /\ c.by = s.by /\ c.element = s.element
    BY <1>1, <2>1
  <2>4. r = (IF s.element = NoElement THEN << >> ELSE <<f>>) \o <<c>>
    BY <1>9, <2>1 DEF Rendered
  <2>5. CASE s.element = NoElement
    <3>1. r \in Seq(Command) /\ Len(r) = 1 /\ r[1] = c
      BY <2>3, <2>4, <2>5
    <3>2. DOMAIN r = 1 .. 1 /\ r # << >>
      BY <3>1
    <3>3. \A i \in 1 .. 1 : i = 1
      OBVIOUS
    <3> QED
      BY <1>9, <2>3, <3>1, <3>2, <3>3 DEF Replays, Acting
  <2>6. CASE s.element # NoElement
    <3>1. r = <<f>> \o <<c>>
      BY <2>4, <2>6
    <3>2. r \in Seq(Command) /\ Len(r) = 2 /\ r[1] = f /\ r[2] = c
      BY <2>2, <2>3, <3>1
    <3>a. DOMAIN r = 1 .. Len(r) /\ r # << >>
      <4>1. r \in Seq(Command) /\ Len(r) = 2
        BY <3>2
      <4>2. DOMAIN r = 1 .. Len(r)
        BY <4>1
      <4>3. r # << >>
        BY <4>1
      <4> QED
        BY <4>2, <4>3
    <3>3. DOMAIN r = 1 .. 2 /\ r # << >> /\ Acting(s) /\ Typing(s)
      BY <1>9, <2>6, <3>2, <3>a DEF Acting, Typing
    <3>4. ~Replays(r[1]) /\ Replays(r[2]) /\ r[1].kind # "tapOn" /\ r[2].kind \notin {"tapOn", "focus"}
      BY <2>2, <2>3, <3>2 DEF Replays
    <3>5. \A i \in 1 .. Len(r) : i = 1 \/ i = 2
      BY <3>2
    <3> QED
      BY <1>9, <2>2, <2>3, <3>2, <3>3, <3>4, <3>5
  <2> QED
    BY <2>5, <2>6
<1> QED
  BY <1>3, <1>4, <1>5, <1>6, <1>7, <1>8, <1>9

\* What the invariant says from the render phase on.
LEMMA RenderFacts ==
  ASSUME IInv, phase \in {"render", "done"}
  PROVE  /\ CaptureTypes /\ MappedTypes
         /\ unread \in Seq(RecordedStep) /\ flow \in Seq(Command)
         /\ Len(unread) \in Nat /\ Len(flow) \in Nat /\ Len(did) \in Nat
         /\ DOMAIN unread = 1 .. Len(unread) /\ DOMAIN flow = 1 .. Len(flow)
         /\ Ordered(unread)
         /\ \A i \in DOMAIN unread : StepFits(unread[i])
         /\ \A i \in DOMAIN flow : CommandFits(flow[i])
         /\ \A i \in DOMAIN flow, j \in DOMAIN unread :
               Replays(flow[i]) /\ Acting(unread[j]) => Before(flow[i], unread[j])
         /\ FlowInOrder
         /\ \A n \in 1 .. Len(did) :
              did[n].kind \in {"other", "enter"} \/ n \in warned \/ Held(unread, n) \/ Replayed(n)
         /\ \A i \in DOMAIN unread : Typing(unread[i]) => ToType(i)
         /\ \A i \in DOMAIN flow : flow[i].kind = "focus" => Focused(i)
<1>1. CaptureTypes /\ MappedTypes
  BY Types DEF IInv
<1>2. unread \in Seq(RecordedStep) /\ flow \in Seq(Command) /\ did \in Seq(Action)
  BY <1>1 DEF MappedTypes, CaptureTypes
<1>3. /\ Len(unread) \in Nat /\ Len(flow) \in Nat /\ Len(did) \in Nat
      /\ DOMAIN unread = 1 .. Len(unread) /\ DOMAIN flow = 1 .. Len(flow)
  BY <1>2
<1> QED
  BY <1>1, <1>2, <1>3, Zenon DEF IInv, RenderInv

\* A step is rendered, or left out with a warning.
LEMMA RenderStepKeeps ==
  ASSUME IInv, RenderStep
  PROVE  IInv'
<1>1. /\ phase = "render" /\ phase' = "render" /\ unread # << >>
      /\ unread' = SubSeq(unread, 1 + 1, Len(unread))
      /\ UNCHANGED <<did, device, now, screen, shots, lines, touch, events, mapper, steps>>
  BY DEF RenderStep, Read
<1>2. PICK s, r : s = unread[1] /\ r = Rendered(s)
  OBVIOUS
<1>3. flow' = flow \o r /\ warned' = IF r = << >> THEN warned \cup {s.by[1]} ELSE warned
  BY <1>2 DEF RenderStep
<1>4. /\ unread \in Seq(RecordedStep) /\ flow \in Seq(Command)
      /\ Len(unread) \in Nat /\ Len(flow) \in Nat /\ Len(did) \in Nat
      /\ DOMAIN unread = 1 .. Len(unread) /\ DOMAIN flow = 1 .. Len(flow)
  BY <1>1, RenderFacts
<1>5. 1 \in 1 .. Len(unread) /\ s \in RecordedStep /\ StepFits(s)
  <2>1. 1 \in 1 .. Len(unread) /\ s \in RecordedStep
    BY <1>1, <1>2, <1>4
  <2>2. \A i \in DOMAIN unread : StepFits(unread[i])
    BY <1>1, RenderFacts
  <2> QED
    BY <1>2, <1>4, <2>1, <2>2
<1>6. /\ unread' \in Seq(RecordedStep) /\ Len(unread') = Len(unread) - 1 /\ Len(unread') \in Nat
      /\ DOMAIN unread' = 1 .. Len(unread')
      /\ \A i \in 1 .. Len(unread') : unread'[i] = unread[1 + i] /\ 1 + i \in 1 .. Len(unread)
  <2>1. PICK n : n = 1
    OBVIOUS
  <2>2. n \in 0 .. Len(unread) /\ unread \in Seq(RecordedStep)
    BY <1>4, <1>5, <2>1
  <2>3. PICK rest : rest = SubSeq(unread, n + 1, Len(unread)) /\ unread' = rest
    BY <1>1, <2>1
  <2>4. /\ rest \in Seq(RecordedStep) /\ Len(rest) = Len(unread) - n
        /\ DOMAIN rest = 1 .. Len(rest) /\ Len(rest) \in Nat
        /\ \A i \in 1 .. Len(rest) : rest[i] = unread[n + i] /\ n + i \in 1 .. Len(unread)
    BY <2>2, <2>3, Rest
  <2> QED
    BY <2>1, <2>3, <2>4
<1>7. /\ r \in Seq(Command) /\ Len(r) \in Nat
      /\ r = << >> => (s.kind = "tap" /\ s.pos = NoPoint) \/ (s.kind = "wait_for_ui" /\ s.element = NoElement)
      /\ r # << >> /\ Acting(s) => Len(r) > 0 /\ Replays(r[Len(r)])
      /\ s.kind = "tap_element" => Len(r) = 1 /\ r[1].kind = "tapOn"
      /\ s.kind = "tap" /\ s.pos = NoPoint => r = << >>
  BY <1>2, <1>5, RendersTo
<1>8. \A k \in 1 .. Len(r) :
         /\ r[k].by = s.by /\ r[k].element = s.element
         /\ r[k].kind = "tapOn" => s.kind = "tap_element"
         /\ r[k].kind = "focus" => Typing(s)
         /\ Replays(r[k]) => Acting(s) /\ k = Len(r)
  BY <1>2, <1>5, RendersTo
<1>9. /\ flow' \in Seq(Command) /\ Len(flow') = Len(flow) + Len(r)
      /\ \A i \in 1 .. Len(flow) : flow'[i] = flow[i]
      /\ \A k \in 1 .. Len(r) : flow'[Len(flow) + k] = r[k]
  BY <1>3, <1>4, <1>7, Joined
<1>10. DOMAIN flow' = 1 .. Len(flow') /\ Len(flow') \in Nat
  BY <1>4, <1>7, <1>9
<1>11. \A i \in 1 .. Len(flow') : \/ i \in 1 .. Len(flow) /\ flow'[i] = flow[i]
                                  \/ \E k \in 1 .. Len(r) : i = Len(flow) + k /\ flow'[i] = r[k]
  <2> SUFFICES ASSUME NEW i \in 1 .. Len(flow'), i > Len(flow)
               PROVE  \E k \in 1 .. Len(r) : i = Len(flow) + k /\ flow'[i] = r[k]
    <3>1. \A i \in 1 .. Len(flow') : ~(i > Len(flow)) => i \in 1 .. Len(flow)
      BY <1>4, <1>10
    <3> QED
      BY <1>9, <3>1
  <2>1. i - Len(flow) \in 1 .. Len(r) /\ i = Len(flow) + (i - Len(flow))
    BY <1>4, <1>7, <1>9
  <2>2. PICK k \in 1 .. Len(r) : i = Len(flow) + k
    BY <2>1
  <2>3. flow'[Len(flow) + k] = r[k]
    BY <1>9
  <2> QED
    BY <2>2, <2>3
<1>12. \A i \in DOMAIN flow : i \in DOMAIN flow' /\ flow'[i] = flow[i]
  BY <1>4, <1>7, <1>9, <1>10
<1>13. \A k \in 1 .. Len(r) : Len(flow) + k \in DOMAIN flow' /\ From(r[k]) = From(s)
  <2>1. \A k \in 1 .. Len(r) : From(r[k]) = From(s)
    BY <1>8 DEF From
  <2>2. \A k \in 1 .. Len(r) : Len(flow) + k \in 1 .. Len(flow')
    BY <1>4, <1>7, <1>9
  <2> QED
    BY <1>10, <2>1, <2>2
<1>14. /\ s.by # << >> /\ s.by \in Seq(1 .. MaxActions) /\ s.by[1] \in From(s)
       /\ s.by[1] \in 1 .. Len(did) /\ s.by[1] \in Int
  <2>1. s.by # << >> /\ s.by \in Seq(1 .. MaxActions) /\ From(s) \subseteq 1 .. Len(did)
    BY <1>5 DEF StepFits, RecordedStep
  <2>2. s.by[1] \in From(s)
    BY <2>1 DEF From
  <2> QED
    BY <1>4, <2>1, <2>2
<1>15. r = << >> => Acting(s) /\ Len(s.by) = 1 /\ From(s) = {s.by[1]}
  <2>1. r = << >> => Acting(s) /\ s.kind # "type_into_element"
    BY <1>7 DEF Acting
  <2>2. r = << >> => Len(s.by) = 1
    BY <1>5, <2>1 DEF StepFits
  <2>3. Len(s.by) = 1 => From(s) = {s.by[1]}
    <3> SUFFICES ASSUME Len(s.by) = 1 PROVE From(s) = {s.by[1]}
      OBVIOUS
    <3>1. DOMAIN s.by = 1 .. 1
      BY <1>14
    <3>2. DOMAIN s.by = {1}
      BY <3>1
    <3> QED
      BY <3>2 DEF From
  <2> QED
    BY <2>1, <2>2, <2>3
<1>16. \A m : m \in warned' => m \in warned \/ (m = s.by[1] /\ r = << >>)
  BY <1>3
<1>17. \A m : m \in warned => m \in warned'
  BY <1>3
<1>18. \A j \in 1 .. Len(unread') : Acting(s) /\ Acting(unread'[j]) => Before(s, unread'[j])
  <2> SUFFICES ASSUME NEW j \in 1 .. Len(unread'), Acting(s), Acting(unread'[j]) PROVE Before(s, unread'[j])
    OBVIOUS
  <2>1. Ordered(unread)
    BY <1>1, RenderFacts
  <2>2. 1 + j \in DOMAIN unread /\ 1 \in DOMAIN unread /\ 1 < 1 + j /\ unread'[j] = unread[1 + j]
    BY <1>4, <1>5, <1>6
  <2> QED
    BY <1>2, <2>1, <2>2 DEF Ordered
<1>19. TypeOK'
  <2>1. s.by[1] \in 1 .. MaxActions
    <3>1. PICK by, S : by = s.by /\ S = 1 .. MaxActions
      OBVIOUS
    <3>2. by \in Seq(S) /\ by # << >>
      BY <1>14, <3>1
    <3>3. by[1] \in S
      BY <3>2
    <3> QED
      BY <3>1, <3>3
  <2>2. CaptureTypes /\ MappedTypes
    BY <1>1, RenderFacts
  <2>3. warned' \subseteq 1 .. MaxActions
    BY <1>16, <2>1, <2>2 DEF MappedTypes
  <2>4. MappedTypes'
    BY <1>1, <1>6, <1>9, <2>2, <2>3 DEF MappedTypes
  <2>5. CaptureTypes'
    BY <1>1, <2>2 DEF CaptureTypes
  <2> QED
    BY <1>1, <2>4, <2>5, Zenon DEF TypeOK, CaptureTypes, MappedTypes, LineRecord, TouchRecord,
       MapperRecord, Shot
<1>20. Ordered(unread)'
  <2>1. Ordered(unread)
    BY <1>1, RenderFacts
  <2>2. Ordered(unread')
    <3> SUFFICES ASSUME NEW i \in 1 .. Len(unread'), NEW j \in 1 .. Len(unread'), i < j,
                        Acting(unread'[i]), Acting(unread'[j])
                 PROVE  Before(unread'[i], unread'[j])
      BY <1>6 DEF Ordered
    <3>1. 1 + i \in DOMAIN unread /\ 1 + j \in DOMAIN unread /\ 1 + i < 1 + j
      BY <1>4, <1>6
    <3> QED
      BY <1>6, <2>1, <3>1 DEF Ordered
  <2> QED
    BY <2>2
<1>21. ASSUME NEW j \in DOMAIN unread' PROVE StepFits(unread[j])'
  <2>1. j \in 1 .. Len(unread') /\ unread'[j] = unread[1 + j] /\ 1 + j \in DOMAIN unread
    BY <1>4, <1>6
  <2>2. StepFits(unread'[j]) /\ unread'[j] \in RecordedStep
    <3>1. \A i \in DOMAIN unread : StepFits(unread[i])
      BY <1>1, RenderFacts
    <3> QED
      BY <1>4, <2>1, <3>1
  <2>3. unread'[j].kind = "tap_element" => unread'[j].by[1] \notin warned'
    <3> SUFFICES ASSUME unread'[j].kind = "tap_element" PROVE unread'[j].by[1] \notin warned'
      OBVIOUS
    <3>1. unread'[j].by[1] \notin warned /\ Acting(unread'[j]) /\ unread'[j].by # << >>
      BY <2>2 DEF StepFits, Acting
    <3>2. unread'[j].by[1] \in From(unread'[j])
      BY <2>2, <3>1 DEF From, RecordedStep
    <3>3. Acting(s) => s.by[1] < unread'[j].by[1]
      BY <1>14, <1>18, <2>1, <3>1, <3>2 DEF Before
    <3>4. Acting(s) => s.by[1] # unread'[j].by[1]
      BY <1>14, <3>3
    <3> QED
      BY <1>15, <1>16, <3>1, <3>4
  <2> QED
    BY <1>1, <2>2, <2>3, SureStays DEF StepFits, RightElement, IsTouch
<1>22. \A i \in DOMAIN flow : Replays(flow[i]) /\ Acting(s) => Before(flow[i], s)
  <2>1. \A i \in DOMAIN flow, j \in DOMAIN unread :
               Replays(flow[i]) /\ Acting(unread[j]) => Before(flow[i], unread[j])
    BY <1>1, RenderFacts
  <2> QED
    BY <1>2, <1>4, <1>5, <2>1
<1>23. ASSUME NEW i \in DOMAIN flow' PROVE CommandFits(flow[i])'
  <2>1. CASE i \in 1 .. Len(flow) /\ flow'[i] = flow[i]
    <3>1. CommandFits(flow[i]) /\ flow[i] \in Command
      <4>1. \A n \in DOMAIN flow : CommandFits(flow[n])
        BY <1>1, RenderFacts
      <4> QED
        BY <1>4, <2>1, <4>1
    <3>2. flow[i].kind = "tapOn" => flow[i].by[1] \notin warned'
      <4> SUFFICES ASSUME flow[i].kind = "tapOn" PROVE flow[i].by[1] \notin warned'
        OBVIOUS
      <4>1. flow[i].by[1] \notin warned /\ Replays(flow[i]) /\ flow[i].by # << >>
        BY <3>1 DEF CommandFits, Replays
      <4>2. flow[i].by[1] \in From(flow[i])
        BY <3>1, <4>1 DEF From, Command
      <4>3. Acting(s) => flow[i].by[1] < s.by[1]
        BY <1>4, <1>14, <1>22, <2>1, <4>1, <4>2 DEF Before
      <4>4. Acting(s) => flow[i].by[1] # s.by[1]
        BY <1>14, <4>3
      <4> QED
        BY <1>15, <1>16, <4>1, <4>4
    <3> QED
      BY <1>1, <2>1, <3>1, <3>2, SureStays DEF CommandFits, RightElement, IsTouch
  <2>2. ASSUME NEW k \in 1 .. Len(r), flow'[i] = r[k] PROVE CommandFits(flow[i])'
    <3>1. flow'[i].by = s.by /\ flow'[i].element = s.element /\ s.by # << >>
      BY <1>8, <1>14, <2>2
    <3>2. CASE flow'[i].kind # "tapOn"
      BY <3>1, <3>2 DEF CommandFits
    <3>3. CASE flow'[i].kind = "tapOn"
      <4>1. s.kind = "tap_element"
        BY <1>8, <2>2, <3>3
      <4>2. Len(s.by) = 1 /\ IsTouch(s.by[1]) /\ s.by[1] \notin warned /\ RightElement(s)
        BY <1>5, <4>1 DEF StepFits, Acting
      <4>3. warned' = warned
        BY <1>3, <1>7, <4>1
      <4> QED
        BY <1>1, <3>1, <4>2, <4>3, SureStays DEF CommandFits, RightElement, IsTouch
    <3> QED
      BY <3>2, <3>3
  <2> QED
    BY <1>10, <1>11, <2>1, <2>2
<1>24. ASSUME NEW i \in DOMAIN flow', NEW j \in DOMAIN unread', Replays(flow'[i]), Acting(unread'[j])
       PROVE  Before(flow'[i], unread'[j])
  <2>1. CASE i \in 1 .. Len(flow) /\ flow'[i] = flow[i]
    <3>1. \A m \in DOMAIN flow, n \in DOMAIN unread :
               Replays(flow[m]) /\ Acting(unread[n]) => Before(flow[m], unread[n])
      BY <1>1, RenderFacts
    <3> QED
      BY <1>4, <1>6, <1>24, <2>1, <3>1
  <2>2. ASSUME NEW k \in 1 .. Len(r), flow'[i] = r[k] PROVE Before(flow'[i], unread'[j])
    <3>1. Acting(s) /\ From(flow'[i]) = From(s)
      BY <1>8, <1>13, <1>24, <2>2
    <3> QED
      BY <1>6, <1>18, <1>24, <3>1 DEF Before
  <2> QED
    BY <1>10, <1>11, <2>1, <2>2
<1>25. FlowInOrder'
  <2>1. \A i, j \in DOMAIN flow : i < j /\ Replays(flow[i]) /\ Replays(flow[j]) => Before(flow[i], flow[j])
    <3>1. FlowInOrder
      BY <1>1, RenderFacts
    <3> QED
      BY <3>1 DEF FlowInOrder, Before
  <2>2. ASSUME NEW i \in DOMAIN flow', NEW j \in DOMAIN flow', i < j, Replays(flow'[i]), Replays(flow'[j])
        PROVE  Before(flow'[i], flow'[j])
    <3>1. CASE j \in 1 .. Len(flow) /\ flow'[j] = flow[j]
      <4>1. i \in DOMAIN flow /\ j \in DOMAIN flow /\ flow'[i] = flow[i]
        BY <1>4, <1>9, <1>10, <2>2, <3>1
      <4> QED
        BY <2>1, <2>2, <3>1, <4>1
    <3>2. ASSUME NEW k \in 1 .. Len(r), j = Len(flow) + k, flow'[j] = r[k]
          PROVE  Before(flow'[i], flow'[j])
      <4>1. Acting(s) /\ k = Len(r) /\ From(flow'[j]) = From(s)
        BY <1>8, <1>13, <2>2, <3>2
      <4>2. CASE i \in 1 .. Len(flow) /\ flow'[i] = flow[i]
        BY <1>4, <1>22, <2>2, <4>1, <4>2 DEF Before
      <4>3. ASSUME NEW l \in 1 .. Len(r), i = Len(flow) + l, flow'[i] = r[l] PROVE FALSE
        <5>1. l = Len(r)
          BY <1>8, <2>2, <4>3
        <5> QED
          BY <1>4, <2>2, <3>2, <4>1, <4>3, <5>1
      <4> QED
        BY <1>10, <1>11, <4>2, <4>3
    <3> QED
      BY <1>10, <1>11, <3>1, <3>2
  <2> QED
    BY <2>2 DEF FlowInOrder, Before
<1>26. ASSUME NEW n \in 1 .. Len(did)
       PROVE  did[n].kind \in {"other", "enter"} \/ n \in warned' \/ Held(unread, n)' \/ Replayed(n)'
  <2>1. did[n].kind \in {"other", "enter"} \/ n \in warned \/ Held(unread, n) \/ Replayed(n)
    BY <1>1, RenderFacts
  <2>2. CASE Replayed(n)
    BY <1>12, <2>2 DEF Replayed
  <2>3. CASE Held(unread, n)
    <3>1. PICK i \in 1 .. Len(unread) : Acting(unread[i]) /\ n \in From(unread[i])
      BY <1>4, <2>3 DEF Held
    <3>2. CASE i # 1
      <4>1. i - 1 \in 1 .. Len(unread') /\ 1 + (i - 1) = i
        BY <1>4, <1>6, <3>2
      <4>2. unread'[i - 1] = unread[i] /\ i - 1 \in DOMAIN unread'
        BY <1>6, <4>1
      <4>3. Held(unread', n)
        BY <3>1, <4>2 DEF Held
      <4> QED
        BY <4>3
    <3>3. CASE i = 1 /\ r = << >>
      BY <1>2, <1>3, <1>15, <3>1, <3>3
    <3>4. CASE i = 1 /\ r # << >>
      <4>1. Len(r) \in 1 .. Len(r) /\ Replays(r[Len(r)])
        BY <1>2, <1>7, <3>1, <3>4
      <4>2. /\ Len(flow) + Len(r) \in DOMAIN flow' /\ flow'[Len(flow) + Len(r)] = r[Len(r)]
            /\ From(r[Len(r)]) = From(s)
        BY <1>9, <1>13, <4>1
      <4> QED
        BY <1>2, <3>1, <3>4, <4>1, <4>2 DEF Replayed
    <3> QED
      BY <3>2, <3>3, <3>4
  <2> QED
    BY <1>1, <1>17, <2>1, <2>2, <2>3
<1>27. \A n : Discounted(unread, n) => Discounted(unread, n)'
  <2> SUFFICES ASSUME NEW n, Unplaced(unread, n) PROVE n \in warned' \/ Unplaced(unread', n)
    BY <1>1, <1>17 DEF Discounted, IsTouch
  <2>1. PICK i \in 1 .. Len(unread) : unread[i].kind = "tap" /\ unread[i].pos = NoPoint /\ unread[i].by = <<n>>
    BY <1>4 DEF Unplaced
  <2>2. CASE i = 1
    <3>1. r = << >> /\ s.by = <<n>>
      BY <1>2, <1>7, <2>1, <2>2
    <3>2. s.by[1] = n
      BY <3>1, Single
    <3> QED
      BY <1>3, <3>1, <3>2
  <2>3. CASE i # 1
    <3>1. i - 1 \in 1 .. Len(unread') /\ 1 + (i - 1) = i
      BY <1>4, <1>6, <2>3
    <3>2. unread'[i - 1] = unread[i] /\ i - 1 \in DOMAIN unread'
      BY <1>6, <3>1
    <3> QED
      BY <2>1, <3>2 DEF Unplaced
  <2> QED
    BY <2>2, <2>3
<1>28. \A b, n : LastTouch(unread, b, n) => LastTouch(unread, b, n)'
  BY <1>27 DEF LastTouch
<1>29. ASSUME NEW i \in DOMAIN unread', Typing(unread'[i]) PROVE ToType(i)'
  <2>1. i \in 1 .. Len(unread') /\ unread'[i] = unread[1 + i] /\ 1 + i \in DOMAIN unread
    BY <1>4, <1>6
  <2>2. ToType(1 + i)
    BY <1>1, <1>29, <2>1, RenderFacts
  <2>3. PICK b \in 1 .. Len(did) :
            /\ LastTouch(unread, b, unread[1 + i].by[1])
            /\ \/ \E j \in 1 .. (1 + i) - 1 : TapOf(unread[j], unread[1 + i].element, b)
               \/ \E j \in DOMAIN flow : TapOnOf(flow[j], unread[1 + i].element, b)
    BY <2>2 DEF ToType
  <2>4. LastTouch(unread, b, unread[i].by[1])'
    BY <1>28, <2>1, <2>3
  <2>5. \/ \E j \in 1 .. i - 1 : TapOf(unread'[j], unread'[i].element, b)
        \/ \E j \in DOMAIN flow' : TapOnOf(flow'[j], unread'[i].element, b)
    <3>1. CASE \E j \in DOMAIN flow : TapOnOf(flow[j], unread[1 + i].element, b)
      BY <1>12, <2>1, <3>1
    <3>2. ASSUME NEW j \in 1 .. (1 + i) - 1, j # 1, TapOf(unread[j], unread[1 + i].element, b)
          PROVE  \E k \in 1 .. i - 1 : TapOf(unread'[k], unread'[i].element, b)
      <4>1. j - 1 \in 1 .. i - 1 /\ j - 1 \in 1 .. Len(unread') /\ 1 + (j - 1) = j
        BY <1>6, <2>1, <3>2
      <4>2. unread'[j - 1] = unread[j]
        BY <1>6, <4>1
      <4> QED
        BY <2>1, <3>2, <4>1, <4>2
    <3>3. ASSUME TapOf(unread[1], unread[1 + i].element, b)
          PROVE  \E j \in DOMAIN flow' : TapOnOf(flow'[j], unread'[i].element, b)
      <4>1. s.kind = "tap_element" /\ s.element = unread'[i].element /\ s.by = <<b>>
        BY <1>2, <2>1, <3>3 DEF TapOf
      <4>2. Len(r) = 1 /\ r[1].kind = "tapOn" /\ 1 \in 1 .. Len(r)
        BY <1>7, <4>1
      <4>3. TapOnOf(r[1], unread'[i].element, b)
        BY <1>8, <4>1, <4>2 DEF TapOnOf
      <4>4. Len(flow) + 1 \in DOMAIN flow' /\ flow'[Len(flow) + 1] = r[1]
        BY <1>9, <1>13, <4>2
      <4> QED
        BY <4>3, <4>4
    <3> QED
      BY <2>3, <3>1, <3>2, <3>3
  <2> QED
    BY <1>1, <2>4, <2>5 DEF ToType
<1>30. ASSUME NEW i \in DOMAIN flow', flow'[i].kind = "focus" PROVE Focused(i)'
  <2>1. CASE i \in 1 .. Len(flow) /\ flow'[i] = flow[i]
    <3>1. Focused(i)
      BY <1>1, <1>4, <1>30, <2>1, RenderFacts
    <3>2. PICK b \in 1 .. Len(did), j \in 1 .. i - 1 :
              LastTouch(unread, b, flow[i].by[1]) /\ TapOnOf(flow[j], flow[i].element, b)
      BY <3>1 DEF Focused
    <3>3. flow'[j] = flow[j]
      BY <1>4, <1>9, <2>1, <3>2
    <3>4. LastTouch(unread, b, flow[i].by[1])'
      BY <1>28, <2>1, <3>2
    <3> QED
      BY <1>1, <2>1, <3>2, <3>3, <3>4 DEF Focused
  <2>2. ASSUME NEW k \in 1 .. Len(r), i = Len(flow) + k, flow'[i] = r[k] PROVE Focused(i)'
    <3>1. Typing(s) /\ flow'[i].by = s.by /\ flow'[i].element = s.element
      BY <1>8, <1>30, <2>2
    <3>2. ToType(1)
      BY <1>1, <1>2, <1>4, <1>5, <3>1, RenderFacts
    <3>3. PICK b \in 1 .. Len(did) :
              /\ LastTouch(unread, b, unread[1].by[1])
              /\ \/ \E j \in 1 .. 1 - 1 : TapOf(unread[j], unread[1].element, b)
                 \/ \E j \in DOMAIN flow : TapOnOf(flow[j], unread[1].element, b)
      BY <3>2 DEF ToType
    <3>4. PICK j \in DOMAIN flow : TapOnOf(flow[j], s.element, b)
      BY <1>2, <3>3
    <3>5. j \in 1 .. i - 1 /\ flow'[j] = flow[j]
      BY <1>4, <1>9, <2>2, <3>4
    <3>6. LastTouch(unread, b, flow[i].by[1])'
      BY <1>2, <1>28, <3>1, <3>3
    <3> QED
      BY <1>1, <3>1, <3>4, <3>5, <3>6 DEF Focused
  <2> QED
    BY <1>10, <1>11, <2>1, <2>2
<1>31. RenderInv'
  <2>1. \A i \in DOMAIN flow', j \in DOMAIN unread' :
            Replays(flow[i])' /\ Acting(unread[j])' => Before(flow[i], unread[j])'
    BY <1>24
  <2>2. \A i \in DOMAIN unread' : Typing(unread[i])' => ToType(i)'
    BY <1>29
  <2>3. \A n \in 1 .. Len(did') :
            did'[n].kind \in {"other", "enter"} \/ n \in warned' \/ Held(unread, n)' \/ Replayed(n)'
    BY <1>1, <1>26
  <2> QED
    BY <1>1, <1>20, <1>21, <1>23, <1>25, <1>30, <2>1, <2>2, <2>3 DEF RenderInv
<1> QED
  BY <1>1, <1>19, <1>31 DEF IInv, CaptureInv, MapInv

\* The flow is complete.
LEMMA EndRenderingKeeps ==
  ASSUME IInv, EndRendering
  PROVE  IInv'
<1>1. /\ phase = "render" /\ phase' = "done" /\ unread = << >>
      /\ UNCHANGED <<did, device, now, screen, shots, lines, touch, events, mapper, steps, warned, flow, unread>>
  BY DEF EndRendering
<1>2. CaptureTypes /\ MappedTypes /\ RenderInv
  BY <1>1, Types DEF IInv
<1>3. CaptureTypes' /\ MappedTypes'
  BY <1>1, <1>2 DEF CaptureTypes, MappedTypes
<1>4. TypeOK' <=> CaptureTypes' /\ MappedTypes' /\ phase' \in {"capture", "map", "render", "done"}
  BY Zenon DEF TypeOK, CaptureTypes, MappedTypes, LineRecord, TouchRecord, MapperRecord, Shot
<1>5. RenderInv'
  BY <1>1, <1>2, SureStays DEF RenderInv, Ordered, StepFits, CommandFits, RightElement, IsTouch, Before,
     FlowInOrder, Held,
     Replayed, ToType, Focused, LastTouch, Discounted, Unplaced
<1> QED
  BY <1>1, <1>3, <1>4, <1>5 DEF IInv, CaptureInv, MapInv

-----------------------------------------------------------------------------
(* The invariant holds at first and is kept by every step.                    *)
LEMMA InitHolds ==
  ASSUME Init
  PROVE  IInv
<1>1. /\ did = << >> /\ now = 0 /\ screen \in Screens /\ device \in Devices /\ shots = << >>
      /\ lines = << >>
      /\ events = << >> /\ phase = "capture" /\ steps = << >> /\ warned = {} /\ flow = << >>
      /\ unread = << >>
      /\ Len(did) = 0 /\ MaxActions \in Nat
  BY FlowAssumption DEF Init
<1>2. touch \in TouchRecord /\ ~touch.active
  BY DEF Init, NoTouch, TouchRecord
<1>3. mapper \in MapperRecord
  BY DEF Init, NoTap, MapperRecord
<1>4. CaptureTypes
  BY <1>1, <1>2 DEF CaptureTypes
<1>5. MappedTypes
  BY <1>1, <1>3 DEF MappedTypes
<1>6. TypeOK
  BY <1>1, <1>4, <1>5, Types
<1>7. AtRest /\ EventsInv /\ TouchInv
  BY <1>1, <1>2 DEF Init, AtRest, EventsInv, TouchInv, Rising, Last
<1> QED
  BY <1>1, <1>6, <1>7 DEF IInv, CaptureInv, MapInv, RenderInv

\* Nothing happens.
LEMMA StutterKeeps ==
  ASSUME IInv, UNCHANGED vars
  PROVE  IInv'
<1>1. UNCHANGED <<did, device, now, screen, shots, lines, touch, events, phase, mapper, steps, warned, flow, unread>>
  BY DEF vars
<1>2. TypeOK'
  BY <1>1 DEF IInv, TypeOK
<1>3. CaptureInv'
  <2>1. \A n, p : Places(n, p)' <=> Places(n, p)
    BY <1>1 DEF Places, OnScreen
  <2>2. EventsInv => EventsInv'
    BY <1>1, <2>1 DEF EventsInv, Rising, EventFits, Truly, Logged, IsTouch, Last
  <2>3. \A p : OnTarget(p)' <=> OnTarget(p)
    BY <1>1, <2>1 DEF OnTarget, Last
  <2>4. TouchInv => TouchInv'
    BY <1>1, <2>3 DEF TouchInv, KeyPressed, KeyLine, Emitted, TouchOver, TouchUnderWay, IsTouch, Last, Logged
  <2>5. AtRest => AtRest'
    BY <1>1 DEF AtRest
  <2> QED
    BY <1>1, <2>2, <2>4, <2>5 DEF IInv, CaptureInv
<1>4. MapInv'
  <2>1. \A n : Discounted(steps, n) => Discounted(steps, n)'
    BY <1>1 DEF Discounted, Unplaced, IsTouch
  <2>2. \A c, n : LastTouch(steps, c, n) => LastTouch(steps, c, n)'
    BY <2>1 DEF LastTouch
  <2>3. \A i : Typed(i) => Typed(i)'
    BY <1>1, <2>2 DEF Typed
  <2>4. FieldTapped => FieldTapped'
    BY <1>1, <2>1 DEF FieldTapped, Waiting
  <2>5. ReadAhead => ReadAhead'
    BY <1>1, SureStays DEF ReadAhead, Rising, EventFits, SeenRightly, IsTouch
  <2>6. StepsInv => StepsInv'
    BY <1>1, SureStays DEF StepsInv, Ordered, Before, StepFits, RightElement, IsTouch
  <2>7. MapCovers => MapCovers'
    BY <1>1 DEF MapCovers, Held, Waiting
  <2> QED
    BY <1>1, <2>3, <2>4, <2>5, <2>6, <2>7 DEF IInv, MapInv
<1>5. RenderInv'
  <2>1. \A n : Discounted(unread, n) => Discounted(unread, n)'
    BY <1>1 DEF Discounted, Unplaced, IsTouch
  <2>2. \A c, n : LastTouch(unread, c, n) => LastTouch(unread, c, n)'
    BY <2>1 DEF LastTouch
  <2>3. \A i : ToType(i) => ToType(i)'
    BY <1>1, <2>2 DEF ToType
  <2>4. \A i : Focused(i) => Focused(i)'
    BY <1>1, <2>2 DEF Focused
  <2>5. \A c : CommandFits(c) => CommandFits(c)'
    BY <1>1, SureStays DEF CommandFits, RightElement, IsTouch
  <2>6. \A c : StepFits(c) => StepFits(c)'
    BY <1>1, SureStays DEF StepFits, RightElement, IsTouch
  <2>7. \A n : Held(unread, n) \/ Replayed(n) => Held(unread, n)' \/ Replayed(n)'
    BY <1>1 DEF Held, Replayed
  <2>8. Ordered(unread) /\ FlowInOrder => Ordered(unread)' /\ FlowInOrder'
    BY <1>1 DEF Ordered, FlowInOrder, Before
  <2> QED
    BY <1>1, <2>3, <2>4, <2>5, <2>6, <2>7, <2>8 DEF IInv, RenderInv
<1> QED
  BY <1>2, <1>3, <1>4, <1>5 DEF IInv

LEMMA StepHolds ==
  ASSUME IInv, [Next]_vars
  PROVE  IInv'
<1>1. ASSUME NEW p \in Reachable, NEW gap \in Gaps, Tap(p, gap) PROVE IInv'
  BY <1>1, TapKeeps
<1>2. ASSUME NEW p \in Reachable, NEW duration \in Gaps, NEW q \in Reachable \ {p}, Drag(p, q, duration)
      PROVE  IInv'
  BY <1>2, DragKeeps
<1>3. ASSUME NEW kind \in Keys \ {"other"}, NEW gap \in Gaps, Press(kind, gap) PROVE IInv'
  <2>1. gap \in Nat
    BY FlowAssumption
  <2> QED
    BY <1>3, <2>1, PressKeeps
<1>4. ASSUME NEW kind \in {"home", "back", "other"}, Press(kind, 0) PROVE IInv'
  <2>1. kind \in {"home", "back"} \cup Keys /\ 0 \in Nat
    BY DEF Keys
  <2> QED
    BY <1>4, <2>1, PressKeeps
<1>5. CASE NameSnapshot
  BY <1>5, NameSnapshotKeeps
<1>6. CASE DumpSnapshot
  BY <1>6, DumpSnapshotKeeps
<1>7. CASE ParseLine
  BY <1>7, ParseLineKeeps
<1>8. CASE EndCapture
  BY <1>8, EndCaptureKeeps
<1>9. CASE MapTap
  BY <1>9, MapTapKeeps
<1>10. CASE MapType
  BY <1>10, MapTypeKeeps
<1>11. CASE MapOther
  BY <1>11, MapOtherKeeps
<1>12. CASE EndMapping
  BY <1>12, EndMappingKeeps
<1>13. CASE RenderStep
  BY <1>13, RenderStepKeeps
<1>14. CASE EndRendering
  BY <1>14, EndRenderingKeeps
<1>16. CASE ScreenChanges
  BY <1>16, ScreenChangesKeeps
<1>15. CASE UNCHANGED vars
  BY <1>15, StutterKeeps
<1> QED
  BY <1>1, <1>2, <1>3, <1>4, <1>5, <1>6, <1>7, <1>8, <1>9, <1>10, <1>11, <1>12, <1>13, <1>14,
     <1>15, <1>16 DEF Next

\* In every reachable state what parseRawInputEvents, mapRawEventsToRecordedSteps and
\* renderRecordedStepsAsFlow have made so far fits what they still have to read.
THEOREM InductiveInvariant == Spec => []IInv
<1>1. Init => IInv
  BY InitHolds
<1>2. IInv /\ [Next]_vars => IInv'
  BY StepHolds
<1> QED
  BY <1>1, <1>2, PTL DEF Spec

\* Lines, events, steps and commands are well formed, and stem from actions of the user.
THEOREM TypeCorrect == Spec => []TypeOK
<1>1. IInv => TypeOK
  BY DEF IInv
<1> QED
  BY <1>1, InductiveInvariant, PTL

-----------------------------------------------------------------------------
(* The properties.                                                            *)
\* There is no flow before steps are rendered.
LEMMA BeforeRendering ==
  ASSUME IInv, phase \in {"capture", "map"}
  PROVE  flow = << >>
  BY DEF IInv, CaptureInv, AtRest, MapInv

\* What the invariant says when nothing is left to read.
LEMMA GivesOrder ==
  ASSUME IInv
  PROVE  FlowInOrder
<1>1. phase \in {"capture", "map", "render", "done"}
  BY Types DEF IInv
<1>2. CASE phase \in {"capture", "map"}
  BY <1>2, BeforeRendering DEF FlowInOrder
<1>3. CASE phase \in {"render", "done"}
  BY <1>3, RenderFacts
<1> QED
  BY <1>1, <1>2, <1>3

LEMMA GivesNothingLost ==
  ASSUME IInv
  PROVE  NothingLostSilently
<1> SUFFICES ASSUME phase = "done", NEW n \in DOMAIN did
             PROVE  \/ did[n].kind \in {"other", "enter"} \/ n \in warned
                    \/ \E i \in DOMAIN flow : Replays(flow[i]) /\ n \in From(flow[i])
  BY DEF NothingLostSilently
<1>1. unread = << >>
  BY DEF IInv, RenderInv
<1>2. n \in 1 .. Len(did)
  BY RenderFacts DEF CaptureTypes
<1>3. did[n].kind \in {"other", "enter"} \/ n \in warned \/ Held(unread, n) \/ Replayed(n)
  BY <1>2, RenderFacts
<1>4. ~Held(unread, n)
  BY <1>1 DEF Held
<1> QED
  BY <1>3, <1>4 DEF Replayed

LEMMA GivesTheElement ==
  ASSUME IInv
  PROVE  TapsTheElement
<1>1. phase \in {"capture", "map", "render", "done"}
  BY Types DEF IInv
<1>2. CASE phase \in {"capture", "map"}
  BY <1>2, BeforeRendering DEF TapsTheElement
<1>3. CASE phase \in {"render", "done"}
  BY <1>3, RenderFacts DEF TapsTheElement, CommandFits, RightElement, Sure
<1> QED
  BY <1>1, <1>2, <1>3

LEMMA GivesTypedWhereTapped ==
  ASSUME IInv
  PROVE  TypedWhereTapped
<1> SUFFICES ASSUME phase = "done", NEW i \in DOMAIN flow, flow[i].kind = "focus"
             PROVE  LET prior == {n \in 1 .. (flow[i].by[1] - 1) :
                                      /\ did[n].kind \notin Keys
                                      /\ ~(did[n].kind \in {"tap", "swipe"} /\ n \in warned)}
                    IN  /\ prior # {}
                        /\ \E j \in 1 .. (i - 1) : /\ flow[j].kind = "tapOn" /\ flow[j].by = <<Max(prior)>>
                                                   /\ flow[j].element = flow[i].element
  BY DEF TypedWhereTapped
<1> DEFINE first == flow[i].by[1]
           prior == {n \in 1 .. (first - 1) :
                         did[n].kind \notin Keys /\ ~(did[n].kind \in {"tap", "swipe"} /\ n \in warned)}
<1>1. unread = << >>
  BY DEF IInv, RenderInv
<1>2. /\ flow \in Seq(Command) /\ did \in Seq(Action) /\ Len(did) \in Nat
      /\ DOMAIN flow = 1 .. Len(flow) /\ Len(flow) \in Nat
      /\ \A k \in DOMAIN flow : CommandFits(flow[k])
      /\ Focused(i)
  BY RenderFacts DEF CaptureTypes
<1>3. PICK b \in 1 .. Len(did), j \in 1 .. i - 1 :
          LastTouch(unread, b, first) /\ TapOnOf(flow[j], flow[i].element, b)
  BY <1>2 DEF Focused
<1>4. first \in Nat
  <2>1. flow[i].by \in Seq(1 .. MaxActions) /\ flow[i].by # << >>
    <3>1. flow[i] \in Command /\ CommandFits(flow[i])
      BY <1>2
    <3> QED
      BY <3>1 DEF Command, CommandFits
  <2>2. 1 \in DOMAIN flow[i].by
    BY <2>1
  <2>3. first \in 1 .. MaxActions
    <3>1. PICK by, S : by = flow[i].by /\ first = by[1] /\ S = 1 .. MaxActions
      OBVIOUS
    <3>2. by \in Seq(S) /\ 1 \in 1 .. Len(by)
      BY <2>1, <2>2, <3>1
    <3>3. by[1] \in S
      BY <3>2
    <3> QED
      BY <3>1, <3>3
  <2> QED
    BY <2>3
<1>5. b \in Nat /\ b > 0 /\ b < first /\ b \in 1 .. first - 1
  BY <1>2, <1>3, <1>4 DEF LastTouch
<1>6. \A k \in b + 1 .. first - 1 : k \notin prior
  <2> SUFFICES ASSUME NEW k \in b + 1 .. first - 1 PROVE k \notin prior
    OBVIOUS
  <2>1. Discounted(unread, k)
    BY <1>3 DEF LastTouch
  <2>2. ~Unplaced(unread, k)
    BY <1>1 DEF Unplaced
  <2> QED
    BY <2>1, <2>2 DEF Discounted, IsTouch, Touches
<1>7. /\ flow[j].kind = "tapOn" /\ flow[j].element = flow[i].element /\ flow[j].by = <<b>>
      /\ j \in DOMAIN flow
  BY <1>2, <1>3 DEF TapOnOf
<1>8. IsTouch(b) /\ b \notin warned
  <2>1. flow[j].by[1] = b
    BY <1>7
  <2> QED
    BY <1>2, <1>7, <2>1 DEF CommandFits
<1>9. b \in prior
  <2>1. did[b].kind \notin Keys
    BY <1>8 DEF IsTouch, Touches, Keys
  <2> QED
    BY <1>5, <1>8, <2>1
<1>10. first - 1 \in Nat /\ prior \in SUBSET (0 .. first - 1) /\ prior # {}
  BY <1>4, <1>5, <1>9
<1>11. \A k \in prior : k \in Nat /\ k <= b
  <2> SUFFICES ASSUME NEW k \in prior PROVE k \in Nat /\ k <= b
    OBVIOUS
  <2>1. k \in 1 .. first - 1
    OBVIOUS
  <2>2. k \notin b + 1 .. first - 1
    BY <1>6
  <2> HIDE DEF prior, first
  <2> QED
    BY <1>4, <1>5, <2>1, <2>2
<1>12. Max(prior) = b
  <2> HIDE DEF prior, first
  <2>1. Max(prior) \in prior /\ \A k \in prior : k <= Max(prior)
    BY <1>10, MaxOfPositions
  <2>2. Max(prior) \in Nat /\ Max(prior) <= b /\ b <= Max(prior)
    BY <1>9, <1>11, <2>1
  <2> QED
    BY <1>5, <2>2
<1> QED
  BY <1>3, <1>7, <1>10, <1>12

\* The commands of a recorded flow that replay something do so in the order the user acted, and
\* replay no action twice: a touch that ends in two lines is finalized once, a chunk read once.
THEOREM ReplaysInOrder == Spec => []FlowInOrder
  BY InductiveInvariant, GivesOrder, PTL

\* When the flow is done, every action the user made is replayed by a command or warned about,
\* except for keys without text and delimiters of text.
THEOREM NothingIsLostSilently == Spec => []NothingLostSilently
  BY InductiveInvariant, GivesNothingLost, PTL

\* Text goes into the field of the last touch before it that the recorder did not drop with a
\* warning: mapRawEventsToRecordedSteps forgets the field at every swipe, home and back.
THEOREM TypesWhereTapped == Spec => []TypedWhereTapped
  BY InductiveInvariant, GivesTypedWhereTapped, PTL

\* A tap is replayed on the element the user tapped, if the recording says where its touches were
\* and which screen was tapped: normalizeEventsToViewport then scales a position to its pixel, and
\* chooseNearestSnapshotRef finds the screen although the time it goes by is late by the lag.
THEOREM TapsTheTappedElement == Spec => []TapsTheElement
  BY InductiveInvariant, GivesTheElement, PTL
=============================================================================
