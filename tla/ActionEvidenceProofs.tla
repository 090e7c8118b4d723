------------------------ MODULE ActionEvidenceProofs ------------------------
(***************************************************************************)
(* Proofs about ActionEvidence, for any app, intents and rules.  The        *)
(* invariant follows one action: what its counters are at each await        *)
(* (Counted), what has been kept so far (Keeping), what the device got      *)
(* (Acting) and what stands behind a success (Earning).                     *)
(***************************************************************************)
EXTENDS ActionEvidence, SequenceTheorems, TLAPS

Statuses == {"success", "partial", "failed"}
Reasons == {"none", "selector", "other", "unsupported", "handoff", "exhausted",
            "terminal", "unresolved", "drift"}
Targets == {"resolved", "obscured", "disabled", "off_screen", "no_match", "none"}
Categories == {"none", "unsupported", "selector", "blocked", "waiting", "no_state_change"}
Steps == {"none", "terminal_stop", "checkpoint_candidate", "partial_progress", "replay_recommended",
          "recoverable_waiting", "degraded_but_continue_safe", "ready_to_execute"}
Guarding == {"detect", "dismiss", "verify"}
Judging == {"preread", "execute", "ocr", "ocrtap", "ocrpost", "post", "retry", "refresh"}
Writing == {"timeline", "baseline", "record"}
Resuming == {"before", "resume", "after", "failed"}
Points == {"idle", "done", "dead", "rerecord"} \cup Guarding \cup Judging \cup Writing \cup Resuming
Commands == {"exec", "ocr", "resume"}
Reasonable == {"same", "solved"}

Call == [pc : Points, intent : Intents, dry : BOOLEAN, guard : {"pre", "post"},
         attempt : 0 .. 3, limit : 0 .. 3, pre : Views, post : Views, mark : Views,
         target : Targets, status : Statuses, reason : Reasons, category : Categories,
         step : Steps, fallback : BOOLEAN, candidate : BOOLEAN, refreshed : BOOLEAN,
         verdict : Statuses \cup {"none"}, did : Seq(Commands \cup Reasonable)]

\* What no verdict touches.
Kin(a, b) == /\ a.intent = b.intent /\ a.dry = b.dry /\ a.guard = b.guard
             /\ a.pre = b.pre /\ a.post = b.post /\ a.mark = b.mark
             /\ a.fallback = b.fallback /\ a.refreshed = b.refreshed /\ a.did = b.did

\* The counters of the loops.
Counted(c) ==
    /\ c.pc \in {"detect", "preread", "execute", "ocr"} \cup Writing => c.attempt = 0
    /\ c.pc \in {"dismiss", "retry"} => c.attempt < c.limit
    /\ c.pc = "ocrtap" => c.attempt <= 1
    /\ c.pc = "ocrpost" => c.attempt <= 2

-----------------------------------------------------------------------------
(* The classifiers.                                                        *)
LEMMA CategoryType == \A c : Category(c) \in Categories
BY DEF Category, Categories

LEMMA StepStateType == \A c : StepState(c) \in Steps
BY DEF StepState, Steps

LEMMA CheckpointStep ==
    \A c : StepState(c) = "checkpoint_candidate" => c.status = "success" /\ Changed(c) /\ ~Dead(c.post)
BY DEF StepState

LEMMA MaxAttemptsType == \A step : MaxAttempts(step) \in 1 .. 3
BY DEF MaxAttempts

\* What a verdict keeps of the action it is about, and when it is a success.
LEMMA SettledFacts ==
    ASSUME NEW c \in Call
    PROVE  /\ Settled(c) \in Call
           /\ Settled(c).pc \in {"timeline", "refresh"}
           /\ Kin(Settled(c), c)
           /\ Settled(c).pc = "timeline" =>
                 Settled(c).verdict = Settled(c).status /\ Settled(c).attempt = 0
           /\ Settled(c).pc = "refresh" => /\ Settled(c).verdict = c.verdict
                                           /\ ~Changed(c) /\ ~Settled(c).candidate
           /\ Settled(c).status = "success" =>
                 c.status = "success" /\ Settled(c).reason = c.reason /\ ~Dead(c.post)
           /\ Settled(c).candidate =>
                 c.step = "checkpoint_candidate" /\ Changed(c) /\ ~Dead(c.post)
                 /\ Settled(c).status = c.status
<1> DEFINE spent == ~Changed(c) /\ c.attempt >= c.limit /\ c.step \in Retryable
           c1 == IF spent THEN [c EXCEPT !.status = "failed", !.reason = "exhausted"] ELSE c
           c2 == IF Dead(c.post)
                 THEN [c1 EXCEPT !.status = "failed", !.reason = "terminal", !.step = "terminal_stop"]
                 ELSE c1
           c3 == [c2 EXCEPT !.candidate = (c2.step = "checkpoint_candidate" /\ Changed(c2))]
<1>1. /\ c1 \in Call /\ c1.step = c.step /\ c1.verdict = c.verdict
      /\ Kin(c1, c)
      /\ c1.status = "success" => c.status = "success" /\ c1.reason = c.reason
      /\ Changed(c) => c1 = c
  <2>1. CASE spent
    BY <2>1 DEF Call, Statuses, Reasons, Kin
  <2>2. CASE ~spent
    BY <2>2 DEF Kin
  <2> QED BY <2>1, <2>2
<1>2. /\ c2 \in Call /\ c2.verdict = c.verdict
      /\ Kin(c2, c)
      /\ c2.status = "success" => c.status = "success" /\ c2.reason = c.reason /\ ~Dead(c.post)
      /\ c2.step = "checkpoint_candidate" => c.step = "checkpoint_candidate" /\ ~Dead(c.post)
      /\ Changed(c) /\ ~Dead(c.post) => c2 = c
  <2> HIDE DEF c1
  <2>1. CASE Dead(c.post)
    <3>1. c2 = [c1 EXCEPT !.status = "failed", !.reason = "terminal", !.step = "terminal_stop"]
      BY <2>1
    <3> HIDE DEF c2
    <3>2. c2 \in Call
      <4>1. "failed" \in Statuses /\ "terminal" \in Reasons /\ "terminal_stop" \in Steps
        BY DEF Statuses, Reasons, Steps
      <4> QED BY <1>1, <3>1, <4>1 DEF Call
    <3>3. c2.status = "failed" /\ c2.step = "terminal_stop" /\ c2.verdict = c.verdict /\ Kin(c2, c)
      BY <1>1, <3>1 DEF Call, Kin
    <3>4. c2.status # "success" /\ c2.step # "checkpoint_candidate"
      BY <3>3
    <3> QED BY <2>1, <3>2, <3>3, <3>4, Zenon
  <2>2. CASE ~Dead(c.post)
    BY <1>1, <2>2
  <2> QED BY <2>1, <2>2
<1>3. Changed(c2) = Changed(c)
  <2> HIDE DEF c2
  <2> QED BY <1>2 DEF Changed, Kin
<1>4. /\ c3 \in Call /\ c3.verdict = c.verdict /\ c3.status = c2.status /\ c3.reason = c2.reason
      /\ Kin(c3, c)
      /\ c3.candidate => c2.step = "checkpoint_candidate" /\ Changed(c)
  <2> HIDE DEF c2
  <2> QED BY <1>2, <1>3 DEF Call, Kin
<1>5. Changed(c3) = Changed(c)
  <2> HIDE DEF c3
  <2> QED BY <1>4 DEF Changed, Kin
<1>6. Settled(c) = IF c3.post \notin Handoffs /\ NeedsRefresh(c3) THEN [c3 EXCEPT !.pc = "refresh"]
                   ELSE Concluded(c3)
  BY DEF Settled
<1> HIDE DEF c3
<1>7. NeedsRefresh(c3) => ~Changed(c)
  BY <1>5 DEF NeedsRefresh
<1>8. CASE c3.post \notin Handoffs /\ NeedsRefresh(c3)
  <2> HIDE DEF c2
  <2>1. Settled(c) = [c3 EXCEPT !.pc = "refresh"]
    BY <1>6, <1>8
  <2> QED BY <2>1, <1>2, <1>4, <1>7, <1>8 DEF Call, Points, Judging, Kin
<1>9. CASE ~(c3.post \notin Handoffs /\ NeedsRefresh(c3))
  <2> HIDE DEF c2
  <2>1. Settled(c) = [c3 EXCEPT !.pc = "timeline", !.verdict = c3.status, !.attempt = 0, !.limit = 0]
    BY <1>6, <1>9 DEF Concluded
  <2>2. c3.candidate => c2 = c
    BY <1>2, <1>4
  <2> DEFINE d == Settled(c)
  <2>3. d \in Call
    <3>1. "timeline" \in Points /\ c3.status \in Statuses \cup {"none"} /\ 0 \in 0 .. 3
      BY <1>4 DEF Call, Points, Writing
    <3> QED BY <2>1, <1>4, <3>1 DEF Call
  <2>4. /\ d.pc = "timeline" /\ d.verdict = d.status /\ d.status = c2.status /\ d.attempt = 0
        /\ d.reason = c2.reason /\ d.candidate = c3.candidate /\ Kin(d, c)
    BY <2>1, <1>4 DEF Call, Kin
  <2> HIDE DEF d
  <2>5. d.candidate => c.step = "checkpoint_candidate" /\ Changed(c) /\ ~Dead(c.post) /\ d.status = c.status
    <3>1. d.candidate => c2 = c /\ c2.step = "checkpoint_candidate" /\ Changed(c)
      BY <2>2, <2>4, <1>4
    <3>2. c2.step = "checkpoint_candidate" => c.step = "checkpoint_candidate" /\ ~Dead(c.post)
      BY <1>2
    <3>3. d.candidate => d.status = c.status
      BY <3>1, <2>4
    <3> QED BY <3>1, <3>2, <3>3, Zenon
  <2>6. d.status = "success" => c.status = "success" /\ d.reason = c.reason /\ ~Dead(c.post)
    BY <2>4, <1>2
  <2> QED BY <2>3, <2>4, <2>5, <2>6 DEF d
<1> QED BY <1>8, <1>9

\* Ready is what the verdict is taken from, Decided what it is.
Backed(c) == c.status = "success" => (c.fallback \/ c.reason = "none")
Ready(c) == /\ Backed(c) /\ (c.status = "success" => c.post \notin Handoffs)
            /\ ~c.refreshed /\ ~c.candidate /\ c.verdict = "none"
            /\ c.step = "checkpoint_candidate" => c.status = "success"
Decided(c) ==
    /\ Backed(c) /\ ~c.refreshed
    /\ c.status = "success" => c.post \notin Handoffs /\ ~Dead(c.post)
    /\ c.pc = "timeline" => c.verdict = c.status /\ c.attempt = 0
    /\ c.pc = "refresh" => c.verdict = "none" /\ ~c.candidate /\ ~Changed(c)
    /\ c.candidate => Changed(c) /\ ~Dead(c.post) /\ c.status = "success"

LEMMA SettledDecides ==
    ASSUME NEW c \in Call, Ready(c)
    PROVE  Decided(Settled(c))
<1> DEFINE d == Settled(c)
<1>1. Kin(d, c) /\ d.pc \in {"timeline", "refresh"} /\ Changed(d) = Changed(c)
  BY SettledFacts DEF Kin, Changed
<1>2. Backed(d) /\ ~d.refreshed
  BY <1>1, SettledFacts DEF Ready, Backed, Kin
<1>3. d.status = "success" => d.post \notin Handoffs /\ ~Dead(d.post)
  BY <1>1, SettledFacts DEF Ready, Kin
<1>4. d.pc = "timeline" => d.verdict = d.status /\ d.attempt = 0
  BY SettledFacts
<1>5. d.pc = "refresh" => d.verdict = "none" /\ ~d.candidate /\ ~Changed(d)
  BY <1>1, SettledFacts DEF Ready
<1>6. d.candidate => Changed(d) /\ ~Dead(d.post) /\ d.status = "success"
  BY <1>1, SettledFacts DEF Ready, Kin
<1> HIDE DEF d
<1>7. Decided(d)
  BY <1>2, <1>3, <1>4, <1>5, <1>6 DEF Decided
<1> QED BY <1>7 DEF d

\* What a read of the state leaves alone.
Peer(a, b) == /\ a.pc = b.pc /\ a.intent = b.intent /\ a.dry = b.dry /\ a.guard = b.guard
              /\ a.pre = b.pre /\ a.mark = b.mark /\ a.attempt = b.attempt /\ a.limit = b.limit
              /\ a.fallback = b.fallback /\ a.refreshed = b.refreshed /\ a.did = b.did
              /\ a.candidate = b.candidate /\ a.verdict = b.verdict

LEMMA JudgedFacts ==
    ASSUME NEW c \in Call, NEW seen \in Views
    PROVE  /\ Judged(c, seen) \in Call
           /\ Peer(Judged(c, seen), c)
           /\ Judged(c, seen).post = seen
           /\ Judged(c, seen).status = "success" =>
                 c.status = "success" /\ Judged(c, seen).reason = c.reason /\ seen \notin Handoffs
           /\ Judged(c, seen).step = "checkpoint_candidate" => Judged(c, seen).status = "success"
<1> DEFINE c1 == [c EXCEPT !.post = seen]
           c2 == [c1 EXCEPT !.category = Category(c1)]
           c3 == [c2 EXCEPT !.step = StepState(c2)]
           h == HandedOff(c3, "partial")
<1>1. c1 \in Call /\ Peer(c1, c) /\ c1.post = seen /\ c1.status = c.status /\ c1.reason = c.reason
  BY DEF Call, Peer
<1>2. c2 \in Call /\ Peer(c2, c) /\ c2.post = seen /\ c2.status = c.status /\ c2.reason = c.reason
  <2> HIDE DEF c1
  <2> QED BY <1>1, CategoryType DEF Call, Peer
<1>3. /\ c3 \in Call /\ Peer(c3, c) /\ c3.post = seen /\ c3.status = c.status /\ c3.reason = c.reason
      /\ c3.step = "checkpoint_candidate" => c3.status = "success"
  <2> HIDE DEF c2
  <2>1. StepState(c2) \in Steps /\ (StepState(c2) = "checkpoint_candidate" => c2.status = "success")
    BY StepStateType, CheckpointStep
  <2> QED BY <1>2, <2>1 DEF Call, Peer
<1>4. /\ h \in Call /\ Peer(h, c) /\ h.post = seen /\ h.status = "partial" /\ h.step = "terminal_stop"
  <2> HIDE DEF c3
  <2>1. /\ "partial" \in Statuses /\ "handoff" \in Reasons /\ "blocked" \in Categories
        /\ "terminal_stop" \in Steps
    BY DEF Statuses, Reasons, Categories, Steps
  <2> QED BY <1>3, <2>1 DEF Call, Peer, HandedOff
<1>5. Judged(c, seen) = IF seen \in Handoffs THEN h ELSE c3
  BY DEF Judged
<1> HIDE DEF c3, h
<1> QED BY <1>3, <1>4, <1>5

LEMMA FirstJudgedFacts ==
    ASSUME NEW c \in Call, NEW seen \in Views, NEW hint, Backed(c),
           ~c.refreshed, ~c.candidate, c.verdict = "none"
    PROVE  LET f == FirstJudged(c, seen, hint)
           IN  /\ f \in Call /\ f.pc \in {"retry", "timeline", "refresh"}
               /\ f.pc = "retry" => f.attempt < f.limit /\ Ready(f)
               /\ f.pc # "retry" => Decided(f)
               /\ f.guard = c.guard /\ f.pre = c.pre /\ f.did = c.did
<1> DEFINE c1 == Judged(c, seen)
           c2 == [c1 EXCEPT !.attempt = 1, !.limit = MaxAttempts(c1.step)]
           r == [c2 EXCEPT !.pc = "retry"]
           f == FirstJudged(c, seen, hint)
<1>1. c1 \in Call /\ Peer(c1, c) /\ Ready(c1)
  BY JudgedFacts DEF Peer, Ready, Backed
<1>2. /\ c2 \in Call /\ c2.guard = c.guard /\ c2.pre = c.pre /\ c2.did = c.did /\ Ready(c2)
  <2> HIDE DEF c1
  <2>1. 1 \in 0 .. 3 /\ MaxAttempts(c1.step) \in 0 .. 3
    BY MaxAttemptsType
  <2>2. c2 \in Call
    BY <1>1, <2>1 DEF Call
  <2> QED BY <1>1, <2>2 DEF Call, Peer, Ready, Backed
<1> HIDE DEF c2
<1>3. r \in Call /\ r.pc = "retry" /\ r.attempt = c2.attempt /\ r.limit = c2.limit
      /\ r.guard = c.guard /\ r.pre = c.pre /\ r.did = c.did /\ Ready(r)
  <2>1. "retry" \in Points
    BY DEF Points, Judging
  <2> QED BY <1>2, <2>1 DEF Call, Ready, Backed
<1>4. Settled(c2) \in Call /\ Settled(c2).pc \in {"timeline", "refresh"} /\ Decided(Settled(c2))
      /\ Kin(Settled(c2), c2)
  BY <1>2, SettledFacts, SettledDecides
<1>5. f = IF ShouldRetry(c2, hint) THEN r ELSE Settled(c2)
  BY DEF FirstJudged, c2
<1> HIDE DEF r, f
<1>6. CASE ShouldRetry(c2, hint)
  <2>1. f = r /\ c2.attempt < c2.limit
    BY <1>5, <1>6 DEF ShouldRetry
  <2>2. f \in Call /\ f.pc = "retry" /\ f.attempt < f.limit /\ Ready(f)
        /\ f.guard = c.guard /\ f.pre = c.pre /\ f.did = c.did
    BY <2>1, <1>3
  <2> QED BY <2>2 DEF f
<1>7. CASE ~ShouldRetry(c2, hint)
  <2>1. f = Settled(c2)
    BY <1>5, <1>7
  <2>2. f \in Call /\ f.pc \in {"timeline", "refresh"} /\ Decided(f)
        /\ f.guard = c.guard /\ f.pre = c.pre /\ f.did = c.did
    BY <2>1, <1>2, <1>4 DEF Kin
  <2> QED BY <2>2 DEF f
<1> QED BY <1>6, <1>7
-----------------------------------------------------------------------------
\* What has been kept at each point, and what it says.
Keeping(c, k) ==
    /\ c.pc \in Judging \cup Writing => c.guard = "pre"
    /\ c.pc \in Resuming \cup {"rerecord"} => c.guard = "post"
    /\ c.guard = "pre" /\ c.pc \notin Writing \cup {"dead"} =>
          k = NothingKept /\ c.verdict = "none" /\ (c.pc = "done" => c.status = "failed")
    /\ c.pc \in Writing => c.status = c.verdict /\ k.record = "none"
    /\ c.pc = "timeline" => k.timeline < 2 /\ ~k.baseline
    /\ c.pc = "baseline" => k.timeline = 2 /\ c.verdict = "success"
    /\ c.pc = "record" => k.timeline = 2 /\ k.baseline = (c.verdict = "success")
    /\ c.guard = "post" /\ c.pc \notin {"done", "dead"} => k.record = c.verdict
    /\ c.guard = "post" /\ c.pc \in Guarding \cup Resuming => c.status = c.verdict
    /\ c.pc = "rerecord" => c.status = "failed"
    /\ c.guard = "post" => k.record # "none"
    /\ c.guard = "post" /\ c.pc = "done" => k.record = c.status
    /\ k.record # "none" => /\ k.timeline = 2 /\ k.baseline = (c.verdict = "success")
                            /\ k.record \in {c.verdict, "failed"}
    /\ k.baseline => c.verdict = "success"

\* What stands behind a success at each point.
Earning(c) ==
    /\ c.guard = "pre" /\ c.pc \in Guarding \cup Judging =>
          ~c.candidate /\ ~c.refreshed /\ c.verdict = "none"
    /\ c.pc \in {"ocr", "ocrtap", "ocrpost"} => c.status # "success"
    /\ c.pc = "post" => Backed(c)
    /\ c.pc = "retry" => Ready(c)
    /\ c.pc = "refresh" => Decided(c)
    /\ c.pc \in Writing \/ c.guard = "post" =>
          /\ Backed(c)
          /\ c.status = "success" => c.verdict = "success"
          /\ c.verdict = "success" => c.post \notin Handoffs
          /\ c.verdict = "success" /\ Dead(c.post) => c.refreshed
    /\ c.refreshed => Changed(c)
    /\ c.candidate => c.verdict = "success" /\ Changed(c) /\ ~Dead(c.post)

\* What the device got.
Acts(d) == {n \in DOMAIN d : d[n] \in Commands}
Justified(d) == \A m, n \in Acts(d) : m < n => \E k \in m .. n : d[k] \in Reasonable
MayAct(d) == \A m \in Acts(d) : \E k \in m .. Len(d) : d[k] \in Reasonable
Acting(c) ==
    /\ Justified(c.did)
    /\ c.pc \in {"before", "resume", "ocrtap"} => MayAct(c.did)
    /\ c.pc \in {"preread", "execute", "ocr"} => c.did = << >>
    /\ c.guard = "pre" /\ c.pc \in Guarding => c.did = << >>
    /\ c.pc \in {"execute", "ocr", "ocrtap", "ocrpost"} => c.pre \notin Handoffs
    /\ c.pre \in Handoffs => \A n \in Acts(c.did) : c.did[n] = "resume"

Good(c, k) == c \in Call /\ Counted(c) /\ Keeping(c, k) /\ Earning(c) /\ Acting(c)
Kept == [timeline : 0 .. 2, baseline : BOOLEAN, record : Statuses \cup {"none"}]
Inv == view \in Views /\ kept \in Kept /\ Good(call, kept)

LEMMA EmptyDid == << >> \in Seq(Commands \cup Reasonable) /\ Justified(<< >>) /\ MayAct(<< >>)
                  /\ Acts(<< >>) = {}
BY DEF Justified, MayAct, Acts

\* A command after a reason, and a reason after anything.
LEMMA CommandAdded ==
    ASSUME NEW d \in Seq(Commands \cup Reasonable), NEW w \in Commands, Justified(d), MayAct(d)
    PROVE  /\ Append(d, w) \in Seq(Commands \cup Reasonable)
           /\ Justified(Append(d, w))
           /\ \A n \in Acts(Append(d, w)) : Append(d, w)[n] = w \/ (n \in Acts(d) /\ Append(d, w)[n] = d[n])
<1> DEFINE e == Append(d, w)
<1>1. /\ e \in Seq(Commands \cup Reasonable) /\ Len(e) = Len(d) + 1
      /\ \A n \in 1 .. Len(d) : e[n] = d[n]
      /\ e[Len(d) + 1] = w /\ DOMAIN e = 1 .. Len(d) + 1 /\ DOMAIN d = 1 .. Len(d) /\ Len(d) \in Nat
  OBVIOUS
<1> HIDE DEF e
<1>2. \A n \in Acts(e) : (n \in Acts(d) /\ e[n] = d[n]) \/ (n = Len(d) + 1 /\ e[n] = w)
  <2> SUFFICES ASSUME NEW n \in Acts(e)
               PROVE  (n \in Acts(d) /\ e[n] = d[n]) \/ (n = Len(d) + 1 /\ e[n] = w)
    OBVIOUS
  <2>1. n \in 1 .. Len(d) + 1 /\ e[n] \in Commands
    BY <1>1 DEF Acts
  <2>2. n \in 1 .. Len(d) \/ n = Len(d) + 1
    BY <1>1, <2>1
  <2> QED BY <1>1, <2>1, <2>2 DEF Acts
<1>3. Justified(e)
  <2> SUFFICES ASSUME NEW m \in Acts(e), NEW n \in Acts(e), m < n
               PROVE  \E k \in m .. n : e[k] \in Reasonable
    BY DEF Justified
  <2>1. m \in Acts(d) /\ m \in 1 .. Len(d)
    BY <1>1, <1>2 DEF Acts
  <2>2. CASE n \in Acts(d)
    <3>1. PICK k \in m .. n : d[k] \in Reasonable
      BY <2>1, <2>2 DEF Justified
    <3>2. k \in 1 .. Len(d)
      BY <1>1, <2>1, <2>2 DEF Acts
    <3> QED BY <1>1, <3>1, <3>2
  <2>3. CASE n = Len(d) + 1
    <3>1. PICK k \in m .. Len(d) : d[k] \in Reasonable
      BY <2>1 DEF MayAct
    <3>2. k \in 1 .. Len(d) /\ k \in m .. n
      BY <1>1, <2>1, <2>3, <3>1
    <3> QED BY <1>1, <3>1, <3>2
  <2> QED BY <1>2, <2>2, <2>3
<1>4. \A n \in Acts(e) : e[n] = w \/ (n \in Acts(d) /\ e[n] = d[n])
  BY <1>2
<1>5. e \in Seq(Commands \cup Reasonable)
  BY <1>1
<1> QED BY <1>3, <1>4, <1>5 DEF e

LEMMA ReasonAdded ==
    ASSUME NEW d \in Seq(Commands \cup Reasonable), NEW w \in Reasonable, Justified(d)
    PROVE  /\ Append(d, w) \in Seq(Commands \cup Reasonable)
           /\ Justified(Append(d, w)) /\ MayAct(Append(d, w))
           /\ \A n \in Acts(Append(d, w)) : n \in Acts(d) /\ Append(d, w)[n] = d[n]
<1> DEFINE e == Append(d, w)
<1>1. /\ e \in Seq(Commands \cup Reasonable) /\ Len(e) = Len(d) + 1
      /\ \A n \in 1 .. Len(d) : e[n] = d[n]
      /\ e[Len(d) + 1] = w /\ DOMAIN e = 1 .. Len(d) + 1 /\ DOMAIN d = 1 .. Len(d) /\ Len(d) \in Nat
  OBVIOUS
<1> HIDE DEF e
<1>2. \A n \in Acts(e) : n \in Acts(d) /\ e[n] = d[n] /\ n \in 1 .. Len(d)
  BY <1>1 DEF Acts, Commands, Reasonable
<1>3. Justified(e)
  <2> SUFFICES ASSUME NEW m \in Acts(e), NEW n \in Acts(e), m < n
               PROVE  \E k \in m .. n : e[k] \in Reasonable
    BY DEF Justified
  <2>1. PICK k \in m .. n : d[k] \in Reasonable
    BY <1>2 DEF Justified
  <2>2. k \in 1 .. Len(d)
    BY <1>1, <1>2
  <2> QED BY <1>1, <2>1, <2>2
<1>4. MayAct(e)
  <2> SUFFICES ASSUME NEW m \in Acts(e) PROVE \E k \in m .. Len(e) : e[k] \in Reasonable
    BY DEF MayAct
  <2>1. Len(e) \in m .. Len(e)
    BY <1>1, <1>2
  <2> QED BY <1>1, <2>1
<1>5. \A n \in Acts(e) : n \in Acts(d) /\ e[n] = d[n]
  BY <1>2
<1>6. e \in Seq(Commands \cup Reasonable)
  BY <1>1
<1> QED BY <1>3, <1>4, <1>5, <1>6 DEF e
-----------------------------------------------------------------------------
(* The guards.                                                             *)
\* All but where the action is and how often it tried.
Aside(a, b) ==
    /\ a.intent = b.intent /\ a.dry = b.dry /\ a.guard = b.guard /\ a.pre = b.pre /\ a.post = b.post
    /\ a.mark = b.mark /\ a.target = b.target /\ a.status = b.status /\ a.reason = b.reason
    /\ a.category = b.category /\ a.step = b.step /\ a.fallback = b.fallback
    /\ a.candidate = b.candidate /\ a.refreshed = b.refreshed /\ a.verdict = b.verdict
    /\ a.did = b.did

LEMMA DidFacts ==
    ASSUME NEW b \in Call, NEW w \in Commands \cup Reasonable
    PROVE  /\ Did(b, w) \in Call /\ Did(b, w).did = Append(b.did, w)
           /\ Did(b, w).pc = b.pc /\ Did(b, w).intent = b.intent /\ Did(b, w).dry = b.dry
           /\ Did(b, w).guard = b.guard /\ Did(b, w).attempt = b.attempt /\ Did(b, w).limit = b.limit
           /\ Did(b, w).pre = b.pre /\ Did(b, w).post = b.post /\ Did(b, w).mark = b.mark
           /\ Did(b, w).status = b.status /\ Did(b, w).reason = b.reason
           /\ Did(b, w).fallback = b.fallback /\ Did(b, w).candidate = b.candidate
           /\ Did(b, w).refreshed = b.refreshed /\ Did(b, w).verdict = b.verdict
<1>1. b.did \in Seq(Commands \cup Reasonable)
  BY DEF Call
<1>2. Append(b.did, w) \in Seq(Commands \cup Reasonable)
  BY <1>1
<1>3. Did(b, w) = [b EXCEPT !.did = Append(b.did, w)]
  BY DEF Did
<1> QED BY <1>2, <1>3 DEF Call

LEMMA GuardStays ==
    ASSUME NEW k, NEW c, Good(c, k), c.pc \in Guarding,
           NEW p \in Guarding, NEW a \in 0 .. 3, NEW l \in 0 .. 3,
           p = "detect" => a = 0, p = "dismiss" => a < l
    PROVE  Good([c EXCEPT !.pc = p, !.attempt = a, !.limit = l], k)
<1> DEFINE g == [c EXCEPT !.pc = p, !.attempt = a, !.limit = l]
<1>1. g \in Call /\ Aside(g, c) /\ g.pc = p /\ g.attempt = a /\ g.limit = l
  <2>1. p \in Points
    BY DEF Points
  <2> QED BY <2>1 DEF Good, Call, Aside
<1> HIDE DEF g
<1>2. Counted(g)
  BY <1>1 DEF Counted, Guarding, Writing
<1>3. Keeping(g, k)
  BY <1>1 DEF Good, Keeping, Aside, Guarding, Judging, Writing, Resuming
<1>4. Earning(g)
  BY <1>1 DEF Good, Earning, Aside, Backed, Changed, Guarding, Judging, Writing, Resuming
<1>5. Acting(g)
  BY <1>1 DEF Good, Acting, Aside, Guarding
<1>6. Good(g, k)
  BY <1>1, <1>2, <1>3, <1>4, <1>5 DEF Good
<1> QED BY <1>6 DEF g

LEMMA GuardFails ==
    ASSUME NEW k, NEW c, Good(c, k), c.pc \in Guarding
    PROVE  Good(GuardFailed(c), k)
<1> DEFINE g == GuardFailed(c)
<1>1. c \in Call
  BY DEF Good
<1>2. /\ g \in Call /\ g.status = "failed" /\ g.pc = (IF c.guard = "pre" THEN "done" ELSE "rerecord")
      /\ g.guard = c.guard /\ g.pre = c.pre /\ g.post = c.post /\ g.verdict = c.verdict
      /\ g.candidate = c.candidate /\ g.refreshed = c.refreshed /\ g.did = c.did
  <2>1. /\ "failed" \in Statuses /\ "unresolved" \in Reasons /\ "done" \in Points
        /\ "rerecord" \in Points /\ 0 \in 0 .. 3
    BY DEF Statuses, Reasons, Points
  <2> QED BY <1>1, <2>1 DEF Call, GuardFailed
<1> HIDE DEF g
<1>3. Counted(g)
  BY <1>2 DEF Counted, Writing
<1>4. c.guard \in {"pre", "post"}
  BY <1>1 DEF Call
<1>5. Keeping(g, k)
  BY <1>2, <1>4 DEF Good, Keeping, Guarding, Judging, Writing, Resuming
<1>6. Earning(g)
  BY <1>2, <1>4 DEF Good, Earning, Backed, Changed, Guarding, Judging, Writing, Resuming
<1>7. Acting(g)
  BY <1>2 DEF Good, Acting, Guarding
<1>8. Good(g, k)
  BY <1>2, <1>3, <1>5, <1>6, <1>7 DEF Good
<1> QED BY <1>8 DEF g

LEMMA GuardPasses ==
    ASSUME NEW k, NEW c, Good(c, k), c.pc \in Guarding, NEW how
    PROVE  Good(GuardPassed(c, how), k)
<1> DEFINE c1 == [c EXCEPT !.attempt = 0, !.limit = 0]
           g == GuardPassed(c, how)
<1>1. c \in Call
  BY DEF Good
<1>2. c1 \in Call /\ c1.pc = c.pc /\ Aside(c1, c) /\ c1.attempt = 0
  <2>1. 0 \in 0 .. 3
    OBVIOUS
  <2> QED BY <1>1, <2>1 DEF Call, Aside
<1>3. /\ "preread" \in Points /\ "done" \in Points /\ "before" \in Points
  BY DEF Points, Judging, Resuming
<1> HIDE DEF c1
<1>4. CASE c.guard = "pre" \/ how = "clear"
  <2>1. g = [c1 EXCEPT !.pc = IF c.guard = "pre" THEN "preread" ELSE "done"]
    BY <1>2, <1>4 DEF GuardPassed, Aside, c1
  <2>2. /\ g \in Call /\ g.pc = (IF c.guard = "pre" THEN "preread" ELSE "done") /\ g.attempt = 0
        /\ Aside(g, c)
    BY <1>2, <1>3, <2>1 DEF Call, Aside
  <2> HIDE DEF g
  <2>3. Counted(g)
    BY <2>2 DEF Counted, Writing
  <2>4. c.guard \in {"pre", "post"}
    BY <1>1 DEF Call
  <2>5. Keeping(g, k)
    BY <2>2, <2>4 DEF Good, Keeping, Aside, Guarding, Judging, Writing, Resuming
  <2>6. Earning(g)
    BY <2>2, <2>4 DEF Good, Earning, Backed, Changed, Aside, Guarding, Judging, Writing, Resuming
  <2>7. Acting(g)
    BY <2>2, <2>4 DEF Good, Acting, Aside, Guarding
  <2>8. Good(g, k)
    BY <2>2, <2>3, <2>5, <2>6, <2>7 DEF Good
  <2> QED BY <2>8 DEF g
<1>5. CASE c.guard # "pre" /\ how # "clear"
  <2>1. g = Did([c1 EXCEPT !.pc = "before"], "solved")
    BY <1>2, <1>5 DEF GuardPassed, Aside, c1
  <2>2. /\ Append(c.did, "solved") \in Seq(Commands \cup Reasonable)
        /\ Justified(Append(c.did, "solved")) /\ MayAct(Append(c.did, "solved"))
        /\ \A n \in Acts(Append(c.did, "solved")) :
              n \in Acts(c.did) /\ Append(c.did, "solved")[n] = c.did[n]
    BY <1>1, ReasonAdded DEF Good, Acting, Call, Reasonable
  <2>3. /\ g \in Call /\ g.pc = "before" /\ g.did = Append(c.did, "solved")
        /\ g.status = c.status /\ g.reason = c.reason /\ g.fallback = c.fallback
        /\ g.guard = c.guard /\ g.pre = c.pre /\ g.post = c.post /\ g.verdict = c.verdict
        /\ g.candidate = c.candidate /\ g.refreshed = c.refreshed
    <3> DEFINE b == [c1 EXCEPT !.pc = "before"]
    <3>1. b \in Call /\ b.pc = "before" /\ Aside(b, c)
      BY <1>2, <1>3 DEF Call, Aside
    <3> HIDE DEF b
    <3>2. g = Did(b, "solved")
      BY <2>1 DEF b
    <3> QED BY <3>1, <3>2, DidFacts DEF Aside, Reasonable
  <2> HIDE DEF g
  <2>4. Counted(g)
    BY <2>3 DEF Counted, Writing
  <2>5. c.guard = "post"
    BY <1>1, <1>5 DEF Call
  <2>6. Keeping(g, k)
    BY <2>3, <2>5 DEF Good, Keeping, Guarding, Judging, Writing, Resuming
  <2>7. Earning(g)
    BY <2>3, <2>5 DEF Good, Earning, Backed, Changed, Guarding, Judging, Writing, Resuming
  <2>8. Acting(g)
    BY <2>2, <2>3, <2>5 DEF Good, Acting, Guarding
  <2>9. Good(g, k)
    BY <2>3, <2>4, <2>6, <2>7, <2>8 DEF Good
  <2> QED BY <2>9 DEF g
<1> QED BY <1>4, <1>5
-----------------------------------------------------------------------------
(* The actions.                                                            *)
LEMMA ViewsSeen ==
    ASSUME view \in Views
    PROVE  /\ Seen \in Views
           /\ Touched => view' \in Views
           /\ Untouched => view' \in Views
           /\ AppMoves => view' \in Views
<1>1. Canned \in Views /\ Follows[view] \subseteq Views
  BY EvidenceAssumption
<1> QED BY <1>1 DEF Seen, Touched, Untouched, AppMoves

Fresh(g) == /\ g.guard = "pre" /\ g.attempt = 0 /\ g.pre = Canned /\ g.status = "failed"
            /\ g.candidate = FALSE /\ g.refreshed = FALSE /\ g.verdict = "none" /\ g.did = << >>

LEMMA NoCallFresh == NoCall \in Call /\ NoCall.pc = "idle" /\ Fresh(NoCall)
<1> DEFINE d == << >>
<1>1. Canned \in Views /\ AnyIntent \in Intents
  BY EvidenceAssumption DEF AnyIntent
<1>2. /\ "idle" \in Points /\ "none" \in Targets /\ "failed" \in Statuses /\ "none" \in Reasons
      /\ "none" \in Categories /\ "none" \in Steps /\ 0 \in 0 .. 3 /\ "none" \in Statuses \cup {"none"}
  BY DEF Points, Guarding, Targets, Statuses, Reasons, Categories, Steps
<1>3. d \in Seq(Commands \cup Reasonable)
  OBVIOUS
<1>4. NoCall.did = d /\ NoCall.pc = "idle"
  BY DEF NoCall
<1>5. Fresh(NoCall)
  BY DEF NoCall, Fresh
<1> HIDE DEF d
<1>6. NoCall \in Call
  BY <1>1, <1>2, <1>3 DEF NoCall, Call, d
<1> QED BY <1>4, <1>5, <1>6

LEMMA FreshGood ==
    ASSUME NEW g \in Call, g.pc \in {"idle", "detect"}, Fresh(g)
    PROVE  Good(g, NothingKept)
<1>1. Canned \in Views \ (Handoffs \cup Interrupting)
  BY EvidenceAssumption
<1>2. Counted(g)
  BY DEF Counted, Fresh, Writing
<1>3. Keeping(g, NothingKept)
  BY DEF Keeping, Fresh, NothingKept, Guarding, Judging, Writing, Resuming
<1>4. Earning(g)
  BY DEF Earning, Fresh, Guarding, Judging, Writing, Resuming
<1>5. Acting(g)
  BY <1>1, EmptyDid DEF Acting, Fresh
<1> QED BY <1>2, <1>3, <1>4, <1>5 DEF Good

LEMMA NothingIsKept == NothingKept \in Kept
BY DEF NothingKept, Kept

LEMMA InitInv == Init => Inv
<1>1. Good(NoCall, NothingKept)
  BY NoCallFresh, FreshGood
<1> QED BY <1>1, NothingIsKept DEF Inv, Init

LEMMA BeginStep == ASSUME Inv, NEW i \in Intents, NEW dry \in BOOLEAN, Begin(i, dry) PROVE Inv'
<1> DEFINE g == [NoCall EXCEPT !.pc = "detect", !.intent = i, !.dry = dry]
<1>1. g \in Call /\ g.pc = "detect" /\ Fresh(g)
  <2>1. "detect" \in Points
    BY DEF Points, Guarding
  <2> QED BY <2>1, NoCallFresh DEF Call, Fresh
<1>2. call' = g /\ kept' = NothingKept /\ view' \in Views
  BY DEF Begin, Inv
<1> HIDE DEF g
<1>3. Good(call', kept')
  BY <1>1, <1>2, FreshGood
<1> QED BY <1>2, <1>3, NothingIsKept DEF Inv

LEMMA DetectStep == ASSUME Inv, Detect PROVE Inv'
<1>1. call.pc \in Guarding /\ Good(call, kept) /\ call.pc = "detect" /\ kept' = kept /\ view' \in Views
  BY ViewsSeen DEF Inv, Detect, At, Untouched, Guarding
<1>2. Good(call', kept)
  <2>1. CASE call' = GuardPassed(call, "clear")
    BY <1>1, <2>1, GuardPasses
  <2>2. CASE call' = GuardFailed(call)
    BY <1>1, <2>2, GuardFails
  <2>3. ASSUME NEW limit \in RuleAttempts, call' = [call EXCEPT !.pc = "dismiss", !.limit = limit]
        PROVE  Good(call', kept)
    <3>1. limit \in 0 .. 3 /\ 0 < limit /\ call.attempt = 0 /\ call \in Call
      BY <1>1, EvidenceAssumption DEF Good, Counted, Writing
    <3>2. call' = [call EXCEPT !.pc = "dismiss", !.attempt = 0, !.limit = limit]
      BY <2>3, <3>1 DEF Call
    <3>3. "dismiss" \in Guarding /\ 0 \in 0 .. 3
      BY DEF Guarding
    <3> QED BY <1>1, <3>1, <3>2, <3>3, GuardStays
  <2> QED BY <2>1, <2>2, <2>3 DEF Detect
<1> QED BY <1>1, <1>2 DEF Inv

LEMMA DismissStep == ASSUME Inv, NEW ok \in BOOLEAN, Dismiss(ok) PROVE Inv'
<1> DEFINE n == call.attempt + 1
           c1 == [call EXCEPT !.attempt = n]
<1>1. /\ call.pc = "dismiss" /\ call.pc \in Guarding /\ Good(call, kept) /\ call \in Call
      /\ call.attempt < call.limit /\ kept' = kept /\ view' \in Views
  BY ViewsSeen DEF Inv, Dismiss, At, Guarding, Good, Counted, Writing
<1>2. n \in 0 .. 3 /\ call.limit \in 0 .. 3 /\ n <= call.limit
  BY <1>1 DEF Call
<1>3. "dismiss" \in Guarding /\ "verify" \in Guarding
  BY DEF Guarding
<1>4. c1 \in Call /\ c1.attempt = n /\ c1.limit = call.limit /\ c1.pc = "dismiss"
  BY <1>1, <1>2 DEF Call
<1>5. [call EXCEPT !.pc = "verify", !.attempt = n, !.limit = call.limit] = [c1 EXCEPT !.pc = "verify"]
  BY <1>1 DEF Call
<1>6. n < call.limit => [call EXCEPT !.pc = "dismiss", !.attempt = n, !.limit = call.limit] = c1
  BY <1>1 DEF Call
<1>7. GuardFailed(c1) = GuardFailed(call)
  BY <1>1, <1>4 DEF GuardFailed, Call
<1>8. Good(call', kept)
  <2>1. CASE ok
    <3>1. call' = [c1 EXCEPT !.pc = "verify"]
      BY <2>1 DEF Dismiss
    <3> HIDE DEF n, c1
    <3>2. Good([call EXCEPT !.pc = "verify", !.attempt = n, !.limit = call.limit], kept)
      BY <1>1, <1>2, <1>3, GuardStays
    <3> QED BY <1>5, <3>1, <3>2
  <2>2. CASE ~ok /\ n < call.limit
    <3>1. call' = c1
      BY <2>2, <1>4 DEF Dismiss
    <3> HIDE DEF n, c1
    <3>2. Good([call EXCEPT !.pc = "dismiss", !.attempt = n, !.limit = call.limit], kept)
      BY <1>1, <1>2, <1>3, <2>2, GuardStays
    <3> QED BY <1>6, <2>2, <3>1, <3>2
  <2>3. CASE ~ok /\ ~(n < call.limit)
    <3>1. call' = GuardFailed(c1)
      BY <2>3, <1>4 DEF Dismiss
    <3> QED BY <1>1, <1>7, <3>1, GuardFails
  <2> QED BY <2>1, <2>2, <2>3
<1> QED BY <1>1, <1>8 DEF Inv

LEMMA VerifyStep == ASSUME Inv, Verify PROVE Inv'
<1>1. /\ call.pc = "verify" /\ call.pc \in Guarding /\ Good(call, kept) /\ call \in Call
      /\ kept' = kept /\ view' \in Views
  BY ViewsSeen DEF Inv, Verify, At, Untouched, Guarding, Good
<1>2. Good(call', kept)
  <2>1. CASE call' = GuardPassed(call, "solved")
    BY <1>1, <2>1, GuardPasses
  <2>2. CASE call' = GuardFailed(call)
    BY <1>1, <2>2, GuardFails
  <2>3. CASE call.attempt < call.limit /\ call' = [call EXCEPT !.pc = "dismiss"]
    <3>1. call.attempt \in 0 .. 3 /\ call.limit \in 0 .. 3 /\ "dismiss" \in Guarding
      BY <1>1 DEF Call, Guarding
    <3>2. [call EXCEPT !.pc = "dismiss", !.attempt = call.attempt, !.limit = call.limit]
             = [call EXCEPT !.pc = "dismiss"]
      BY <1>1 DEF Call
    <3>3. Good([call EXCEPT !.pc = "dismiss", !.attempt = call.attempt, !.limit = call.limit], kept)
      BY <1>1, <2>3, <3>1, GuardStays
    <3> QED BY <2>3, <3>2, <3>3
  <2> QED BY <2>1, <2>2, <2>3 DEF Verify
<1> QED BY <1>1, <1>2 DEF Inv

-----------------------------------------------------------------------------
(* From the first read to the verdict.                                     *)
Sparing(c) == Justified(c.did) /\ (c.pre \in Handoffs => \A n \in Acts(c.did) : c.did[n] = "resume")
Undecided(c) == c.guard = "pre" /\ ~c.candidate /\ ~c.refreshed /\ c.verdict = "none"

LEMMA JudgingKnows ==
    ASSUME NEW c, NEW k, Good(c, k), c.pc \in Judging
    PROVE  c \in Call /\ Undecided(c) /\ k = NothingKept /\ Sparing(c)
<1>1. c.guard = "pre" /\ c.pc \notin Writing \cup {"dead"}
  BY DEF Good, Keeping, Judging, Writing
<1> QED BY <1>1 DEF Good, Keeping, Earning, Acting, Undecided, Sparing

LEMMA JudgingGood ==
    ASSUME NEW g \in Call, Undecided(g), Counted(g), Acting(g),
           g.pc \in {"preread", "execute", "ocr", "ocrtap", "ocrpost", "post"},
           g.pc \in {"ocr", "ocrtap", "ocrpost"} => g.status # "success",
           g.pc = "post" => Backed(g)
    PROVE  Good(g, NothingKept)
<1>1. Keeping(g, NothingKept)
  BY DEF Keeping, Undecided, NothingKept, Guarding, Judging, Writing, Resuming
<1>2. Earning(g)
  BY DEF Earning, Undecided, Guarding, Judging, Writing, Resuming
<1> QED BY <1>1, <1>2 DEF Good

LEMMA ConcludedGood ==
    ASSUME NEW g \in Call, g.pc = "timeline", g.guard = "pre", g.verdict = g.status, g.attempt = 0,
           Backed(g), g.status = "success" => g.post \notin Handoffs /\ (Dead(g.post) => g.refreshed),
           g.refreshed => Changed(g),
           g.candidate => g.status = "success" /\ Changed(g) /\ ~Dead(g.post),
           Sparing(g)
    PROVE  Good(g, NothingKept)
<1>1. Keeping(g, NothingKept)
  BY DEF Keeping, NothingKept, Guarding, Judging, Writing, Resuming
<1>2. Earning(g)
  BY DEF Earning, Guarding, Judging, Writing, Resuming
<1>3. Counted(g)
  BY DEF Counted, Writing
<1>4. Acting(g)
  BY DEF Acting, Sparing, Guarding
<1> QED BY <1>1, <1>2, <1>3, <1>4 DEF Good

LEMMA DecidedGood ==
    ASSUME NEW g \in Call, g.guard = "pre", g.pc \in {"timeline", "refresh"}, Decided(g), Sparing(g)
    PROVE  Good(g, NothingKept)
<1>1. CASE g.pc = "timeline"
  BY <1>1, ConcludedGood DEF Decided
<1>2. CASE g.pc = "refresh"
  <2>1. Keeping(g, NothingKept)
    BY <1>2 DEF Decided, Keeping, NothingKept, Guarding, Judging, Writing, Resuming
  <2>2. Earning(g)
    BY <1>2 DEF Decided, Earning, Guarding, Judging, Writing, Resuming
  <2>3. Counted(g)
    BY <1>2 DEF Counted, Writing
  <2>4. Acting(g)
    BY <1>2 DEF Acting, Sparing, Guarding
  <2> QED BY <2>1, <2>2, <2>3, <2>4 DEF Good
<1> QED BY <1>1, <1>2

LEMMA RetryGood ==
    ASSUME NEW g \in Call, g.guard = "pre", g.pc = "retry", g.attempt < g.limit, Ready(g), Sparing(g)
    PROVE  Good(g, NothingKept)
<1>1. Keeping(g, NothingKept)
  BY DEF Ready, Keeping, NothingKept, Guarding, Judging, Writing, Resuming
<1>2. Earning(g)
  BY DEF Ready, Earning, Guarding, Judging, Writing, Resuming
<1>3. Counted(g)
  BY DEF Counted, Writing
<1>4. Acting(g)
  BY DEF Acting, Sparing, Guarding
<1> QED BY <1>1, <1>2, <1>3, <1>4 DEF Good

LEMMA FirstGood ==
    ASSUME NEW c \in Call, NEW seen \in Views, NEW hint, Backed(c), Undecided(c), Sparing(c)
    PROVE  Good(FirstJudged(c, seen, hint), NothingKept)
<1> DEFINE f == FirstJudged(c, seen, hint)
<1>1. /\ f \in Call /\ f.pc \in {"retry", "timeline", "refresh"}
      /\ f.pc = "retry" => f.attempt < f.limit /\ Ready(f)
      /\ f.pc # "retry" => Decided(f)
      /\ f.guard = c.guard /\ f.pre = c.pre /\ f.did = c.did
  BY FirstJudgedFacts DEF Undecided
<1> HIDE DEF f
<1>2. Sparing(f) /\ f.guard = "pre"
  BY <1>1 DEF Sparing, Undecided
<1>3. Good(f, NothingKept)
  BY <1>1, <1>2, RetryGood, DecidedGood
<1> QED BY <1>3 DEF f

LEMMA PreReadStep == ASSUME Inv, PreRead PROVE Inv'
<1> DEFINE c1 == [call EXCEPT !.pre = Seen, !.post = Seen]
           e == [c1 EXCEPT !.pc = "execute"]
           h == [HandedOff(c1, "failed") EXCEPT !.attempt = 1, !.limit = 1]
<1>1. /\ call.pc = "preread" /\ call \in Call /\ Undecided(call) /\ kept = NothingKept
      /\ call.attempt = 0 /\ call.did = << >> /\ kept' = kept /\ view' \in Views /\ Seen \in Views
  <2>1. call.pc = "preread" /\ Good(call, kept) /\ call.pc \in Judging
    BY DEF Inv, PreRead, At, Judging
  <2>2. call.attempt = 0 /\ call.did = << >>
    BY <2>1 DEF Good, Counted, Acting
  <2> QED BY <2>1, <2>2, ViewsSeen, JudgingKnows DEF Inv, PreRead, Untouched
<1>2. /\ c1 \in Call /\ c1.pc = "preread" /\ c1.attempt = 0 /\ c1.did = << >> /\ c1.pre = Seen
      /\ Undecided(c1)
  BY <1>1 DEF Call, Undecided
<1>3. call' = IF Seen \notin Handoffs THEN e ELSE Settled(h)
  BY DEF PreRead
<1> HIDE DEF c1
<1>4. Good(call', kept)
  <2>1. CASE Seen \notin Handoffs
    <3>1. e \in Call /\ e.pc = "execute" /\ e.attempt = 0 /\ e.did = << >> /\ e.pre = Seen /\ Undecided(e)
      <4>1. "execute" \in Points
        BY DEF Points, Judging
      <4> QED BY <1>2, <4>1 DEF Call, Undecided
    <3>2. call' = e
      BY <1>3, <2>1
    <3> HIDE DEF e
    <3>3. Counted(e)
      BY <3>1 DEF Counted, Writing
    <3>4. Acting(e)
      BY <2>1, <3>1, EmptyDid DEF Acting, Undecided
    <3>5. Good(e, NothingKept)
      BY <3>1, <3>3, <3>4, JudgingGood
    <3> QED BY <1>1, <3>2, <3>5
  <2>2. CASE Seen \in Handoffs
    <3>1. h \in Call /\ h.did = << >> /\ h.guard = "pre" /\ h.status = "failed" /\ h.step = "terminal_stop"
          /\ Undecided(h)
      <4>1. /\ "failed" \in Statuses /\ "handoff" \in Reasons /\ "blocked" \in Categories
            /\ "terminal_stop" \in Steps /\ 1 \in 0 .. 3
        BY DEF Statuses, Reasons, Categories, Steps
      <4> QED BY <1>2, <4>1 DEF Call, HandedOff, Undecided
    <3>2. call' = Settled(h)
      BY <1>3, <2>2
    <3> HIDE DEF h
    <3>3. Ready(h)
      BY <3>1 DEF Ready, Backed, Undecided
    <3>4. /\ Settled(h) \in Call /\ Settled(h).pc \in {"timeline", "refresh"} /\ Decided(Settled(h))
          /\ Settled(h).guard = "pre" /\ Settled(h).did = << >>
      BY <3>1, <3>3, SettledFacts, SettledDecides DEF Kin
    <3>5. Sparing(Settled(h))
      BY <3>4, EmptyDid DEF Sparing
    <3> QED BY <1>1, <3>2, <3>4, <3>5, DecidedGood
  <2> QED BY <2>1, <2>2
<1> QED BY <1>1, <1>4 DEF Inv

\* The executor's report: OCR may follow only where no command was sent.
LEMMA ReportedFacts ==
    ASSUME call \in Call, NEW target \in Targets, NEW status \in Statuses
    PROVE  LET r == Reported(target, status)
           IN  /\ r \in Call /\ r.pc \in {"ocr", "post"} /\ r.did = call.did /\ r.attempt = call.attempt
               /\ r.pre = call.pre /\ r.guard = call.guard /\ r.candidate = call.candidate
               /\ r.refreshed = call.refreshed /\ r.verdict = call.verdict /\ r.status = status
               /\ Backed(r)
               /\ r.pc = "ocr" => /\ status # "success" /\ call.intent \in Texted
                                  /\ call.intent \in Waits \/ target \notin {"resolved", "obscured"}
<1> DEFINE reason == IF status = "success" THEN "none"
                     ELSE IF target \in {"off_screen", "no_match"} THEN "selector"
                     ELSE "other"
           c1 == [call EXCEPT !.target = target, !.status = status, !.reason = reason]
           r == [c1 EXCEPT !.pc = IF OcrMayHelp(c1) THEN "ocr" ELSE "post"]
<1>1. reason \in Reasons /\ (status = "success" => reason = "none")
  BY DEF Reasons
<1>2. Reported(target, status) = r
  BY DEF Reported
<1> HIDE DEF reason
<1>3. /\ c1 \in Call /\ c1.did = call.did /\ c1.attempt = call.attempt /\ c1.pre = call.pre
      /\ c1.guard = call.guard /\ c1.candidate = call.candidate /\ c1.refreshed = call.refreshed
      /\ c1.verdict = call.verdict /\ c1.status = status /\ c1.reason = reason
      /\ c1.intent = call.intent /\ c1.target = target
  BY <1>1 DEF Call
<1> HIDE DEF c1
<1>4. OcrMayHelp(c1) => /\ status # "success" /\ call.intent \in Texted
                        /\ call.intent \in Waits \/ target \notin {"resolved", "obscured"}
  BY <1>3 DEF OcrMayHelp
<1>5. /\ r \in Call /\ r.pc = (IF OcrMayHelp(c1) THEN "ocr" ELSE "post")
      /\ r.did = call.did /\ r.attempt = call.attempt /\ r.pre = call.pre
      /\ r.guard = call.guard /\ r.candidate = call.candidate /\ r.refreshed = call.refreshed
      /\ r.verdict = call.verdict /\ r.status = status /\ r.reason = reason
  <2>1. (IF OcrMayHelp(c1) THEN "ocr" ELSE "post") \in Points
    BY DEF Points, Judging
  <2> QED BY <1>3, <2>1 DEF Call
<1> HIDE DEF r
<1>6. Backed(r)
  BY <1>1, <1>5 DEF Backed
<1> QED BY <1>2, <1>4, <1>5, <1>6

\* Where an executor or OCR starts.
LEMMA ActingKnows ==
    ASSUME Inv, call.pc \in {"execute", "ocr", "ocrtap", "ocrpost"}
    PROVE  /\ call \in Call /\ Undecided(call) /\ Sparing(call) /\ kept = NothingKept
           /\ call.pre \notin Handoffs
           /\ call.pc \in {"execute", "ocr"} => call.attempt = 0 /\ call.did = << >>
           /\ call.pc # "execute" => call.status # "success"
           /\ call.pc = "ocrtap" => MayAct(call.did) /\ call.attempt <= 1
           /\ call.pc = "ocrpost" => call.attempt <= 2
<1>1. Good(call, kept) /\ call.pc \in Judging
  BY DEF Inv, Judging
<1> QED BY <1>1, JudgingKnows DEF Good, Counted, Earning, Acting

LEMMA ReportedGood ==
    ASSUME Inv, call.pc = "execute", NEW target \in Targets, NEW status \in Statuses
    PROVE  Good(Reported(target, status), NothingKept)
<1> DEFINE r == Reported(target, status)
<1>1. /\ r \in Call /\ r.pc \in {"ocr", "post"} /\ r.did = << >> /\ r.attempt = 0
      /\ r.pre \notin Handoffs /\ Undecided(r) /\ Backed(r) /\ (r.pc = "ocr" => r.status # "success")
  BY ActingKnows, ReportedFacts DEF Undecided
<1> HIDE DEF r
<1>2. Counted(r)
  BY <1>1 DEF Counted, Writing
<1>3. Acting(r)
  BY <1>1, EmptyDid DEF Acting
<1>4. Good(r, NothingKept)
  BY <1>1, <1>2, <1>3, JudgingGood
<1> QED BY <1>4 DEF r

LEMMA ExecuteDryStep == ASSUME Inv, ExecuteDry PROVE Inv'
<1>1. call.pc = "execute" /\ kept' = kept /\ kept = NothingKept /\ view' \in Views
  BY ViewsSeen, ActingKnows DEF Inv, ExecuteDry, At, Untouched
<1>2. "none" \in Targets /\ "success" \in Statuses /\ "partial" \in Statuses /\ "unsupported" \in Reasons
  BY DEF Targets, Statuses, Reasons
<1> DEFINE r == Reported("none", "partial")
           u == [r EXCEPT !.reason = "unsupported"]
<1>3. CASE call.intent \in Launches
  <2>1. call' = Reported("none", "success")
    BY <1>3 DEF ExecuteDry
  <2>2. Good(call', kept')
    BY <1>1, <1>2, <2>1, ReportedGood
  <2> QED BY <1>1, <2>2 DEF Inv
<1>4. CASE call.intent \notin Launches
  <2>1. /\ r \in Call /\ r.pc \in {"ocr", "post"} /\ r.status = "partial" /\ r.did = << >>
        /\ r.attempt = 0 /\ r.pre \notin Handoffs /\ Undecided(r)
    BY <1>1, <1>2, ActingKnows, ReportedFacts DEF Undecided
  <2>2. call' = u
    BY <1>4 DEF ExecuteDry
  <2> HIDE DEF r
  <2>3. /\ u \in Call /\ u.pc \in {"ocr", "post"} /\ u.status = "partial" /\ u.did = << >>
        /\ u.attempt = 0 /\ u.pre \notin Handoffs /\ Undecided(u)
    BY <1>2, <2>1 DEF Call, Undecided
  <2> HIDE DEF u
  <2>4. Counted(u) /\ Backed(u)
    BY <2>3 DEF Counted, Writing, Backed
  <2>5. Acting(u)
    BY <2>3, EmptyDid DEF Acting
  <2>6. Good(u, NothingKept)
    BY <2>3, <2>4, <2>5, JudgingGood
  <2> QED BY <1>1, <2>2, <2>6 DEF Inv
<1> QED BY <1>3, <1>4

LEMMA ExecuteStep ==
    ASSUME Inv, NEW target \in Targets, NEW status \in Statuses, Execute(target, status)
    PROVE  Inv'
<1>1. call.pc = "execute" /\ kept' = kept /\ kept = NothingKept
  BY ActingKnows DEF Execute, At
<1>2. CASE target \in {"resolved", "obscured"} \/ call.intent \in Launches
  <2> DEFINE r == Reported(target, status)
             g == Did(r, "exec")
  <2>1. view' \in Views /\ call' = g
    BY <1>2, ViewsSeen DEF Inv, Execute
  <2>2. call.intent \in Launches \/ call.intent \notin Waits
    BY <1>2 DEF Execute
  <2>3. ~(call.intent \in Launches /\ call.intent \in Texted)
    BY EvidenceAssumption
  <2>4. ~(call.intent \in Launches /\ call.intent \in Waits)
    BY EvidenceAssumption
  <2>5. /\ r \in Call /\ r.pc = "post" /\ r.did = << >> /\ r.pre \notin Handoffs
        /\ Undecided(r) /\ Backed(r)
    BY <1>1, <1>2, <2>2, <2>3, <2>4, ActingKnows, ReportedFacts DEF Undecided
  <2> HIDE DEF r
  <2>6. /\ g \in Call /\ g.pc = "post" /\ g.did = Append(r.did, "exec") /\ g.pre \notin Handoffs
        /\ Undecided(g) /\ Backed(g)
    BY <2>5, DidFacts DEF Undecided, Backed, Commands
  <2>7. Justified(Append(r.did, "exec"))
    BY <2>5, EmptyDid, CommandAdded DEF Commands
  <2> HIDE DEF g
  <2>8. Counted(g)
    BY <2>6 DEF Counted, Writing
  <2>9. Acting(g)
    BY <2>6, <2>7 DEF Acting, Guarding
  <2>10. Good(g, NothingKept)
    BY <2>6, <2>8, <2>9, JudgingGood
  <2> QED BY <1>1, <2>1, <2>10 DEF Inv
<1>3. CASE ~(target \in {"resolved", "obscured"} \/ call.intent \in Launches)
  <2>1. call' = Reported(target, status) /\ view' \in Views
    BY <1>3 DEF Execute, Inv
  <2>2. Good(call', kept')
    BY <1>1, <2>1, ReportedGood
  <2> QED BY <1>1, <2>1, <2>2 DEF Inv
<1> QED BY <1>2, <1>3

LEMMA OcrReportFacts ==
    ASSUME NEW c \in Call, NEW status \in Statuses, Undecided(c), Sparing(c)
    PROVE  LET r == OcrReport(c, status)
           IN  r \in Call /\ r.pc = "post" /\ Undecided(r) /\ Sparing(r) /\ Backed(r)
<1> DEFINE reason == IF status = "success" THEN "none" ELSE "other"
           won == (status = "success")
           r == OcrReport(c, status)
<1>1. reason \in Reasons /\ "post" \in Points /\ 0 \in 0 .. 3 /\ won \in BOOLEAN
  BY DEF Reasons, Points, Judging
<1>2. r = [c EXCEPT !.status = status, !.fallback = won, !.attempt = 0, !.reason = reason, !.pc = "post"]
  BY DEF OcrReport
<1>3. status = "success" => won
  OBVIOUS
<1> HIDE DEF reason, won, r
<1>4. /\ r \in Call /\ r.pc = "post" /\ r.status = status /\ r.fallback = won /\ r.guard = c.guard
      /\ r.candidate = c.candidate /\ r.refreshed = c.refreshed /\ r.verdict = c.verdict
      /\ r.did = c.did /\ r.pre = c.pre
  BY <1>1, <1>2 DEF Call
<1>5. Undecided(r) /\ Sparing(r) /\ Backed(r)
  BY <1>3, <1>4 DEF Undecided, Sparing, Backed
<1>6. r \in Call /\ r.pc = "post" /\ Undecided(r) /\ Sparing(r) /\ Backed(r)
  BY <1>4, <1>5
<1> QED BY <1>6 DEF r

LEMMA OcrReportGood ==
    ASSUME NEW c \in Call, NEW status \in Statuses, Undecided(c), Sparing(c)
    PROVE  Good(OcrReport(c, status), NothingKept)
<1> DEFINE r == OcrReport(c, status)
<1>1. r \in Call /\ r.pc = "post" /\ Undecided(r) /\ Sparing(r) /\ Backed(r)
  BY OcrReportFacts
<1> HIDE DEF r
<1>2. Counted(r)
  BY <1>1 DEF Counted, Writing
<1>3. Acting(r)
  BY <1>1 DEF Acting, Sparing, Guarding
<1>4. Good(r, NothingKept)
  BY <1>1, <1>2, <1>3, JudgingGood
<1> QED BY <1>4 DEF r

LEMMA OcrRefusedStep == ASSUME Inv, OcrRefused PROVE Inv'
<1> DEFINE g == [call EXCEPT !.pc = "post"]
<1>1. /\ call.pc = "ocr" /\ kept' = kept /\ kept = NothingKept /\ view' \in Views /\ call' = g
      /\ call \in Call /\ Undecided(call) /\ Sparing(call) /\ call.status # "success"
  BY ViewsSeen, ActingKnows DEF Inv, OcrRefused, At, Untouched
<1>2. g \in Call /\ g.pc = "post" /\ Undecided(g) /\ Sparing(g) /\ Backed(g)
  <2>1. "post" \in Points
    BY DEF Points, Judging
  <2> QED BY <1>1, <2>1 DEF Call, Undecided, Sparing, Backed
<1> HIDE DEF g
<1>3. Counted(g) /\ Acting(g)
  BY <1>2 DEF Counted, Acting, Sparing, Guarding, Writing
<1>4. Good(g, NothingKept)
  BY <1>2, <1>3, JudgingGood
<1> QED BY <1>1, <1>4 DEF Inv

LEMMA OcrLooksStep == ASSUME Inv, NEW found \in BOOLEAN, OcrLooks(found) PROVE Inv'
<1> DEFINE g == [call EXCEPT !.pc = "ocrtap"]
<1>1. /\ call.pc = "ocr" /\ kept' = kept /\ kept = NothingKept /\ view' \in Views
      /\ call \in Call /\ Undecided(call) /\ Sparing(call) /\ call.status # "success"
      /\ call.attempt = 0 /\ call.did = << >> /\ call.pre \notin Handoffs
  BY ViewsSeen, ActingKnows DEF Inv, OcrLooks, At, Untouched
<1>2. "failed" \in Statuses /\ "success" \in Statuses
  BY DEF Statuses
<1>3. Good(OcrReport(call, "failed"), NothingKept) /\ Good(OcrReport(call, "success"), NothingKept)
  BY <1>1, <1>2, OcrReportGood
<1>4. Good(g, NothingKept)
  <2>1. /\ g \in Call /\ g.pc = "ocrtap" /\ Undecided(g) /\ g.status # "success" /\ g.attempt = 0
        /\ g.did = << >> /\ g.pre \notin Handoffs
    <3>1. "ocrtap" \in Points
      BY DEF Points, Judging
    <3> QED BY <1>1, <3>1 DEF Call, Undecided
  <2> HIDE DEF g
  <2>2. Counted(g)
    BY <2>1 DEF Counted, Writing
  <2>3. Acting(g)
    BY <2>1, EmptyDid DEF Acting
  <2> QED BY <2>1, <2>2, <2>3, JudgingGood
<1>5. \/ call' = OcrReport(call, "failed") \/ call' = OcrReport(call, "success") \/ call' = g
  BY DEF OcrLooks
<1> HIDE DEF g
<1> QED BY <1>1, <1>3, <1>4, <1>5 DEF Inv

LEMMA OcrTapStep == ASSUME Inv, NEW ok \in BOOLEAN, OcrTap(ok) PROVE Inv'
<1> DEFINE n == call.attempt + 1
           b == [call EXCEPT !.pc = "ocrpost", !.attempt = n]
           g == Did(b, "ocr")
<1>1. /\ call.pc = "ocrtap" /\ kept' = kept /\ kept = NothingKept /\ view' \in Views
      /\ call \in Call /\ Undecided(call) /\ Sparing(call) /\ call.status # "success"
      /\ call.attempt <= 1 /\ MayAct(call.did) /\ call.pre \notin Handoffs
  BY ViewsSeen, ActingKnows DEF Inv, OcrTap, At
<1>2. CASE ok
  <2>1. call' = g
    BY <1>2 DEF OcrTap
  <2>2. n \in 0 .. 3 /\ n <= 2
    BY <1>1 DEF Call
  <2> HIDE DEF n
  <2>3. /\ b \in Call /\ b.pc = "ocrpost" /\ b.attempt = n /\ b.did = call.did /\ Undecided(b)
        /\ b.status # "success" /\ b.pre \notin Handoffs
    <3>1. "ocrpost" \in Points
      BY DEF Points, Judging
    <3> QED BY <1>1, <2>2, <3>1 DEF Call, Undecided
  <2> HIDE DEF b
  <2>4. /\ g \in Call /\ g.pc = "ocrpost" /\ g.attempt = n /\ g.did = Append(call.did, "ocr")
        /\ Undecided(g) /\ g.status # "success" /\ g.pre \notin Handoffs
    BY <2>3, DidFacts DEF Undecided, Commands
  <2>5. Justified(Append(call.did, "ocr"))
    BY <1>1, CommandAdded DEF Call, Commands, Sparing
  <2> HIDE DEF g
  <2>6. Counted(g)
    BY <2>2, <2>4 DEF Counted, Writing
  <2>7. Acting(g)
    BY <2>4, <2>5 DEF Acting, Guarding
  <2>8. Good(g, NothingKept)
    BY <2>4, <2>6, <2>7, JudgingGood
  <2> QED BY <1>1, <2>1, <2>8 DEF Inv
<1>3. CASE ~ok
  <2>1. call' = OcrReport(call, "failed") /\ "failed" \in Statuses
    BY <1>3 DEF OcrTap, Statuses
  <2>2. Good(call', kept')
    BY <1>1, <2>1, OcrReportGood
  <2> QED BY <1>1, <2>2 DEF Inv
<1> QED BY <1>2, <1>3

LEMMA OcrPostStep ==
    ASSUME Inv, NEW identity \in BOOLEAN, NEW hint \in BOOLEAN, NEW again \in BOOLEAN,
           OcrPost(identity, hint, again)
    PROVE  Inv'
<1> DEFINE c1 == Did(call, "same")
           g == [c1 EXCEPT !.pc = "ocrtap"]
<1>1. /\ call.pc = "ocrpost" /\ kept' = kept /\ kept = NothingKept /\ view' \in Views /\ Seen \in Views
      /\ call \in Call /\ Undecided(call) /\ Sparing(call) /\ call.status # "success"
      /\ call.pre \notin Handoffs
  BY ViewsSeen, ActingKnows DEF Inv, OcrPost, At, Untouched
<1>2. "failed" \in Statuses /\ "success" \in Statuses
  BY DEF Statuses
<1>3. Good(FirstJudged(OcrReport(call, "success"), Seen, hint), NothingKept)
  BY <1>1, <1>2, OcrReportFacts, FirstGood
<1>4. /\ c1 \in Call /\ c1.did = Append(call.did, "same") /\ c1.pre = call.pre /\ c1.status = call.status
      /\ c1.attempt = call.attempt /\ Undecided(c1)
  BY <1>1, DidFacts DEF Undecided, Reasonable
<1>5. Justified(c1.did) /\ MayAct(c1.did)
  BY <1>1, <1>4, ReasonAdded DEF Call, Reasonable, Sparing
<1> HIDE DEF c1
<1>6. Sparing(c1)
  BY <1>1, <1>4, <1>5 DEF Sparing
<1>7. Good(FirstJudged(OcrReport(c1, "failed"), Seen, hint), NothingKept)
  BY <1>1, <1>2, <1>4, <1>6, OcrReportFacts, FirstGood
<1>8. ASSUME call.attempt < 2 PROVE Good(g, NothingKept)
  <2>1. /\ g \in Call /\ g.pc = "ocrtap" /\ g.did = c1.did /\ g.pre \notin Handoffs
        /\ g.attempt = call.attempt /\ g.status # "success" /\ Undecided(g)
    <3>1. "ocrtap" \in Points
      BY DEF Points, Judging
    <3> QED BY <1>1, <1>4, <3>1 DEF Call, Undecided
  <2>2. call.attempt <= 1
    BY <1>1, <1>8 DEF Call
  <2> HIDE DEF g
  <2>3. Counted(g)
    BY <2>1, <2>2 DEF Counted, Writing
  <2>4. Acting(g)
    BY <1>5, <2>1 DEF Acting, Guarding
  <2> QED BY <2>1, <2>3, <2>4, JudgingGood
<1>9. \/ call' = FirstJudged(OcrReport(call, "success"), Seen, hint)
      \/ call.attempt < 2 /\ call' = g
      \/ call' = FirstJudged(OcrReport(c1, "failed"), Seen, hint)
  <2>1. c1 = Did(call, "same")
    BY DEF c1
  <2> QED BY <1>4, <2>1 DEF OcrPost
<1> HIDE DEF g
<1>10. Good(call', NothingKept)
  BY <1>3, <1>7, <1>8, <1>9
<1> QED BY <1>1, <1>10 DEF Inv

LEMMA PostReadStep == ASSUME Inv, NEW hint \in BOOLEAN, PostRead(hint) PROVE Inv'
<1>1. /\ call.pc = "post" /\ Good(call, kept) /\ kept' = kept /\ view' \in Views /\ Seen \in Views
      /\ call' = FirstJudged(call, Seen, hint) /\ call.pc \in Judging
  BY ViewsSeen DEF Inv, PostRead, At, Untouched, Judging
<1>2. call \in Call /\ Undecided(call) /\ Sparing(call) /\ kept = NothingKept /\ Backed(call)
  BY <1>1, JudgingKnows DEF Good, Earning
<1>3. Good(call', kept')
  BY <1>1, <1>2, FirstGood
<1> QED BY <1>1, <1>3 DEF Inv

LEMMA RetryReadStep == ASSUME Inv, NEW hint \in BOOLEAN, RetryRead(hint) PROVE Inv'
<1> DEFINE j == Judged(call, Seen)
           n == call.attempt + 1
           c1 == [j EXCEPT !.attempt = n]
<1>1. /\ call.pc = "retry" /\ Good(call, kept) /\ kept' = kept /\ view' \in Views /\ Seen \in Views
      /\ call.pc \in Judging
  BY ViewsSeen DEF Inv, RetryRead, At, Untouched, Judging
<1>2. /\ call \in Call /\ Undecided(call) /\ Sparing(call) /\ kept = NothingKept /\ Ready(call)
      /\ call.attempt < call.limit
  BY <1>1, JudgingKnows DEF Good, Earning, Counted
<1>3. n \in 0 .. 3
  BY <1>2 DEF Call
<1>4. j \in Call /\ Peer(j, call) /\ Ready(j)
  BY <1>1, <1>2, JudgedFacts DEF Peer, Ready, Backed
<1> HIDE DEF j
<1>5. call' = IF ~Changed(c1) /\ ShouldRetry(c1, hint) THEN c1 ELSE Settled(c1)
  <2>1. j.attempt = call.attempt
    BY <1>4 DEF Peer
  <2> QED BY <2>1 DEF RetryRead, j
<1> HIDE DEF n
<1>6. /\ c1 \in Call /\ c1.pc = "retry" /\ c1.guard = "pre" /\ Ready(c1) /\ c1.attempt = n
      /\ c1.did = call.did /\ c1.pre = call.pre
  BY <1>1, <1>2, <1>3, <1>4 DEF Call, Peer, Ready, Backed, Undecided
<1> HIDE DEF c1
<1>7. Sparing(c1)
  BY <1>2, <1>6 DEF Sparing
<1>8. ASSUME ShouldRetry(c1, hint) PROVE Good(c1, NothingKept)
  BY <1>6, <1>7, <1>8, RetryGood DEF ShouldRetry
<1>9. Good(Settled(c1), NothingKept)
  <2>1. /\ Settled(c1) \in Call /\ Settled(c1).pc \in {"timeline", "refresh"} /\ Decided(Settled(c1))
        /\ Kin(Settled(c1), c1)
    BY <1>6, SettledFacts, SettledDecides
  <2>2. Settled(c1).guard = "pre" /\ Sparing(Settled(c1))
    BY <1>6, <1>7, <2>1 DEF Kin, Sparing
  <2> QED BY <2>1, <2>2, DecidedGood
<1>10. Good(call', NothingKept)
  BY <1>5, <1>8, <1>9
<1> QED BY <1>1, <1>2, <1>10 DEF Inv

LEMMA RefreshStep == ASSUME Inv, Refresh PROVE Inv'
<1> DEFINE c1 == [call EXCEPT !.post = Seen, !.refreshed = TRUE]
           c2 == [c1 EXCEPT !.category = Category(c1)]
           h == HandedOff(c2, "partial")
<1>1. /\ call.pc = "refresh" /\ Good(call, kept) /\ kept' = kept /\ view' \in Views /\ Seen \in Views
      /\ call.pc \in Judging
  BY ViewsSeen DEF Inv, Refresh, At, Untouched, Judging
<1>2. /\ call \in Call /\ Undecided(call) /\ Sparing(call) /\ kept = NothingKept /\ Decided(call)
      /\ ~Changed(call)
  BY <1>1, JudgingKnows DEF Good, Earning, Decided
<1>3. call' = Concluded(IF Seen = call.post THEN call ELSE IF Seen \in Handoffs THEN h ELSE c2)
  BY DEF Refresh
<1>4. ASSUME NEW x \in Call, x.guard = "pre", Backed(x), x.candidate = FALSE, Sparing(x),
             x.status = "success" => x.post \notin Handoffs /\ (Dead(x.post) => x.refreshed),
             x.refreshed => Changed(x)
      PROVE  Good(Concluded(x), NothingKept)
  <2> DEFINE g == Concluded(x)
  <2>1. /\ g \in Call /\ g.pc = "timeline" /\ g.guard = "pre" /\ g.verdict = g.status /\ g.attempt = 0
        /\ g.status = x.status /\ g.reason = x.reason /\ g.fallback = x.fallback /\ g.post = x.post
        /\ g.pre = x.pre /\ g.did = x.did /\ g.refreshed = x.refreshed /\ g.candidate = FALSE
    <3>1. "timeline" \in Points /\ x.status \in Statuses \cup {"none"} /\ 0 \in 0 .. 3
      BY DEF Call, Points, Writing
    <3> QED BY <1>4, <3>1 DEF Call, Concluded
  <2> HIDE DEF g
  <2>2. Backed(g) /\ Sparing(g) /\ Changed(g) = Changed(x)
    BY <1>4, <2>1 DEF Backed, Sparing, Changed
  <2>3. Good(g, NothingKept)
    BY <1>4, <2>1, <2>2, ConcludedGood
  <2> QED BY <2>3 DEF g
<1>5. /\ c1 \in Call /\ c1.guard = "pre" /\ c1.candidate = FALSE /\ c1.post = Seen /\ c1.refreshed = TRUE
      /\ c1.pre = call.pre /\ c1.status = call.status /\ c1.reason = call.reason
      /\ c1.fallback = call.fallback /\ c1.did = call.did
  BY <1>1, <1>2 DEF Call, Undecided
<1> HIDE DEF c1
<1>6. /\ c2 \in Call /\ c2.guard = "pre" /\ c2.candidate = FALSE /\ c2.post = Seen /\ c2.refreshed = TRUE
      /\ c2.pre = call.pre /\ c2.status = call.status /\ c2.reason = call.reason
      /\ c2.fallback = call.fallback /\ c2.did = call.did
  BY <1>5, CategoryType DEF Call
<1> HIDE DEF c2
<1>7. /\ h \in Call /\ h.guard = "pre" /\ h.candidate = FALSE /\ h.post = Seen /\ h.refreshed = TRUE
      /\ h.pre = call.pre /\ h.status = "partial" /\ h.did = call.did
  <2>1. /\ "partial" \in Statuses /\ "handoff" \in Reasons /\ "blocked" \in Categories
        /\ "terminal_stop" \in Steps
    BY DEF Statuses, Reasons, Categories, Steps
  <2> QED BY <1>6, <2>1 DEF Call, HandedOff
<1> HIDE DEF h
<1>8. CASE Seen = call.post
  <2>1. call' = Concluded(call)
    BY <1>3, <1>8
  <2>2. /\ call.candidate = FALSE /\ ~call.refreshed /\ call.guard = "pre" /\ Backed(call)
        /\ call.status = "success" => call.post \notin Handoffs /\ ~Dead(call.post)
    BY <1>2 DEF Decided, Undecided, Call
  <2>3. Good(Concluded(call), NothingKept)
    BY <1>2, <1>4, <2>2
  <2> QED BY <1>1, <1>2, <2>1, <2>3 DEF Inv
<1>9. CASE Seen # call.post /\ Seen \in Handoffs
  <2>1. call' = Concluded(h)
    BY <1>3, <1>9
  <2>2. Backed(h) /\ Sparing(h) /\ Changed(h)
    BY <1>2, <1>7, <1>9 DEF Backed, Sparing, Changed
  <2>3. Good(Concluded(h), NothingKept)
    BY <1>4, <1>7, <2>2
  <2> QED BY <1>1, <1>2, <2>1, <2>3 DEF Inv
<1>10. CASE Seen # call.post /\ Seen \notin Handoffs
  <2>1. call' = Concluded(c2)
    BY <1>3, <1>10
  <2>2. Backed(c2) /\ Sparing(c2) /\ Changed(c2)
    BY <1>2, <1>6, <1>10 DEF Backed, Decided, Sparing, Changed
  <2>3. Good(Concluded(c2), NothingKept)
    BY <1>4, <1>6, <1>10, <2>2
  <2> QED BY <1>1, <1>2, <2>1, <2>3 DEF Inv
<1> QED BY <1>8, <1>9, <1>10
-----------------------------------------------------------------------------
(* What is kept.                                                           *)
LEMMA KeepTimelineStep == ASSUME Inv, KeepTimeline PROVE Inv'
<1> DEFINE p == IF kept.timeline + 1 < 2 THEN "timeline"
                ELSE IF call.verdict = "success" THEN "baseline" ELSE "record"
           g == [call EXCEPT !.pc = p]
           k == [kept EXCEPT !.timeline = kept.timeline + 1]
<1>1. /\ call.pc = "timeline" /\ call.pc \in Writing /\ Good(call, kept) /\ call \in Call /\ kept \in Kept
      /\ view' \in Views /\ kept.timeline < 2 /\ ~kept.baseline /\ kept.record = "none"
  BY DEF Inv, KeepTimeline, At, Writing, Good, Keeping
<1>2. /\ k \in Kept /\ k.timeline = kept.timeline + 1 /\ k.baseline = FALSE /\ k.record = "none"
      /\ k.timeline <= 2
  <2>1. kept.timeline + 1 \in 0 .. 2
    BY <1>1 DEF Kept
  <2> QED BY <1>1, <2>1 DEF Kept
<1>3. kept' = k /\ call' = g
  BY <1>2 DEF KeepTimeline
<1>4. p \in Writing /\ (p = "timeline" => k.timeline < 2) /\ (p # "timeline" => k.timeline = 2)
      /\ (p = "baseline" => call.verdict = "success") /\ (p = "record" => call.verdict # "success")
  BY <1>1, <1>2 DEF Writing, Kept
<1> HIDE DEF p, k
<1>5. g \in Call /\ g.pc = p /\ g.attempt = call.attempt /\ Aside(g, call)
  <2>1. p \in Points
    BY <1>4 DEF Points
  <2> QED BY <1>1, <2>1 DEF Call, Aside
<1> HIDE DEF g
<1>6. Counted(g)
  BY <1>1, <1>4, <1>5 DEF Good, Counted, Writing
<1>7. Keeping(g, k)
  BY <1>1, <1>2, <1>4, <1>5 DEF Good, Keeping, Aside, Guarding, Judging, Writing, Resuming
<1>8. Earning(g)
  BY <1>1, <1>4, <1>5 DEF Good, Earning, Aside, Backed, Changed, Guarding, Judging, Writing, Resuming
<1>9. Acting(g)
  BY <1>1, <1>4, <1>5 DEF Good, Acting, Aside, Guarding, Writing
<1> QED BY <1>1, <1>2, <1>3, <1>5, <1>6, <1>7, <1>8, <1>9 DEF Inv, Good

LEMMA KeepBaselineStep == ASSUME Inv, KeepBaseline PROVE Inv'
<1> DEFINE g == [call EXCEPT !.pc = "record"]
           k == [kept EXCEPT !.baseline = TRUE]
<1>1. /\ call.pc = "baseline" /\ call.pc \in Writing /\ Good(call, kept) /\ call \in Call /\ kept \in Kept
      /\ view' \in Views /\ kept.timeline = 2 /\ call.verdict = "success" /\ kept.record = "none"
  BY DEF Inv, KeepBaseline, At, Writing, Good, Keeping
<1>2. k \in Kept /\ k.timeline = 2 /\ k.baseline = TRUE /\ k.record = "none"
  BY <1>1 DEF Kept
<1>3. kept' = k /\ call' = g
  BY DEF KeepBaseline
<1> HIDE DEF k
<1>4. g \in Call /\ g.pc = "record" /\ g.attempt = call.attempt /\ Aside(g, call)
  <2>1. "record" \in Points
    BY DEF Points, Writing
  <2> QED BY <1>1, <2>1 DEF Call, Aside
<1> HIDE DEF g
<1>5. Counted(g)
  BY <1>1, <1>4 DEF Good, Counted, Writing
<1>6. Keeping(g, k)
  BY <1>1, <1>2, <1>4 DEF Good, Keeping, Aside, Guarding, Judging, Writing, Resuming
<1>7. Earning(g)
  BY <1>1, <1>4 DEF Good, Earning, Aside, Backed, Changed, Guarding, Judging, Writing, Resuming
<1>8. Acting(g)
  BY <1>1, <1>4 DEF Good, Acting, Aside, Guarding, Writing
<1> QED BY <1>1, <1>2, <1>3, <1>4, <1>5, <1>6, <1>7, <1>8 DEF Inv, Good

LEMMA KeepRecordStep == ASSUME Inv, KeepRecord PROVE Inv'
<1> DEFINE g == [call EXCEPT !.pc = "detect", !.guard = "post"]
           k == [kept EXCEPT !.record = call.verdict]
<1>1. /\ call.pc = "record" /\ call.pc \in Writing /\ Good(call, kept) /\ call \in Call /\ kept \in Kept
      /\ view' \in Views /\ kept.timeline = 2 /\ kept.baseline = (call.verdict = "success")
      /\ call.status = call.verdict
  BY DEF Inv, KeepRecord, At, Writing, Good, Keeping
<1>2. call.verdict \in Statuses /\ call.verdict # "none"
  BY <1>1 DEF Call, Statuses
<1>3. k \in Kept /\ k.timeline = 2 /\ k.baseline = (call.verdict = "success") /\ k.record = call.verdict
  BY <1>1, <1>2 DEF Kept
<1>4. kept' = k /\ call' = g
  BY DEF KeepRecord
<1> HIDE DEF k
<1>5. /\ g \in Call /\ g.pc = "detect" /\ g.guard = "post" /\ g.attempt = call.attempt
      /\ g.pre = call.pre /\ g.post = call.post /\ g.status = call.status /\ g.reason = call.reason
      /\ g.fallback = call.fallback /\ g.refreshed = call.refreshed /\ g.candidate = call.candidate
      /\ g.verdict = call.verdict /\ g.did = call.did
  <2>1. "detect" \in Points
    BY DEF Points, Guarding
  <2> QED BY <1>1, <2>1 DEF Call
<1> HIDE DEF g
<1>6. Counted(g)
  BY <1>1, <1>5 DEF Good, Counted, Writing
<1>7. Keeping(g, k)
  BY <1>1, <1>2, <1>3, <1>5 DEF Keeping, Guarding, Judging, Writing, Resuming
<1>8. Earning(g)
  BY <1>1, <1>5 DEF Good, Earning, Backed, Changed, Guarding, Judging, Writing, Resuming
<1>9. Acting(g)
  BY <1>1, <1>5 DEF Good, Acting, Guarding, Writing
<1> QED BY <1>1, <1>3, <1>4, <1>5, <1>6, <1>7, <1>8, <1>9 DEF Inv, Good
-----------------------------------------------------------------------------
(* The resume, and what else may happen.                                   *)
LEMMA ResumingKnows ==
    ASSUME NEW c, NEW k, Good(c, k), c.pc \in Resuming
    PROVE  /\ c \in Call /\ c.guard = "post" /\ k.record = c.verdict /\ c.status = c.verdict
           /\ k.record # "none" /\ k.timeline = 2 /\ k.baseline = (c.verdict = "success")
           /\ Justified(c.did) /\ (c.pc \in {"before", "resume"} => MayAct(c.did))
<1>1. c.guard = "post" /\ c.pc \notin {"done", "dead"}
  BY DEF Good, Keeping, Resuming
<1> QED BY <1>1 DEF Good, Keeping, Acting

\* After the verdict only the status, the reason and the place change.
LEMMA AfterGood ==
    ASSUME NEW c, NEW k, Good(c, k), c.guard = "post", NEW g \in Call,
           g.pc \in Resuming \cup {"rerecord"}, g.guard = "post", g.pre = c.pre, g.post = c.post,
           g.fallback = c.fallback, g.refreshed = c.refreshed, g.candidate = c.candidate,
           g.verdict = c.verdict, k.record = c.verdict,
           \/ g.status = c.status /\ g.reason = c.reason /\ c.status = c.verdict /\ g.pc \in Resuming
           \/ g.status = "failed" /\ g.pc = "rerecord",
           Justified(g.did), g.pc \in {"before", "resume"} => MayAct(g.did),
           g.pre \in Handoffs => \A n \in Acts(g.did) : g.did[n] = "resume"
    PROVE  Good(g, k)
<1>1. Counted(g)
  BY DEF Counted, Writing, Resuming
<1>2. Keeping(g, k)
  BY DEF Good, Keeping, Guarding, Judging, Writing, Resuming
<1>3. Earning(g)
  BY DEF Good, Earning, Backed, Changed, Guarding, Judging, Writing, Resuming
<1>4. Acting(g)
  BY DEF Acting, Guarding, Resuming
<1> QED BY <1>1, <1>2, <1>3, <1>4 DEF Good

LEMMA ResumeBeforeStep == ASSUME Inv, ResumeBefore PROVE Inv'
<1> DEFINE g == [call EXCEPT !.mark = Seen, !.pc = "resume"]
<1>1. /\ call.pc = "before" /\ call.pc \in Resuming /\ Good(call, kept) /\ kept' = kept /\ view' \in Views
      /\ Seen \in Views /\ call' = g
  BY ViewsSeen DEF Inv, ResumeBefore, At, Untouched, Resuming
<1>2. /\ call \in Call /\ call.guard = "post" /\ kept.record = call.verdict /\ call.status = call.verdict
      /\ Justified(call.did) /\ MayAct(call.did)
      /\ call.pre \in Handoffs => \A n \in Acts(call.did) : call.did[n] = "resume"
  BY <1>1, ResumingKnows DEF Good, Acting
<1>3. g \in Call /\ g.pc = "resume" /\ g.guard = "post"
  <2>1. "resume" \in Points
    BY DEF Points, Resuming
  <2> QED BY <1>1, <1>2, <2>1 DEF Call
<1>4. /\ g.pre = call.pre /\ g.post = call.post /\ g.fallback = call.fallback /\ g.refreshed = call.refreshed
      /\ g.candidate = call.candidate /\ g.verdict = call.verdict /\ g.status = call.status
      /\ g.reason = call.reason /\ g.did = call.did
  BY <1>2 DEF Call
<1> HIDE DEF g
<1>5. g.pc \in Resuming
  BY <1>3 DEF Resuming
<1>6. Good(g, kept)
  BY <1>1, <1>2, <1>3, <1>4, <1>5, AfterGood
<1> QED BY <1>1, <1>6 DEF Inv

LEMMA ResumeStep == ASSUME Inv, NEW ok \in BOOLEAN, Resume(ok) PROVE Inv'
<1> DEFINE p == IF ok THEN "after" ELSE "failed"
           c1 == [call EXCEPT !.pc = p]
           g == Did(c1, "resume")
<1>1. /\ call.pc = "resume" /\ call.pc \in Resuming /\ Good(call, kept) /\ kept' = kept
      /\ view' \in Views
  BY ViewsSeen DEF Inv, Resume, At, Resuming
<1>2. /\ call \in Call /\ call.guard = "post" /\ kept.record = call.verdict /\ call.status = call.verdict
      /\ Justified(call.did) /\ MayAct(call.did)
      /\ call.pre \in Handoffs => \A n \in Acts(call.did) : call.did[n] = "resume"
  BY <1>1, ResumingKnows DEF Good, Acting
<1>3. call' = c1 \/ call' = g
  BY DEF Resume
<1>4. p \in {"after", "failed"}
  OBVIOUS
<1> HIDE DEF p
<1>5. /\ c1 \in Call /\ c1.pc = p /\ c1.guard = "post" /\ Aside(c1, call)
  <2>1. p \in Points
    BY <1>4 DEF Points, Resuming
  <2> QED BY <1>2, <2>1 DEF Call, Aside
<1>6. p \in Resuming /\ p \notin {"before", "resume"}
  BY <1>4 DEF Resuming
<1> HIDE DEF c1
<1>7. Good(c1, kept)
  BY <1>1, <1>2, <1>5, <1>6, AfterGood DEF Aside
<1>8. /\ g \in Call /\ g.pc = p /\ g.guard = "post" /\ g.pre = call.pre /\ g.post = call.post
      /\ g.fallback = call.fallback /\ g.refreshed = call.refreshed
      /\ g.candidate = call.candidate /\ g.verdict = call.verdict /\ g.status = call.status
      /\ g.reason = call.reason /\ g.did = Append(call.did, "resume")
  BY <1>5, DidFacts DEF Aside, Commands
<1>9. /\ Justified(Append(call.did, "resume"))
      /\ \A n \in Acts(Append(call.did, "resume")) :
            \/ Append(call.did, "resume")[n] = "resume"
            \/ n \in Acts(call.did) /\ Append(call.did, "resume")[n] = call.did[n]
  BY <1>2, CommandAdded DEF Call, Commands
<1> HIDE DEF g
<1>10. g.pre \in Handoffs => \A n \in Acts(g.did) : g.did[n] = "resume"
  BY <1>2, <1>8, <1>9
<1>11. Good(g, kept)
  BY <1>1, <1>2, <1>6, <1>8, <1>9, <1>10, AfterGood
<1> QED BY <1>1, <1>3, <1>7, <1>11 DEF Inv

LEMMA ResumeAfterStep == ASSUME Inv, ResumeAfter PROVE Inv'
<1> DEFINE drift == <<call.mark, Seen>> \in Drifts
           reason == IF drift THEN "drift" ELSE "other"
           d == [call EXCEPT !.pc = "done", !.mark = Canned]
           g == [call EXCEPT !.pc = "rerecord", !.status = "failed", !.mark = Canned, !.reason = reason]
<1>1. /\ call.pc \in {"after", "failed"} /\ call.pc \in Resuming /\ Good(call, kept) /\ kept' = kept
      /\ view' \in Views /\ Canned \in Views
  BY ViewsSeen, EvidenceAssumption DEF Inv, ResumeAfter, Untouched, Resuming
<1>2. /\ call \in Call /\ call.guard = "post" /\ kept.record = call.verdict /\ call.status = call.verdict
      /\ Justified(call.did)
      /\ call.pre \in Handoffs => \A n \in Acts(call.did) : call.did[n] = "resume"
  BY <1>1, ResumingKnows DEF Good, Acting
<1>3. call' = d \/ call' = g
  BY DEF ResumeAfter
<1>4. reason \in Reasons
  BY DEF Reasons
<1> HIDE DEF reason
<1>5. Good(d, kept)
  <2>1. /\ d \in Call /\ d.pc = "done" /\ d.guard = "post" /\ d.pre = call.pre /\ d.post = call.post
        /\ d.fallback = call.fallback /\ d.refreshed = call.refreshed
        /\ d.candidate = call.candidate /\ d.verdict = call.verdict /\ d.status = call.status
        /\ d.reason = call.reason /\ d.did = call.did
    <3>1. "done" \in Points
      BY DEF Points
    <3> QED BY <1>1, <1>2, <3>1 DEF Call
  <2> HIDE DEF d
  <2>2. Counted(d)
    BY <2>1 DEF Counted, Writing
  <2>3. Keeping(d, kept)
    BY <1>1, <1>2, <2>1 DEF Good, Keeping, Guarding, Judging, Writing, Resuming
  <2>4. Earning(d)
    BY <1>1, <1>2, <2>1 DEF Good, Earning, Backed, Changed, Guarding, Judging, Writing, Resuming
  <2>5. Acting(d)
    BY <1>2, <2>1 DEF Acting, Guarding
  <2> QED BY <2>1, <2>2, <2>3, <2>4, <2>5 DEF Good
<1>6. Good(g, kept)
  <2>1. /\ g \in Call /\ g.pc = "rerecord" /\ g.guard = "post" /\ g.pre = call.pre /\ g.post = call.post
        /\ g.fallback = call.fallback /\ g.refreshed = call.refreshed
        /\ g.candidate = call.candidate /\ g.verdict = call.verdict /\ g.status = "failed"
        /\ g.did = call.did
    <3>1. "rerecord" \in Points /\ "failed" \in Statuses
      BY DEF Points, Statuses
    <3> QED BY <1>1, <1>2, <1>4, <3>1 DEF Call
  <2> HIDE DEF g
  <2> QED BY <1>1, <1>2, <2>1, AfterGood
<1> HIDE DEF d, g
<1> QED BY <1>1, <1>3, <1>5, <1>6 DEF Inv

LEMMA RerecordStep == ASSUME Inv, NEW differs \in BOOLEAN, Rerecord(differs) PROVE Inv'
<1> DEFINE k == [kept EXCEPT !.record = call.status]
           g == [call EXCEPT !.pc = "done"]
<1>1. /\ call.pc = "rerecord" /\ Good(call, kept) /\ kept \in Kept /\ view' \in Views /\ call' = g
      /\ call \in Call
  BY DEF Inv, Rerecord, At, Good
<1>2. /\ call.guard = "post" /\ call.status = "failed" /\ kept.record = call.verdict /\ kept.record # "none"
      /\ kept.timeline = 2 /\ kept.baseline = (call.verdict = "success")
  <2>1. call.guard = "post" /\ call.pc \notin {"done", "dead"}
    BY <1>1 DEF Good, Keeping
  <2> QED BY <1>1, <2>1 DEF Good, Keeping
<1>3. (kept' = k) \/ (kept' = kept /\ call.verdict = call.status)
  BY DEF Rerecord
<1>4. k \in Kept /\ k.record = "failed" /\ k.timeline = 2 /\ k.baseline = (call.verdict = "success")
  <2>1. "failed" \in Statuses \cup {"none"}
    BY DEF Statuses
  <2> QED BY <1>1, <1>2, <2>1 DEF Kept
<1> HIDE DEF k
<1>5. /\ kept' \in Kept /\ kept'.record = "failed" /\ kept'.timeline = 2
      /\ kept'.baseline = (call.verdict = "success")
  BY <1>1, <1>2, <1>3, <1>4
<1>6. g \in Call /\ g.pc = "done" /\ Aside(g, call)
  <2>1. "done" \in Points
    BY DEF Points
  <2> QED BY <1>1, <2>1 DEF Call, Aside
<1> HIDE DEF g
<1>7. Counted(g)
  BY <1>6 DEF Counted, Writing
<1>8. Keeping(g, kept')
  BY <1>2, <1>5, <1>6 DEF Keeping, Aside, Guarding, Judging, Writing, Resuming
<1>9. Earning(g)
  BY <1>1, <1>2, <1>6 DEF Good, Earning, Aside, Backed, Changed, Guarding, Judging, Writing, Resuming
<1>10. Acting(g)
  BY <1>1, <1>2, <1>6 DEF Good, Acting, Aside, Guarding
<1> QED BY <1>1, <1>5, <1>6, <1>7, <1>8, <1>9, <1>10 DEF Inv, Good

LEMMA CrashStep == ASSUME Inv, Crash PROVE Inv'
<1> DEFINE g == [call EXCEPT !.pc = "dead"]
<1>1. /\ call.pc \notin {"idle", "done", "dead"} /\ Good(call, kept) /\ call \in Call /\ kept' = kept
      /\ view' \in Views /\ call' = g
  BY ViewsSeen DEF Inv, Crash, Good, Untouched
<1>2. g \in Call /\ g.pc = "dead" /\ Aside(g, call)
  <2>1. "dead" \in Points
    BY DEF Points
  <2> QED BY <1>1, <2>1 DEF Call, Aside
<1> HIDE DEF g
<1>3. Counted(g)
  BY <1>2 DEF Counted, Writing
<1>4. Keeping(g, kept)
  BY <1>1, <1>2 DEF Good, Keeping, Aside, Guarding, Judging, Writing, Resuming
<1>5. Earning(g)
  BY <1>1, <1>2 DEF Good, Earning, Aside, Backed, Changed, Guarding, Judging, Writing, Resuming
<1>6. Acting(g)
  BY <1>1, <1>2 DEF Good, Acting, Aside, Guarding
<1> QED BY <1>1, <1>2, <1>3, <1>4, <1>5, <1>6 DEF Inv, Good
-----------------------------------------------------------------------------
LEMMA StepInv == ASSUME Inv, [Next]_vars PROVE Inv'
<1>1. ASSUME NEW i \in Intents, NEW dry \in BOOLEAN, Begin(i, dry) PROVE Inv'
  BY <1>1, BeginStep
<1>2. CASE Detect \/ Verify \/ PreRead \/ ExecuteDry \/ OcrRefused
  BY <1>2, DetectStep, VerifyStep, PreReadStep, ExecuteDryStep, OcrRefusedStep
<1>3. ASSUME NEW ok \in BOOLEAN, Dismiss(ok) \/ OcrLooks(ok) \/ OcrTap(ok) \/ Resume(ok) \/ Rerecord(ok)
      PROVE  Inv'
  BY <1>3, DismissStep, OcrLooksStep, OcrTapStep, ResumeStep, RerecordStep
<1>4. ASSUME NEW target \in Targets, NEW status \in Statuses, Execute(target, status) PROVE Inv'
  BY <1>4, ExecuteStep
<1>5. ASSUME NEW hint \in BOOLEAN, PostRead(hint) \/ RetryRead(hint) PROVE Inv'
  BY <1>5, PostReadStep, RetryReadStep
<1>6. ASSUME NEW identity \in BOOLEAN, NEW hint \in BOOLEAN, NEW again \in BOOLEAN,
             OcrPost(identity, hint, again)
      PROVE  Inv'
  BY <1>6, OcrPostStep
<1>7. CASE Refresh \/ KeepTimeline \/ KeepBaseline \/ KeepRecord
  BY <1>7, RefreshStep, KeepTimelineStep, KeepBaselineStep, KeepRecordStep
<1>8. CASE ResumeBefore \/ ResumeAfter \/ Crash
  BY <1>8, ResumeBeforeStep, ResumeAfterStep, CrashStep
<1>9. CASE AppMoves
  BY <1>9, ViewsSeen DEF AppMoves, Inv
<1>10. CASE UNCHANGED vars
  BY <1>10 DEF vars, Inv
<1>11. \A target \in {"resolved", "obscured", "disabled", "off_screen", "no_match", "none"},
          status \in {"success", "partial", "failed"} : Execute(target, status) => Inv'
  BY <1>4 DEF Targets, Statuses
<1> QED BY <1>1, <1>2, <1>3, <1>5, <1>6, <1>7, <1>8, <1>9, <1>10, <1>11 DEF Next

(* Inv is inductive: it links the place an action has reached to its counters, *)
(* to what is kept, to what the device got and to what a success rests on.     *)
THEOREM Invariant == Spec => []Inv
BY InitInv, StepInv, PTL DEF Spec

(* Every step keeps the types: no loop counts past its limit of three, and a  *)
(* record carries a status of the contract.                                   *)
THEOREM TypeCorrect == Spec => []TypeOK
<1>1. Inv => TypeOK
  <2> SUFFICES ASSUME Inv PROVE TypeOK
    OBVIOUS
  <2>1. view \in Views /\ kept \in Kept /\ call \in Call
    BY DEF Inv, Good
  <2>2. kept \in [timeline : 0 .. 2, baseline : BOOLEAN, record : {"none", "success", "partial", "failed"}]
    <3>1. Statuses \cup {"none"} = {"none", "success", "partial", "failed"}
      BY DEF Statuses
    <3> QED BY <2>1, <3>1 DEF Kept
  <2> QED BY <2>1, <2>2 DEF TypeOK, Call, Statuses
<1> QED BY <1>1, Invariant, PTL

(* However the app moves and the process dies, no action touches the device   *)
(* twice without a read that showed the state before it or a dismissed        *)
(* interruption in between, and none taps where a handoff was due.            *)
THEOREM NeverBlind == Spec => []NoBlindRepeat
<1>1. Inv => NoBlindRepeat
  <2> SUFFICES ASSUME Inv PROVE NoBlindRepeat
    OBVIOUS
  <2>1. Justified(call.did) /\ (call.pre \in Handoffs => \A n \in Acts(call.did) : call.did[n] = "resume")
    BY DEF Inv, Good, Acting
  <2>2. \A n \in DOMAIN call.did : call.did[n] \in {"exec", "ocr", "resume"} <=> n \in Acts(call.did)
    BY DEF Acts, Commands
  <2> QED BY <2>1, <2>2 DEF NoBlindRepeat, Justified, Reasonable
<1> QED BY <1>1, Invariant, PTL

(* The record carries the status the caller got, with its timeline and, for a *)
(* success, its baseline entry: at every point where the process may die.     *)
THEOREM RecordsTold == Spec => []RecordsAgree
<1>1. Inv => RecordsAgree
  <2> SUFFICES ASSUME Inv PROVE RecordsAgree
    OBVIOUS
  <2>1. Keeping(call, kept) /\ call.guard \in {"pre", "post"}
    BY DEF Inv, Good, Call
  <2>2. At("done") => \/ kept.record = call.status
                      \/ kept = NothingKept /\ call.guard = "pre" /\ call.status = "failed"
    BY <2>1 DEF Keeping, At, Writing
  <2>3. /\ kept.record # "none" => /\ kept.timeline = 2 /\ kept.baseline = (call.verdict = "success")
                                   /\ kept.record \in {call.verdict, "failed"}
        /\ kept.baseline => call.verdict = "success"
    BY <2>1 DEF Keeping
  <2> QED BY <2>2, <2>3 DEF RecordsAgree
<1> QED BY <1>1, Invariant, PTL

(* A success rests on what the executor or OCR reported and on a last state   *)
(* that neither asks for a handoff nor is terminal, unless a refresh read it. *)
THEOREM SuccessEarned == Spec => []SuccessIsEarned
<1>1. Inv => SuccessIsEarned
  <2> SUFFICES ASSUME Inv PROVE SuccessIsEarned
    OBVIOUS
  <2>1. Keeping(call, kept) /\ Earning(call) /\ call.guard \in {"pre", "post"}
    BY DEF Inv, Good, Call
  <2>2. ASSUME At("done"), call.status = "success"
        PROVE  /\ call.fallback \/ call.reason = "none"
               /\ call.verdict = "success" /\ call.post \notin Handoffs
               /\ Dead(call.post) => call.refreshed
               /\ call.refreshed => Changed(call)
    <3>1. call.guard = "post"
      BY <2>1, <2>2 DEF Keeping, At, Writing
    <3>2. Backed(call) /\ call.verdict = "success"
      BY <2>1, <2>2, <3>1 DEF Earning
    <3>3. call.post \notin Handoffs
      BY <2>1, <3>1, <3>2 DEF Earning
    <3>5. Dead(call.post) => call.refreshed
      BY <2>1, <3>1, <3>2, Zenon DEF Earning
    <3>4. call.refreshed => Changed(call)
      BY <2>1 DEF Earning
    <3> QED BY <2>2, <3>2, <3>3, <3>4, <3>5 DEF Backed
  <2>3. call.candidate => call.verdict \in {"none", "success"} /\ Changed(call) /\ ~Dead(call.post)
    BY <2>1 DEF Earning
  <2> QED BY <2>2, <2>3 DEF SuccessIsEarned
<1> QED BY <1>1, Invariant, PTL
=============================================================================
