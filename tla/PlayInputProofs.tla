--------------------------- MODULE PlayInputProofs ---------------------------
(***************************************************************************)
(* The guest parses what the host has parsed and serialized.  There        *)
(* Planned, a fold over the steps, stays opaque: that both sides add up    *)
(* the same steps is all that is needed.  The end of the module is about   *)
(* the fold itself: it adds up what it is given, by induction on the       *)
(* length, for which a set without a least element serves.                 *)
(***************************************************************************)
EXTENDS PlayInput, WellFoundedInduction, NaturalsInduction, SequenceTheorems,
        TLAPS

\* The play the guest should get for the play h of the host.
AsScript(h) ==
  [h EXCEPT !.macro = IF @ = "buttons" THEN "steps" ELSE @,
            !.buttons = IF h.steps = <<>> THEN @ ELSE {}]

LEMMA DefaultAgain ==
  ASSUME NEW v, NEW d
  PROVE  Default(Default(v, d), d) = Default(v, d)
BY DEF Default

\* The call timeout is a legal value of itself.
LEMMA CallTimeoutType ==
  ASSUME NEW n \in Int
  PROVE  CallTimeout(n) \in 1..MaxTimeout
<1>1. n \div Rate + Slack \in Int
  BY LimitsAssumption
<1> DEFINE x == n \div Rate + Slack
<1>2. Most(DefaultTimeout, x) \in Int /\ Most(DefaultTimeout, x) >= 1
  BY <1>1, LimitsAssumption DEF Most
<1> QED
  BY <1>2, LimitsAssumption DEF CallTimeout, Least

\* The numbers of an accepted payload, once defaulted.
LEMMA ParsedNumbers ==
  ASSUME NEW q, Acceptable(q)
  PROVE  /\ Length(q) \in 1..MaxFrames /\ Budget(q) \in 1..MaxFrames
         /\ Hold(q) \in 1..MaxHold /\ Gap(q) \in 0..MaxGap
         /\ Default(q.press, 4) \in 1..MaxHold
         /\ Default(q.release, 4) \in 1..MaxHold
         /\ Default(q.interval, DefaultInterval) \in 1..MaxInterval
         /\ Default(q.timeout, CallTimeout(Least(Length(q), Budget(q))))
              \in 1..MaxTimeout
<1>1. Length(q) \in 1..MaxFrames /\ Within(q.max, 1, MaxFrames)
  BY DEF Acceptable
<1>2. Budget(q) \in 1..MaxFrames
  BY <1>1 DEF Budget, Default, Within
<1>3. Hold(q) \in 1..MaxHold /\ Gap(q) \in 0..MaxGap
  BY LimitsAssumption DEF Acceptable, Hold, Gap, Default, Within
<1>4. /\ Default(q.press, 4) \in 1..MaxHold
      /\ Default(q.release, 4) \in 1..MaxHold
      /\ Default(q.interval, DefaultInterval) \in 1..MaxInterval
  BY LimitsAssumption DEF Acceptable, Default, Within
<1>5. Least(Length(q), Budget(q)) \in Int
  BY <1>1, <1>2, LimitsAssumption DEF Least
<1>6. Default(q.timeout, CallTimeout(Least(Length(q), Budget(q))))
        \in 1..MaxTimeout
  BY <1>5, CallTimeoutType DEF Acceptable, Default, Within
<1> QED
  BY <1>1, <1>2, <1>3, <1>4, <1>6

-----------------------------------------------------------------------------
\* The payload sent for the play h.
Sent(h) == Relayed(AsPayload(h))

\* Every other key arrives as it was.
LEMMA SentKeys ==
  ASSUME NEW h
  PROVE  LET p == Sent(h)
         IN  /\ p.macro = h.macro /\ p.hold = h.hold /\ p.gap = h.gap
             /\ p.max = h.max /\ p.press = h.press /\ p.release = h.release
             /\ p.until = h.until /\ p.disable = h.disable
             /\ p.interval = h.interval /\ p.timeout = h.timeout
             /\ p.mode = h.mode /\ p.intent = h.intent /\ p.media = h.media
             /\ p.mash = h.mash /\ p.wait = FALSE
<1> DEFINE a == AsPayload(h)
<1>1. /\ a.macro = h.macro /\ a.hold = h.hold /\ a.gap = h.gap
      /\ a.max = h.max /\ a.press = h.press /\ a.release = h.release
      /\ a.until = h.until /\ a.disable = h.disable
      /\ a.interval = h.interval /\ a.timeout = h.timeout
      /\ a.mode = h.mode /\ a.intent = h.intent /\ a.media = h.media
      /\ a.mash = h.mash /\ a.wait = FALSE
      /\ DOMAIN a = DOMAIN Empty
  BY DEF AsPayload, Empty
<1> HIDE DEF a
<1>2. \/ Sent(h) = [a EXCEPT !.steps = Absent]
      \/ Sent(h) = [a EXCEPT !.buttons = Absent]
  BY DEF Sent, Relayed, a
<1> QED
  BY <1>1, <1>2 DEF Empty

\* A mash or a hold is sent without steps.
LEMMA SentWithoutSteps ==
  ASSUME NEW h, h.steps = <<>>
  PROVE  Sent(h).steps = Absent /\ Sent(h).buttons = h.buttons
<1> DEFINE a == AsPayload(h)
<1>1. a.steps = <<>> /\ a.buttons = h.buttons /\ DOMAIN a = DOMAIN Empty
  <2>1. a.steps = [i \in 1..Len(h.steps) |->
                     [buttons |-> h.steps[i].buttons, hold |-> h.steps[i].hold,
                      gap |-> h.steps[i].gap, wait |-> h.steps[i].buttons = {}]]
    BY DEF AsPayload, Empty
  <2>2. a.buttons = h.buttons /\ DOMAIN a = DOMAIN Empty
    BY DEF AsPayload, Empty
  <2>3. DOMAIN a.steps = {}
    BY <2>1
  <2>4. a.steps = [i \in {} |-> {}]
    BY <2>1, <2>3
  <2>5. <<>> = [i \in {} |-> {}]
    OBVIOUS
  <2> QED
    BY <2>2, <2>4, <2>5
<1> HIDE DEF a
<1>2. Sent(h) = [a EXCEPT !.steps = Absent]
  BY <1>1 DEF Sent, Relayed, a
<1> QED
  BY <1>1, <1>2 DEF Empty

\* The script of a payload that comes with its numbers is itself.
LEMMA ScriptAgain ==
  ASSUME NEW q, Acceptable(q), NEW m,
         AsPayload(Parse(q)).steps # Absent,
         Form(q) \in {"script", "chord", "wait"}
  PROVE  LET h == [Parse(q) EXCEPT !.mode = m]
         IN  /\ h.steps # <<>> /\ h.steps = Script(q)
             /\ Sent(h).steps # Absent /\ Sent(h).buttons = Absent
             /\ Len(Sent(h).steps) \in 1..MaxSteps
             /\ \A i \in 1..Len(Sent(h).steps) : StepOK(Sent(h).steps[i])
             /\ [i \in 1..Len(Sent(h).steps) |-> Step(Sent(h).steps[i], h.gap)]
                  = Script(q)
<1> DEFINE h == [Parse(q) EXCEPT !.mode = m]
           sc == Script(q)
           n == IF Form(q) = "script" THEN Len(q.steps) ELSE 1
           a == AsPayload(h)
<1>1. h.steps = sc /\ a.steps = AsPayload(Parse(q)).steps
  BY DEF Parse, AsPayload
<1>2. n \in 1..MaxSteps
  BY LimitsAssumption DEF Acceptable
<1>3. sc \in [1..n -> {sc[i] : i \in 1..n}] /\ Len(sc) = n
  <2>1. CASE Form(q) = "script"
    BY <2>1, <1>2, LimitsAssumption DEF Script
  <2>2. CASE Form(q) \in {"chord", "wait"}
    BY <2>2 DEF Script
  <2> QED BY <2>1, <2>2
<1>4. \A i \in 1..n :
        \E b, v, g : /\ sc[i] = [buttons |-> Default(b, {}), hold |-> v, gap |-> g]
                     /\ v \in 1..MaxHold /\ g \in 0..MaxGap
  <2>1. CASE Form(q) = "script"
    <3> SUFFICES ASSUME NEW i \in 1..n
                 PROVE  /\ sc[i] = Step(q.steps[i], Gap(q))
                        /\ Default(q.steps[i].hold, 1) \in 1..MaxHold
                        /\ Default(q.steps[i].gap, Gap(q)) \in 0..MaxGap
      BY DEF Step
    <3>1. sc[i] = Step(q.steps[i], Gap(q))
      BY <2>1 DEF Script
    <3>2. StepOK(q.steps[i])
      BY <2>1 DEF Acceptable
    <3> QED
      BY <3>1, <3>2, ParsedNumbers, LimitsAssumption
      DEF StepOK, Default, Within
  <2>2. CASE Form(q) \in {"chord", "wait"}
    BY <2>2, ParsedNumbers DEF Script, Chord
  <2> QED BY <2>1, <2>2
<1>5. a.steps = [i \in 1..n |-> [buttons |-> sc[i].buttons, hold |-> sc[i].hold,
                   gap |-> sc[i].gap, wait |-> sc[i].buttons = {}]]
  BY <1>1, <1>3 DEF AsPayload
<1>6. a.steps # Absent /\ a.steps # <<>>
  BY <1>1, <1>2, <1>5, LimitsAssumption
<1>7. Sent(h) = [a EXCEPT !.buttons = Absent]
  BY <1>6 DEF Sent, Relayed
<1>8. /\ Sent(h).steps = a.steps /\ Sent(h).buttons = Absent
      /\ Len(Sent(h).steps) = n
  <2>1. {"steps", "buttons"} \subseteq DOMAIN a
    BY DEF AsPayload, Empty
  <2> HIDE DEF a, h, sc, n
  <2>2. Sent(h).steps = a.steps /\ Sent(h).buttons = Absent
    BY <1>7, <2>1
  <2>3. Len(a.steps) = n
    BY <1>2, <1>5, LimitsAssumption
  <2> QED BY <2>2, <2>3
<1>9. ASSUME NEW i \in 1..n
      PROVE  StepOK(a.steps[i]) /\ Step(a.steps[i], h.gap) = sc[i]
  <2>1. PICK b, v, g : /\ sc[i] = [buttons |-> Default(b, {}), hold |-> v, gap |-> g]
                       /\ v \in 1..MaxHold /\ g \in 0..MaxGap
    BY <1>4
  <2>2. a.steps[i] = [buttons |-> Default(b, {}), hold |-> v, gap |-> g,
                      wait |-> Default(b, {}) = {}]
    BY <1>5, <2>1
  <2>3. v # Absent /\ g # Absent
    BY <2>1, AbsentAssumption, LimitsAssumption
  <2>4. Default(b, {}) # Absent \/ Default(b, {}) = {}
    BY DEF Default
  <2> HIDE DEF a, h, sc, n
  <2>5. StepOK(a.steps[i])
    <3>1. a.steps[i].buttons # Absent \/ a.steps[i].wait
      <4>1. CASE Default(b, {}) = {}
        <5>1. a.steps[i] = [buttons |-> {}, hold |-> v, gap |-> g, wait |-> TRUE]
          BY <2>2, <4>1
        <5> QED BY <5>1
      <4>2. CASE Default(b, {}) # {}
        BY <2>2, <2>4, <4>2
      <4> QED BY <4>1, <4>2
    <3>2. a.steps[i].hold = v /\ a.steps[i].gap = g
      BY <2>2
    <3> QED
      BY <2>1, <3>1, <3>2 DEF StepOK, Within
  <2>6. Step(a.steps[i], h.gap) = sc[i]
    BY <2>1, <2>2, <2>3, DefaultAgain DEF Step, Default
  <2> QED
    BY <2>5, <2>6
<1>10. [i \in 1..n |-> Step(a.steps[i], h.gap)] = sc
  BY <1>3, <1>9
<1> HIDE DEF h, sc, n, a
<1>11. sc # <<>>
  BY <1>2, <1>3, LimitsAssumption
<1> QED
  BY <1>1, <1>2, <1>6, <1>8, <1>9, <1>10, <1>11 DEF h, sc

\* A play, key by key.
Keys == {"macro", "steps", "buttons", "hold", "gap", "max", "planned", "press",
         "release", "until", "disable", "abort", "interval", "timeout", "mode",
         "intent", "media", "mash"}

Off(q) == q.disable \/ (q.until # Absent /\ q.until.on = "none")
ToPlay(q) == Least(Length(q), Budget(q))

LEMMA ParseKeys ==
  ASSUME NEW q
  PROVE  LET h == Parse(q)
         IN  /\ h = [k \in Keys |-> h[k]]
             /\ h.macro = CASE Form(q) \in {"script", "wait"} -> "steps"
                            [] Form(q) = "chord" -> "buttons"
                            [] OTHER -> Form(q)
             /\ h.steps = Script(q)
             /\ h.buttons = IF Form(q) \in {"chord", "hold"} THEN Chord(q)
                            ELSE {}
             /\ h.hold = IF Form(q) \in {"mash", "hold"} THEN Budget(q)
                         ELSE Hold(q)
             /\ h.gap = Gap(q) /\ h.max = Budget(q) /\ h.planned = ToPlay(q)
             /\ h.press = Default(q.press, 4)
             /\ h.release = Default(q.release, 4)
             /\ h.until = IF q.until # Absent /\ q.until.on = "none"
                          THEN Absent ELSE q.until
             /\ h.interval = Default(q.interval, DefaultInterval)
             /\ h.timeout = Default(q.timeout, CallTimeout(ToPlay(q)))
             /\ h.mode = q.mode /\ h.intent = q.intent /\ h.media = q.media
             /\ h.mash = q.mash
BY DEF Parse, Keys, ToPlay

LEMMA ParseSwitches ==
  ASSUME NEW q
  PROVE  /\ Parse(q).disable = Off(q)
         /\ Parse(q).abort = (Form(q) = "hold" /\ ~Off(q))
BY DEF Parse, Off

\* The host sets the image mode the caller names.
Host(q, m) == [Parse(q) EXCEPT !.mode = m]

LEMMA HostKeys ==
  ASSUME NEW q, NEW m
  PROVE  /\ Host(q, m) = [k \in Keys |-> Host(q, m)[k]]
         /\ Host(q, m).mode = m
         /\ \A k \in Keys \ {"mode"} : Host(q, m)[k] = Parse(q)[k]
<1> DEFINE h == Parse(q)
<1>1. h = [k \in Keys |-> h[k]]
  BY ParseKeys
<1>2. Host(q, m) = [h EXCEPT !["mode"] = m]
  BY DEF Host
<1> HIDE DEF h
<1>3. DOMAIN h = Keys /\ "mode" \in Keys
  BY <1>1 DEF Keys
<1>4. Host(q, m) = [k \in Keys |-> IF k = "mode" THEN m ELSE h[k]]
  BY <1>2, <1>3
<1> QED
  BY <1>3, <1>4 DEF h

LEMMA AsScriptKeys ==
  ASSUME NEW h, h = [k \in Keys |-> h[k]]
  PROVE  /\ AsScript(h) = [k \in Keys |-> AsScript(h)[k]]
         /\ AsScript(h).macro = IF h.macro = "buttons" THEN "steps" ELSE h.macro
         /\ AsScript(h).buttons = IF h.steps = <<>> THEN h.buttons ELSE {}
         /\ \A k \in Keys \ {"macro", "buttons"} : AsScript(h)[k] = h[k]
<1> DEFINE M == IF h.macro = "buttons" THEN "steps" ELSE h.macro
           B == IF h.steps = <<>> THEN h.buttons ELSE {}
<1>1. AsScript(h) = [[h EXCEPT !["macro"] = M] EXCEPT !["buttons"] = B]
  BY DEF AsScript
<1>2. DOMAIN h = Keys /\ {"macro", "buttons"} \subseteq Keys
  BY DEF Keys
<1> HIDE DEF M, B
<1>3. AsScript(h) = [k \in Keys |-> IF k = "macro" THEN M
                                    ELSE IF k = "buttons" THEN B ELSE h[k]]
  BY <1>1, <1>2
<1> QED
  BY <1>2, <1>3 DEF M, B

\* The guest accepts the play and gets what the host has.
THEOREM SecondParse ==
  ASSUME NEW q, Acceptable(q), NEW m,
         AsPayload(Parse(q)).steps # Absent,
         Form(q) \in {"chord", "wait"} => Budget(q) >= Length(q)
  PROVE  /\ Acceptable(Sent(Host(q, m)))
         /\ Parse(Sent(Host(q, m))) = AsScript(Host(q, m))
<1> DEFINE h == Host(q, m)
           p == Sent(h)
<1>0. Form(q) \in {"script", "mash", "hold", "chord", "wait"}
  BY DEF Acceptable, Form
<1>1. /\ h.macro = CASE Form(q) \in {"script", "wait"} -> "steps"
                     [] Form(q) = "chord" -> "buttons"
                     [] OTHER -> Form(q)
      /\ h.steps = Script(q)
      /\ h.buttons = IF Form(q) \in {"chord", "hold"} THEN Chord(q) ELSE {}
      /\ h.hold = IF Form(q) \in {"mash", "hold"} THEN Budget(q) ELSE Hold(q)
      /\ h.gap = Gap(q) /\ h.max = Budget(q) /\ h.planned = ToPlay(q)
      /\ h.press = Default(q.press, 4) /\ h.release = Default(q.release, 4)
      /\ h.until = IF q.until # Absent /\ q.until.on = "none"
                   THEN Absent ELSE q.until
      /\ h.interval = Default(q.interval, DefaultInterval)
      /\ h.timeout = Default(q.timeout, CallTimeout(ToPlay(q)))
  BY HostKeys, ParseKeys DEF Keys
<1>2. h.disable = Off(q) /\ h.abort = (Form(q) = "hold" /\ ~Off(q))
  <2>1. h.disable = Parse(q).disable /\ h.abort = Parse(q).abort
    BY HostKeys DEF Keys
  <2> QED BY <2>1, ParseSwitches, Zenon
<1>3. /\ p.macro = h.macro /\ p.hold = h.hold /\ p.gap = h.gap
      /\ p.max = h.max /\ p.press = h.press /\ p.release = h.release
      /\ p.until = h.until /\ p.disable = h.disable
      /\ p.interval = h.interval /\ p.timeout = h.timeout
      /\ p.mode = h.mode /\ p.intent = h.intent /\ p.media = h.media
      /\ p.mash = h.mash /\ p.wait = FALSE
  BY SentKeys
<1>h. h = [k \in Keys |-> h[k]]
  BY HostKeys
<1>i. p.intent \in Intents \cup {Absent}
  <2>1. h.intent = q.intent
    BY HostKeys, ParseKeys DEF Keys
  <2> QED BY <1>3, <2>1 DEF Acceptable
<1> HIDE DEF h, p
<1>4. /\ Budget(q) \in 1..MaxFrames /\ Length(q) \in 1..MaxFrames
      /\ h.hold \in 1..MaxHold /\ h.gap \in 0..MaxGap
      /\ h.max \in 1..MaxFrames /\ h.press \in 1..MaxHold
      /\ h.release \in 1..MaxHold /\ h.interval \in 1..MaxInterval
      /\ h.timeout \in 1..MaxTimeout
  BY ParsedNumbers, <1>1, LimitsAssumption DEF ToPlay
<1>5. Until_OK(h.until)
  BY <1>1 DEF Acceptable, Until_OK
<1>6. /\ Gap(p) = h.gap /\ Hold(p) = h.hold /\ Budget(p) = h.max
      /\ Default(p.press, 4) = h.press /\ Default(p.release, 4) = h.release
      /\ Default(p.interval, DefaultInterval) = h.interval
      /\ \A t : Default(p.timeout, t) = h.timeout
      /\ p.hold # Absent /\ p.max # Absent
  BY <1>3, <1>4, AbsentAssumption, LimitsAssumption
  DEF Gap, Hold, Budget, Default
<1>7. /\ Within(p.hold, 1, MaxHold) /\ Within(p.gap, 0, MaxGap)
      /\ Within(p.max, 1, MaxFrames) /\ Within(p.interval, 1, MaxInterval)
      /\ Within(p.press, 1, MaxHold) /\ Within(p.release, 1, MaxHold)
      /\ Within(p.timeout, 1, MaxTimeout) /\ Until_OK(p.until)
  BY <1>3, <1>4, <1>5 DEF Within
<1>8. Off(p) = h.disable
  <2>1. ~(p.until # Absent /\ p.until.on = "none")
    BY <1>1, <1>3
  <2>2. Off(p) = (Off(q) \/ FALSE)
    BY <1>2, <1>3, <2>1, Zenon DEF Off
  <2> QED
    BY <1>2, <2>2, Zenon DEF Off
<1> DEFINE r == Parse(p)
           b == AsScript(h)
<1>r. r = [k \in Keys |-> r[k]] /\ b = [k \in Keys |-> b[k]]
  BY <1>h, ParseKeys, AsScriptKeys
<1>s. SUFFICES /\ Acceptable(p)
               /\ r.macro = b.macro /\ r.steps = b.steps
               /\ r.buttons = b.buttons /\ r.hold = b.hold
               /\ r.planned = b.planned /\ r.abort = b.abort
  <2>1. /\ r.gap = h.gap /\ r.max = h.max /\ r.press = h.press
        /\ r.release = h.release /\ r.until = h.until
        /\ r.interval = h.interval /\ r.timeout = h.timeout
        /\ r.mode = h.mode /\ r.intent = h.intent /\ r.media = h.media
        /\ r.mash = h.mash
    BY <1>1, <1>3, <1>6, ParseKeys
  <2>2. r.disable = h.disable
    BY <1>8, ParseSwitches
  <2>3. \A k \in Keys \ {"macro", "buttons"} : b[k] = h[k]
    BY <1>h, AsScriptKeys
  <2> HIDE DEF r, b
  <2>4. r = b
    BY <1>r, <1>s, <2>1, <2>2, <2>3 DEF Keys
  <2> QED
    BY <1>s, <2>4 DEF h, p, r, b
<1>b. /\ b.macro = IF h.macro = "buttons" THEN "steps" ELSE h.macro
      /\ b.buttons = IF h.steps = <<>> THEN h.buttons ELSE {}
      /\ b.steps = h.steps /\ b.hold = h.hold /\ b.planned = h.planned
      /\ b.abort = h.abort
  BY <1>h, AsScriptKeys DEF Keys
<1>p. /\ r.macro = CASE Form(p) \in {"script", "wait"} -> "steps"
                     [] Form(p) = "chord" -> "buttons"
                     [] OTHER -> Form(p)
      /\ r.steps = Script(p)
      /\ r.buttons = IF Form(p) \in {"chord", "hold"} THEN Chord(p) ELSE {}
      /\ r.hold = IF Form(p) \in {"mash", "hold"} THEN h.max ELSE h.hold
      /\ r.planned = Least(Length(p), h.max)
  BY <1>6, ParseKeys DEF ToPlay
<1>q. r.abort = (Form(p) = "hold" /\ ~h.disable)
  <2>1. r.abort = (Form(p) = "hold" /\ ~Off(p))
    BY ParseSwitches
  <2> QED BY <1>8, <2>1, Zenon
<1> HIDE DEF r, b
\* What depends on the form of the play.
<1>9. CASE Form(q) \in {"mash", "hold"}
  <2>1. Script(q) = <<>>
    BY <1>9 DEF Script
  <2>2. p.steps = Absent /\ p.buttons = h.buttons
    BY <1>1, <2>1, SentWithoutSteps DEF p
  <2>3. Form(p) = Form(q)
    BY <1>1, <1>3, <1>9, <2>2 DEF Form
  <2>4. Script(p) = <<>>
    BY <2>3, <1>9 DEF Script
  <2>5. Length(p) = Budget(q) /\ Length(q) = Budget(q)
    BY <1>1, <1>3, <1>6, <1>9, <2>3, DefaultAgain DEF Length, Budget, Default
  <2>6. Chord(p) = h.buttons
    BY <1>1, <1>9, <2>2 DEF Chord, Default
  <2>7. Acceptable(p)
    BY <1>i, <1>4, <1>7, <1>9, <2>3, <2>5 DEF Acceptable
  <2>8. r.abort = b.abort
    BY <1>2, <1>b, <1>q, <2>3, Zenon
  <2> QED
    BY <1>1, <1>9, <1>b, <1>p, <2>1, <2>3, <2>4, <2>5, <2>6, <2>7, <2>8
    DEF ToPlay
<1>10. CASE Form(q) \in {"script", "chord", "wait"}
  <2>1. /\ h.steps # <<>> /\ h.steps = Script(q)
        /\ p.steps # Absent /\ p.buttons = Absent
        /\ Len(p.steps) \in 1..MaxSteps
        /\ \A i \in 1..Len(p.steps) : StepOK(p.steps[i])
        /\ [i \in 1..Len(p.steps) |-> Step(p.steps[i], h.gap)] = Script(q)
    BY <1>10, ScriptAgain DEF h, p, Host
  <2>2. Form(p) = "script"
    BY <2>1 DEF Form
  <2>3. Script(p) = Script(q)
    BY <1>6, <2>1, <2>2 DEF Script
  <2>4. Length(p) = Length(q)
    BY <1>10, <2>2, <2>3 DEF Length
  <2>5. Chord(p) = {}
    BY <2>1 DEF Chord, Default
  <2>6. Budget(q) >= Length(q)
    BY <1>10 DEF Acceptable
  <2>7. Acceptable(p)
    BY <1>i, <1>1, <1>3, <1>4, <1>6, <1>7, <1>10, <2>1, <2>2, <2>4, <2>5, <2>6
    DEF Acceptable
  <2>8. r.abort = b.abort
    <3>1. Form(p) # "hold" /\ Form(q) # "hold"
      BY <1>10, <2>2
    <3> QED BY <1>2, <1>b, <1>q, <3>1, Zenon
  <2> QED
    BY <1>1, <1>10, <1>b, <1>p, <2>1, <2>2, <2>3, <2>4, <2>5, <2>7, <2>8
    DEF ToPlay
<1> QED
  BY <1>0, <1>9, <1>10

-----------------------------------------------------------------------------
(* Sums over a script                                                      *)

Less == {p \in Nat \X Nat : p[1] < p[2]}

\* A set of numbers has a least one.
LEMMA LeastOf ==
  ASSUME NEW S, S \subseteq Nat, S # {}
  PROVE  \E x \in S : \A y \in S : x <= y
<1>1. IsWellFoundedOn(Less, Nat)
  BY NatLessThanWellFounded DEF OpToRel, Less
<1>2. PICK x \in S : \A y \in S : <<y, x>> \notin Less
  BY <1>1, WFMin
<1>3. ASSUME NEW y \in S
      PROVE  x <= y
  <2>1. <<y, x>> \in Nat \X Nat /\ <<y, x>>[1] = y /\ <<y, x>>[2] = x
    OBVIOUS
  <2> QED
    BY <1>2, <2>1 DEF Less
<1> QED
  BY <1>3

\* A bounded set has a greatest one, which Max returns.
LEMMA MaxIn ==
  ASSUME NEW n \in Nat, NEW S, S \subseteq 1..n, S # {}
  PROVE  Max(S) \in S /\ \A y \in S : Max(S) >= y
<1> DEFINE T == {n - y : y \in S}
<1>1. T \subseteq Nat /\ T # {}
  <2>1. \A y \in S : n - y \in Nat
    OBVIOUS
  <2> QED
    BY <2>1
<1>2. PICK t \in T : \A u \in T : t <= u
  BY <1>1, LeastOf
<1>3. PICK x \in S : t = n - x
  OBVIOUS
<1>4. ASSUME NEW y \in S
      PROVE  x >= y
  <2>1. n - y \in T
    OBVIOUS
  <2> QED
    BY <1>2, <1>3, <2>1
<1> QED
  BY <1>4 DEF Max

\* f adds the weights w over every set of indices, the way FoldLeft does.
Adds(f, w, n) ==
  /\ f \in [SUBSET (1..n) -> Nat]
  /\ \A s \in SUBSET (1..n) :
       f[s] = IF s = {} THEN 0 ELSE f[s \ {Max(s)}] + w[Max(s)]

\* With one index more there is such a function again.
LEMMA AddsNext ==
  ASSUME NEW n \in Nat, NEW w, w[n + 1] \in Nat, NEW f, Adds(f, w, n)
  PROVE  \E g : Adds(g, w, n + 1)
<1> DEFINE g == [s \in SUBSET (1..(n + 1)) |->
                   IF n + 1 \in s THEN f[s \ {n + 1}] + w[n + 1] ELSE f[s]]
<1>1. ASSUME NEW s \in SUBSET (1..(n + 1)), n + 1 \notin s
      PROVE  s \in SUBSET (1..n)
  BY <1>1
<1>2. ASSUME NEW s \in SUBSET (1..(n + 1)) 
      PROVE  s \ {n + 1} \in SUBSET (1..n)
  OBVIOUS
<1>3. g \in [SUBSET (1..(n + 1)) -> Nat]
  <2>1. ASSUME NEW s \in SUBSET (1..(n + 1)) PROVE g[s] \in Nat
    <3>1. CASE n + 1 \in s
      BY <1>2, <3>1 DEF Adds
    <3>2. CASE n + 1 \notin s
      BY <1>1, <3>2 DEF Adds
    <3> QED
      BY <3>1, <3>2
  <2> QED
    BY <2>1
<1>4. ASSUME NEW s \in SUBSET (1..(n + 1))
      PROVE  g[s] = IF s = {} THEN 0 ELSE g[s \ {Max(s)}] + w[Max(s)]
  <2>1. CASE s = {}
    <3>1. g[s] = f[s] /\ s \in SUBSET (1..n)
      BY <2>1
    <3> QED
      BY <2>1, <3>1 DEF Adds
  <2>2. CASE n + 1 \in s
    <3>1. Max(s) \in s /\ Max(s) >= n + 1
      <4> HIDE DEF g
      <4>1. n + 1 \in Nat /\ s \subseteq 1..(n + 1) /\ s # {}
        BY <2>2
      <4> QED
        BY <2>2, <4>1, MaxIn
    <3>2. Max(s) = n + 1
      <4>1. Max(s) \in 1..(n + 1)
        BY <3>1
      <4> QED
        BY <3>1, <4>1
    <3>3. g[s \ {n + 1}] = f[s \ {n + 1}]
      BY <1>2
    <3> QED
      BY <2>2, <3>2, <3>3
  <2>3. CASE s # {} /\ n + 1 \notin s
    <3>1. s \in SUBSET (1..n) /\ Max(s) \in s
      BY <1>1, <2>3, MaxIn
    <3>2. g[s] = f[s] /\ g[s \ {Max(s)}] = f[s \ {Max(s)}]
      BY <2>3, <3>1
    <3> QED
      BY <2>3, <3>1, <3>2 DEF Adds
  <2> QED
    BY <2>1, <2>2, <2>3
<1> QED
  BY <1>3, <1>4 DEF Adds

\* So there is one for every list of weights.
LEMMA AddsExists ==
  ASSUME NEW m \in Nat, NEW w, \A i \in 1..m : w[i] \in Nat
  PROVE  \E f : Adds(f, w, m)
<1> DEFINE bad == {n \in 0..m : ~\E f : Adds(f, w, n)}
<1>1. bad = {}
  <2> SUFFICES ASSUME bad # {} PROVE FALSE
    OBVIOUS
  <2>1. PICK n \in bad : \A k \in bad : n <= k
    <3>1. bad \subseteq Nat
      OBVIOUS
    <3> HIDE DEF bad
    <3> QED
      BY <3>1, LeastOf
  <2>2. n # 0
    <3>1. SUBSET (1..0) = {{}}
      OBVIOUS
    <3>2. Adds([s \in {{}} |-> 0], w, 0)
      BY <3>1 DEF Adds
    <3> QED
      BY <3>2
  <2>3. PICK f : Adds(f, w, n - 1)
    BY <2>1, <2>2
  <2>4. w[(n - 1) + 1] \in Nat /\ n - 1 \in Nat /\ (n - 1) + 1 = n
    BY <2>1, <2>2
  <2>5. \E g : Adds(g, w, (n - 1) + 1)
    BY <2>3, <2>4, AddsNext
  <2> QED
    BY <2>1, <2>4, <2>5
<1> QED
  BY <1>1

\* The sums of the first weights.
Sums(P, w, n) ==
  /\ P \in [0..n -> Nat] /\ P[0] = 0
  /\ \A i \in 1..n : P[i] = P[i - 1] + w[i]

\* The greatest index so far is the last.
LEMMA MaxOfRange ==
  ASSUME NEW i \in Nat \ {0}
  PROVE  Max(1..i) = i /\ (1..i) \ {i} = 1..(i - 1)
<1>1. 1..i \subseteq 1..i /\ 1..i # {} /\ i \in 1..i
  OBVIOUS
<1>2. Max(1..i) \in 1..i /\ Max(1..i) >= i
  BY <1>1, MaxIn
<1>3. Max(1..i) = i
  BY <1>2
<1> QED
  BY <1>3

\* There are such sums.
LEMMA SumsExist ==
  ASSUME NEW n \in Nat, NEW w, \A i \in 1..n : w[i] \in Nat
  PROVE  \E P : Sums(P, w, n)
<1>1. PICK f : Adds(f, w, n)
  BY AddsExists
<1> DEFINE P == [i \in 0..n |-> f[1..i]]
<1>2. \A i \in 0..n : 1..i \in SUBSET (1..n)
  OBVIOUS
<1>3. P \in [0..n -> Nat]
  BY <1>1, <1>2 DEF Adds
<1>4. P[0] = 0
  <2>1. 1..0 = {} /\ P[0] = f[1..0]
    OBVIOUS
  <2>2. f[{}] = 0
    BY <1>1 DEF Adds
  <2> QED
    BY <2>1, <2>2
<1>5. ASSUME NEW i \in 1..n PROVE P[i] = P[i - 1] + w[i]
  <2>1. 1..i \in SUBSET (1..n) /\ 1..i # {}
    <3>1. i \in 1..i /\ i \in Nat /\ i <= n
      OBVIOUS
    <3>2. \A k \in 1..i : k \in 1..n
      BY <3>1
    <3> QED
      BY <3>1, <3>2
  <2>2. f[1..i] = f[(1..i) \ {Max(1..i)}] + w[Max(1..i)]
    BY <1>1, <2>1 DEF Adds
  <2>3. Max(1..i) = i /\ (1..i) \ {i} = 1..(i - 1)
    BY MaxOfRange
  <2>4. P[i] = f[1..i] /\ P[i - 1] = f[1..(i - 1)]
    OBVIOUS
  <2> HIDE DEF P
  <2> QED
    BY <2>2, <2>3, <2>4
<1> QED
  BY <1>3, <1>4, <1>5 DEF Sums

\* Every function that FoldLeft may choose agrees with the sums.
LEMMA FoldIsSum ==
  ASSUME NEW n \in Nat, NEW w, NEW P, Sums(P, w, n), NEW f,
         f[{}] = 0,
         \A i \in 1..n : f[1..(i - 1)] \in Nat => f[1..i] = f[1..(i - 1)] + w[i]
  PROVE  f[1..n] = P[n]
<1> DEFINE bad == {i \in 0..n : f[1..i] # P[i]}
<1>1. bad = {}
  <2> SUFFICES ASSUME bad # {} PROVE FALSE
    OBVIOUS
  <2>1. PICK i \in bad : \A k \in bad : i <= k
    <3>1. bad \subseteq Nat
      OBVIOUS
    <3> HIDE DEF bad
    <3> QED
      BY <3>1, LeastOf
  <2>2. i # 0
    <3>1. 1..0 = {}
      OBVIOUS
    <3> QED
      BY <2>1, <3>1 DEF Sums
  <2>3. f[1..(i - 1)] = P[i - 1] /\ i \in 1..n /\ P[i - 1] \in Nat
    BY <2>1, <2>2 DEF Sums
  <2> QED
    BY <2>1, <2>3 DEF Sums
<1> QED
  BY <1>1

\* The frames a script plans are the sum of its holds and gaps.
LEMMA PlannedSum ==
  ASSUME NEW q, NEW n \in Nat, DOMAIN q = 1..n, NEW P,
         Sums(P, [i \in 1..n |-> q[i].hold + q[i].gap], n),
         \A i \in 1..n : q[i].hold \in Nat /\ q[i].gap \in Nat
  PROVE  Planned(q) = P[n]
<1> DEFINE w == [i \in 1..n |-> q[i].hold + q[i].gap]
           Is(f) == f = [s \in SUBSET (1..n) |->
                          IF s = {} THEN 0
                          ELSE f[s \ {Max(s)}] + q[Max(s)].hold + q[Max(s)].gap]
<1>1. \A i \in 1..n : w[i] \in Nat
  OBVIOUS
<1>2. \E f : Is(f)
  <2>1. PICK f : Adds(f, w, n)
    BY <1>1, AddsExists
  <2>2. ASSUME NEW s \in SUBSET (1..n), s # {}
        PROVE  f[s] = f[s \ {Max(s)}] + q[Max(s)].hold + q[Max(s)].gap
    <3>1. Max(s) \in 1..n
      BY <2>2, MaxIn
    <3>2. f[s] = f[s \ {Max(s)}] + w[Max(s)] /\ f[s \ {Max(s)}] \in Nat
      BY <2>1, <2>2 DEF Adds
    <3> QED
      BY <3>1, <3>2
  <2>3. f = [s \in SUBSET (1..n) |-> f[s]] /\ f[{}] = 0
    BY <2>1 DEF Adds
  <2> QED
    BY <2>2, <2>3
<1>3. PICK f : Is(f) /\ Planned(q) = f[1..n]
  <2> DEFINE g == CHOOSE f : Is(f)
  <2>1. Is(g)
    BY <1>2
  <2>2. Planned(q) = g[1..n]
    BY DEF Planned, FoldLeft, MapThenFoldSet
  <2> QED
    BY <2>1, <2>2
<1>4. f[{}] = 0
  BY <1>3
<1>5. ASSUME NEW i \in 1..n, f[1..(i - 1)] \in Nat
      PROVE  f[1..i] = f[1..(i - 1)] + w[i]
  <2>1. 1..i \in SUBSET (1..n) /\ 1..i # {}
    <3>1. i \in 1..i /\ i \in Nat /\ i <= n
      OBVIOUS
    <3>2. \A k \in 1..i : k \in 1..n
      BY <3>1
    <3> QED
      BY <3>1, <3>2
  <2>2. f[1..i] = f[(1..i) \ {Max(1..i)}] + q[Max(1..i)].hold + q[Max(1..i)].gap
    BY <1>3, <2>1
  <2>3. Max(1..i) = i /\ (1..i) \ {i} = 1..(i - 1)
    BY MaxOfRange
  <2>4. f[1..i] = f[1..(i - 1)] + q[i].hold + q[i].gap
    BY <2>2, <2>3
  <2> QED
    BY <1>5, <2>4
<1> HIDE DEF w
<1>6. f[1..n] = P[n]
  BY <1>4, <1>5, FoldIsSum DEF w
<1> QED
  BY <1>3, <1>6

\* Sums never fall, and grow at least by one with every positive weight.
LEMMA SumsRise ==
  ASSUME NEW n \in Nat, NEW w, NEW P, Sums(P, w, n),
         \A i \in 1..n : w[i] \in Nat,
         NEW i \in 0..n, NEW j \in i..n
  PROVE  /\ P[i] \in Nat /\ P[j] \in Nat /\ P[i] <= P[j]
         /\ (\A l \in 1..n : w[l] >= 1) => P[j] >= P[i] + (j - i)
<1> DEFINE low == {k \in i..n : ~(P[i] <= P[k])}
           slow == {k \in i..n : ~(P[k] >= P[i] + (k - i))}
<1>0. /\ \A k \in 0..n : P[k] \in Nat
      /\ \A k \in 1..n : P[k] = P[k - 1] + w[k]
  BY DEF Sums
<1>1. low = {}
  <2> SUFFICES ASSUME low # {} PROVE FALSE
    OBVIOUS
  <2>1. PICK k \in low : \A l \in low : k <= l
    <3>1. low \subseteq Nat
      OBVIOUS
    <3> HIDE DEF low
    <3> QED BY <3>1, LeastOf
  <2>2. k # i
    BY <1>0, <2>1
  <2>3. k - 1 \in i..n /\ k \in 1..n /\ k - 1 \notin low
    BY <2>1, <2>2
  <2> QED
    BY <1>0, <2>1, <2>3
<1>2. ASSUME \A l \in 1..n : w[l] >= 1
      PROVE  slow = {}
  <2> SUFFICES ASSUME slow # {} PROVE FALSE
    OBVIOUS
  <2>1. PICK k \in slow : \A l \in slow : k <= l
    <3>1. slow \subseteq Nat
      OBVIOUS
    <3> HIDE DEF slow
    <3> QED BY <3>1, LeastOf
  <2>2. k # i
    BY <1>0, <2>1
  <2>3. k - 1 \in i..n /\ k \in 1..n /\ k - 1 \notin slow
    BY <2>1, <2>2
  <2> QED
    BY <1>0, <1>2, <2>1, <2>3
<1> QED
  BY <1>0, <1>1, <1>2

\* P has the frames at which the n steps of q end.
StepSums(P, q, n) ==
  /\ n \in Nat /\ DOMAIN q = 1..n
  /\ \A i \in 1..n : q[i].hold \in Nat /\ q[i].gap \in Nat
  /\ Sums(P, [i \in 1..n |-> q[i].hold + q[i].gap], n)

\* The frames of the steps before the i-th.
LEMMA PlannedBefore ==
  ASSUME NEW q, NEW n, NEW P, StepSums(P, q, n), NEW i \in 1..n
  PROVE  Planned(SubSeq(q, 1, i - 1)) = P[i - 1]
<1> DEFINE k == i - 1
           r == SubSeq(q, 1, k)
           S == {q[j] : j \in 1..n}
           R == [j \in 0..k |-> P[j]]
<1>0. /\ n \in Nat /\ DOMAIN q = 1..n
      /\ \A j \in 1..n : q[j].hold \in Nat /\ q[j].gap \in Nat
      /\ Sums(P, [j \in 1..n |-> q[j].hold + q[j].gap], n)
  BY DEF StepSums
<1>1. k \in Nat /\ k <= n /\ k \in 0..n
  BY <1>0
<1>2. \A j \in 1..k : q[j] \in S
  BY <1>0, <1>1
<1> HIDE DEF k
<1>3. r \in Seq(S) /\ Len(r) = k /\ \A j \in 1..k : r[j] = q[j]
  <2>1. /\ r \in Seq(S) /\ Len(r) = IF 1 <= k THEN k - 1 + 1 ELSE 0
        /\ \A j \in 1..(k - 1 + 1) : r[j] = q[1 + j - 1]
    <3> HIDE DEF S
    <3> QED BY <1>1, <1>2, SubSeqProperties
  <2> QED BY <1>1, <2>1
<1> HIDE DEF r
<1>4. DOMAIN r = 1..k /\ \A j \in 1..k : r[j].hold \in Nat /\ r[j].gap \in Nat
  BY <1>0, <1>1, <1>3
<1>5. Sums(R, [j \in 1..k |-> r[j].hold + r[j].gap], k)
  <2> DEFINE w == [j \in 1..n |-> q[j].hold + q[j].gap]
             v == [j \in 1..k |-> r[j].hold + r[j].gap]
  <2>1. Sums(P, w, n) /\ \A j \in 1..k : v[j] = w[j]
    BY <1>0, <1>1, <1>3
  <2>2. R = [j \in 0..k |-> P[j]]
    OBVIOUS
  <2> HIDE DEF w, v, R
  <2>3. Sums(R, v, k)
    BY <1>0, <1>1, <2>1, <2>2 DEF Sums
  <2> QED BY <2>3 DEF v
<1>6. Planned(r) = R[k]
  BY <1>1, <1>4, <1>5, PlannedSum
<1> QED
  BY <1>1, <1>6 DEF k, r

\* A script has steps, each with a frame to hold its buttons.
Scripted(steps) ==
  /\ Len(steps) \in Nat \ {0}
  /\ DOMAIN steps = 1..Len(steps)
  /\ \A i \in 1..Len(steps) : steps[i].hold \in Nat \ {0} /\ steps[i].gap \in Nat

\* What is parsed is such a script.
LEMMA ScriptShape ==
  ASSUME NEW q, Acceptable(q), Form(q) \in {"script", "chord", "wait"}
  PROVE  Scripted(Script(q))
<1>1. CASE Form(q) = "script"
  <2> DEFINE n == Len(q.steps)
  <2>1. n \in Nat \ {0} /\ \A i \in 1..n : StepOK(q.steps[i])
    BY <1>1, LimitsAssumption DEF Acceptable
  <2>2. Script(q) = [i \in 1..n |-> Step(q.steps[i], Gap(q))]
    BY <1>1 DEF Script
  <2>3. ASSUME NEW i \in 1..n
        PROVE  /\ Step(q.steps[i], Gap(q)).hold \in Nat \ {0}
               /\ Step(q.steps[i], Gap(q)).gap \in Nat
    BY <2>1, ParsedNumbers, LimitsAssumption DEF Step, StepOK, Within, Default
  <2> HIDE DEF n
  <2> QED BY <2>1, <2>2, <2>3 DEF Scripted
<1>2. CASE Form(q) \in {"chord", "wait"}
  <2> DEFINE s == [buttons |-> Chord(q), hold |-> Hold(q), gap |-> Gap(q)]
  <2>1. Script(q) = <<s>>
    BY <1>2 DEF Script
  <2>2. s.hold \in Nat \ {0} /\ s.gap \in Nat
    BY ParsedNumbers, LimitsAssumption
  <2> HIDE DEF s
  <2>3. \A i \in 1..1 : i = 1
    OBVIOUS
  <2>4. Len(<<s>>) = 1 /\ DOMAIN <<s>> = 1..1 /\ <<s>>[1] = s
    OBVIOUS
  <2> QED BY <2>1, <2>2, <2>3, <2>4 DEF Scripted
<1> QED
  BY <1>1, <1>2
=============================================================================
