-------------------------- MODULE SvaMonitorProofs --------------------------
(***************************************************************************)
(* The monitor of a supported property sees every attempt that is not met  *)
(* and reports no other, for every family of properties, every number of   *)
(* places that covers the span, and every run.                             *)
(***************************************************************************)
EXTENDS SvaMonitor, WellFoundedInduction, FiniteSetTheorems, SequenceTheorems, TLAPS

Entry == [step : 1 .. LastStep, dly : Nat]

LEMMA PropType ==
    ASSUME prop \in Props
    PROVE  /\ prop.trigger \in Atoms \cup {NoTrigger}
           /\ Steps \in Seq([expr : Atoms, delay : Nat])
           /\ LastStep \in Nat \ {0}
           /\ \A k \in 1 .. LastStep : Steps[k].expr \in Atoms /\ Steps[k].delay \in Nat
           /\ prop.due \subseteq [expr : Atoms, after : Nat]
<1>1. IsProp(prop) BY PropAssumption
<1>2. LastStep \in Nat \ {0} BY <1>1, EmptySeq DEF IsProp, LastStep, Steps
<1>3. \A k \in 1 .. LastStep : Steps[k] \in [expr : Atoms, delay : Nat]
  BY <1>1, ElementOfSeq DEF IsProp, LastStep, Steps
<1>. QED BY <1>1, <1>2, <1>3 DEF IsProp, Steps

(***************************************************************************)
(* Types                                                                   *)
(***************************************************************************)
LEMMA EnqueueType ==
    ASSUME MonitorTypeOK, NEW st \in 1 .. LastStep, Steps[st].delay > 0, Enqueue(st)
    PROVE  /\ pending' \in Seq(Entry)
           /\ Len(pending') <= Places
<1> DEFINE e == [step |-> st, dly |-> Steps[st].delay - 1]
<1>1. prop \in Props /\ pending \in Seq(Entry) BY DEF MonitorTypeOK, Entry
<1>2. e \in Entry BY <1>1, PropType DEF Entry
<1>3. Append(pending, e) \in Seq(Entry) /\ Len(Append(pending, e)) = Len(pending) + 1
  BY <1>1, <1>2, AppendProperties
<1>. QED BY <1>1, <1>3, BoundAssumption, LenProperties DEF Enqueue, MonitorTypeOK

LEMMA RemoveType ==
    ASSUME MonitorTypeOK, NEW k \in 1 .. Len(pending)
    PROVE  /\ Remove(k) \in Seq(Entry)
           /\ Len(Remove(k)) = Len(pending) - 1
           /\ \A j \in 1 .. Len(pending) - 1 :
                Remove(k)[j] = IF j = k THEN pending[Len(pending)] ELSE pending[j]
<1>1. pending \in Seq(Entry) BY DEF MonitorTypeOK, Entry
<1>2. Len(pending) \in Nat /\ \A j \in 1 .. Len(pending) : pending[j] \in Entry
  BY <1>1, ElementOfSeq, LenProperties
<1>. DEFINE m == Len(pending) - 1
<1>3. m \in Nat BY <1>2
<1>4. Remove(k) \in [1 .. m -> Entry] BY <1>2 DEF Remove
<1>5. Remove(k) \in Seq(Entry) /\ Len(Remove(k)) = m
  <2>. HIDE DEF m
  <2>1. Remove(k) \in UNION {[1 .. n -> Entry] : n \in Nat} BY <1>3, <1>4
  <2>2. Remove(k) \in Seq(Entry) BY <2>1, SeqDef
  <2>3. DOMAIN Remove(k) = 1 .. m BY <1>4
  <2>4. Len(Remove(k)) \in Nat /\ DOMAIN Remove(k) = 1 .. Len(Remove(k)) BY <2>2, LenProperties
  <2>. QED BY <1>3, <2>2, <2>3, <2>4
<1>. QED BY <1>5 DEF Remove

LEMMA InitType == MonitorInit => MonitorTypeOK
<1>. SUFFICES ASSUME MonitorInit PROVE MonitorTypeOK
  OBVIOUS
<1>1. pending \in Seq(Entry) /\ Len(pending) = 0 BY EmptySeq DEF MonitorInit
<1>2. trace \in Seq(Valuations) /\ Len(trace) = 0 BY EmptySeq DEF MonitorInit
<1>3. prop \in Props /\ fail = FALSE /\ phase = "idle" /\ turn = 1 /\ cleared = 0 BY DEF MonitorInit
<1>4. Len(pending) <= Places /\ Len(trace) <= MaxEdges BY <1>1, <1>2, BoundAssumption
<1>5. turn \in Nat \ {0} /\ cleared \in 0 .. Len(trace) BY <1>2, <1>3
<1>6. fail \in BOOLEAN BY <1>3
<1>7. phase \in {"idle", "advance", "begin"} BY <1>3
<1>. QED BY <1>1, <1>2, <1>3, <1>4, <1>5, <1>6, <1>7 DEF MonitorTypeOK, Entry

LEMMA NextType == MonitorTypeOK /\ [MonitorNext]_monitorVars => MonitorTypeOK'
<1>. SUFFICES ASSUME MonitorTypeOK, [MonitorNext]_monitorVars PROVE MonitorTypeOK'
  OBVIOUS
<1>1. ASSUME NEW v \in Valuations, Edge(v) PROVE MonitorTypeOK'
  <2>1. trace \in Seq(Valuations) /\ Len(trace) \in Nat BY LenProperties DEF MonitorTypeOK
  <2>2. trace' \in Seq(Valuations) /\ Len(trace') = Len(trace) + 1
    BY <1>1, <2>1, AppendProperties DEF Edge
  <2>. QED BY <1>1, <2>1, <2>2, BoundAssumption DEF Edge, MonitorTypeOK, LastStep, Steps
<1>2. CASE WaitOn
  <2>1. pending \in Seq(Entry) /\ turn \in 1 .. Len(pending) BY <1>2 DEF MonitorTypeOK, WaitOn, Entry
  <2>2. pending[turn] \in Entry BY <2>1, ElementOfSeq
  <2>. DEFINE e == [pending[turn] EXCEPT !.dly = @ - 1]
  <2>3. e \in Entry BY <1>2, <2>2 DEF WaitOn, Entry
  <2>4. pending' = [pending EXCEPT ![turn] = e] BY <1>2 DEF WaitOn
  <2>5. pending' \in Seq(Entry) /\ Len(pending') = Len(pending)
    <3>. HIDE DEF e
    <3>. QED BY <2>1, <2>3, <2>4, ExceptSeq
  <2>. QED BY <1>2, <2>5 DEF WaitOn, MonitorTypeOK, Entry, LastStep, Steps
<1>3. CASE CheckAndMove
  <2>1. pending \in Seq(Entry) /\ turn \in 1 .. Len(pending) BY <1>3 DEF MonitorTypeOK, CheckAndMove, Entry
  <2>2. pending[turn] \in Entry BY <2>1, ElementOfSeq
  <2>. DEFINE st == pending[turn].step
              e == [step |-> st + 1, dly |-> Steps[st + 1].delay - 1]
  <2>3. st \in 1 .. LastStep /\ st < LastStep /\ Steps[st + 1].delay # 0
    BY <1>3, <2>2 DEF CheckAndMove, Joined, Entry
  <2>7. LastStep \in Nat BY PropType DEF MonitorTypeOK
  <2>8. st + 1 \in 1 .. LastStep /\ LastStep \in Nat
    <3>. HIDE DEF st
    <3>. QED BY <2>3, <2>7
  <2>9. Steps[st + 1].delay \in Nat BY <2>8, PropType DEF MonitorTypeOK
  <2>4. e \in Entry BY <2>3, <2>8, <2>9 DEF Entry
  <2>5. pending' = [pending EXCEPT ![turn] = e] BY <1>3 DEF CheckAndMove
  <2>6. pending' \in Seq(Entry) /\ Len(pending') = Len(pending)
    <3>. HIDE DEF e
    <3>. QED BY <2>1, <2>4, <2>5, ExceptSeq
  <2>10. fail' \in BOOLEAN BY <1>3 DEF CheckAndMove, Look, MonitorTypeOK
  <2>. QED BY <1>3, <2>6, <2>10 DEF CheckAndMove, MonitorTypeOK, Entry, LastStep, Steps
<1>4. CASE CheckAndRemove
  <2>0. Len(pending) \in Nat BY LenProperties DEF MonitorTypeOK
  <2>1. turn \in 1 .. Len(pending) BY <1>4, <2>0 DEF MonitorTypeOK, CheckAndRemove
  <2>2. pending' \in Seq(Entry) /\ Len(pending') <= Places
    BY <1>4, <2>0, <2>1, RemoveType, BoundAssumption DEF CheckAndRemove, MonitorTypeOK
  <2>3. fail' \in BOOLEAN BY <1>4 DEF CheckAndRemove, Look, MonitorTypeOK
  <2>. QED BY <1>4, <2>2, <2>3 DEF CheckAndRemove, MonitorTypeOK, Entry, LastStep, Steps
<1>5. CASE EndLoop BY <1>5 DEF EndLoop, MonitorTypeOK, LastStep, Steps
<1>6. CASE NotTriggered BY <1>6 DEF NotTriggered, Begin, MonitorTypeOK, LastStep, Steps
<1>7. CASE BeginLater
  <2>1. 1 \in 1 .. LastStep BY PropType DEF MonitorTypeOK
  <2>2. pending' \in Seq(Entry) /\ Len(pending') <= Places
    BY <1>7, <2>1, EnqueueType DEF BeginLater
  <2>. QED BY <1>7, <2>2 DEF BeginLater, Begin, MonitorTypeOK, Entry, LastStep, Steps
<1>8. CASE BeginSingle BY <1>8 DEF BeginSingle, Begin, MonitorTypeOK, LastStep, Steps
<1>9. CASE BeginFails BY <1>9 DEF BeginFails, Begin, MonitorTypeOK, LastStep, Steps
<1>10. CASE BeginFollowed
  <2>1. CASE Joined(1)
    <3>1. fail' \in BOOLEAN BY <1>10, <2>1 DEF BeginFollowed, MonitorTypeOK
    <3>. QED BY <1>10, <2>1, <3>1 DEF BeginFollowed, Begin, MonitorTypeOK, LastStep, Steps
  <2>2. CASE ~ Joined(1)
    <3>1. 2 \in 1 .. LastStep /\ Steps[2].delay > 0
      BY <1>10, <2>2, PropType DEF BeginFollowed, Joined, MonitorTypeOK
    <3>2. pending' \in Seq(Entry) /\ Len(pending') <= Places
      BY <1>10, <2>2, <3>1, EnqueueType DEF BeginFollowed
    <3>. QED BY <1>10, <2>2, <3>2 DEF BeginFollowed, Begin, MonitorTypeOK, Entry, LastStep, Steps
  <2>. QED BY <2>1, <2>2
<1>11. CASE AssertClear
  <2>1. Len(trace) \in Nat BY LenProperties DEF MonitorTypeOK
  <2>2. cleared' \in 0 .. Len(trace') BY <1>11, <2>1 DEF AssertClear
  <2>3. UNCHANGED <<prop, pending, turn, phase, trace>> /\ fail' = FALSE BY <1>11 DEF AssertClear
  <2>. QED BY <2>2, <2>3 DEF MonitorTypeOK, LastStep, Steps
<1>12. CASE UNCHANGED monitorVars BY <1>12 DEF monitorVars, MonitorTypeOK, LastStep, Steps
<1>. QED BY <1>1, <1>2, <1>3, <1>4, <1>5, <1>6, <1>7, <1>8, <1>9, <1>10, <1>11, <1>12 DEF MonitorNext

\* MonitorTypeOK: steps, delays and places stay in their ranges, whatever the properties are.
THEOREM TypeCorrect == MonitorSpec => []MonitorTypeOK
<1>1. MonitorInit => MonitorTypeOK BY InitType
<1>2. MonitorTypeOK /\ [MonitorNext]_monitorVars => MonitorTypeOK' BY NextType
<1>. QED BY <1>1, <1>2, PTL DEF MonitorSpec

(***************************************************************************)
(* The invariant.  An attempt in flight stands for the edge at which it    *)
(* began; every attempt that is to be looked at again is in flight, no two *)
(* entries are of one attempt, and what was not met is reported unless the *)
(* loop has still to come to its entry.                                    *)
(***************************************************************************)
\* The due times of the steps, by the choice of any that fit.
OffOf(p) == CHOOSE off \in [1 .. Len(p.steps) -> 0 .. Places] : Timed(p, off)
Off == OffOf(prop)
Span == Off[LastStep]

\* Edges after the last one in trace until attempt k is looked at.
Unseen(k) == phase = "advance" /\ k >= turn
Wait(k) == IF Unseen(k) THEN pending[k].dly ELSE pending[k].dly + 1

\* The edge at which attempt k began.
StartOf(k) == Len(trace) + Wait(k) - Off[pending[k].step]

\* The last edge whose attempt has begun.
Old == IF phase = "idle" THEN Len(trace) ELSE Len(trace) - 1

InFlight == 1 .. Len(pending)

\* An attempt begins at edge t and its first step, if looked at once, holds.
Followed(t) == Begins(t) /\ (Off[1] = 0 /\ LastStep > 1 => trace[t][Steps[1].expr])

EntriesStarted ==
    \A k \in InFlight :
        /\ pending[k].dly < Steps[pending[k].step].delay
        /\ StartOf(k) \in 1 .. Old
        /\ Followed(StartOf(k))

StartsDiffer == \A k, l \in InFlight : StartOf(k) = StartOf(l) => k = l

StartedHaveEntries ==
    \A t \in 1 .. Old : Followed(t) /\ t + Span > Len(trace) => \E k \in InFlight : StartOf(k) = t

MissedSeen ==
    \A t \in 1 .. Old, s \in 1 .. LastStep :
        Followed(t) /\ t + Off[s] <= Len(trace) /\ cleared < t + Off[s]
            /\ ~ trace[t + Off[s]][Steps[s].expr]
        => \/ fail
           \/ /\ t + Off[s] = Len(trace)
              /\ \E k \in InFlight : Unseen(k) /\ StartOf(k) = t

FirstSeen ==
    \A t \in 1 .. Old : Begins(t) /\ ~ Followed(t) /\ cleared < t => fail

IInv ==
    /\ MonitorTypeOK
    /\ cleared <= Old
    /\ EntriesStarted
    /\ StartsDiffer
    /\ StartedHaveEntries
    /\ MissedSeen
    /\ FirstSeen
    /\ NoFalseAlarm

-----------------------------------------------------------------------------
(* The offsets of the steps *)

\* The least-number principle, for sets.
LEMMA Least ==
    ASSUME NEW S, S \subseteq Nat, NEW e \in S
    PROVE  \E m \in S : \A n \in S : m <= n
<1> DEFINE R == {ss \in Nat \X Nat : ss[1] < ss[2]}
<1>1. IsWellFoundedOn(R, Nat) BY NatLessThanWellFounded DEF OpToRel
<1>2. \E m \in S : \A n \in S : ~ (<<n, m>> \in R)
  <2>. HIDE DEF R
  <2>. QED BY <1>1, WFMin
<1>3. PICK m \in S : \A n \in S : ~ (<<n, m>> \in R) BY <1>2
<1>4. ASSUME NEW n \in S PROVE m <= n
  <2>1. <<n, m>> \in R <=> n < m OBVIOUS
  <2>. QED BY <2>1, <1>3
<1>. QED BY <1>4

LEMMA OffType ==
    ASSUME Supported, prop \in Props
    PROVE  Off \in [1 .. LastStep -> 0 .. Places] /\ Timed(prop, Off)
BY DEF Supported, Off, OffOf, LastStep, Steps

LEMMA StepRanges ==
    ASSUME Supported, prop \in Props
    PROVE  LastStep \in Nat /\ \A m \in 1 .. LastStep : Off[m] \in Nat /\ Steps[m].delay \in Nat
<1>1. Off \in [1 .. LastStep -> 0 .. Places] BY OffType
<1>2. 0 .. Places \subseteq Nat BY BoundAssumption
<1>3. \A m \in 1 .. LastStep : Off[m] \in Nat
  <2>. HIDE DEF Off
  <2>. QED BY <1>1, <1>2
<1>4. LastStep \in Nat /\ \A m \in 1 .. LastStep : Steps[m].delay \in Nat BY PropType
<1>. QED BY <1>3, <1>4

LEMMA OffsetsRise ==
    ASSUME Supported, prop \in Props, NEW k \in 1 .. LastStep, NEW l \in 1 .. LastStep, k < l
    PROVE  Off[k] + Steps[l].delay <= Off[l]
<1> DEFINE Bad == {m \in 1 .. LastStep : k < m /\ ~ (Off[k] + Steps[m].delay <= Off[m])}
<1>0. LastStep \in Nat /\ \A m \in 1 .. LastStep : Off[m] \in Nat /\ Steps[m].delay \in Nat
  BY StepRanges
<1>1. \A m \in 1 .. LastStep - 1 : Off[m + 1] = Off[m] + Steps[m + 1].delay
  BY OffType DEF Timed, LastStep, Steps
<1>2. ASSUME NEW e \in Bad PROVE FALSE
  <2>1. Bad \subseteq Nat BY <1>0
  <2>2. PICK m \in Bad : \A n \in Bad : m <= n
    <3>. HIDE DEF Bad
    <3>. QED BY <2>1, <1>2, Least
  <2>3. m - 1 \in 1 .. LastStep - 1 /\ m - 1 \in 1 .. LastStep /\ (m - 1) + 1 = m
    BY <2>2, <1>0
  <2>4. Off[m] = Off[m - 1] + Steps[m].delay BY <1>1, <2>3
  <2>5. Off[k] <= Off[m - 1]
    <3>1. CASE m - 1 = k BY <3>1, <1>0
    <3>2. CASE m - 1 # k
      <4>1. k < m - 1 /\ m - 1 \notin Bad BY <2>2, <2>3, <3>2, <1>0
      <4>2. Off[k] + Steps[m - 1].delay <= Off[m - 1] BY <4>1, <2>3
      <4>. QED BY <4>2, <2>3, <1>0
    <3>. QED BY <3>1, <3>2
  <2>. QED BY <2>2, <2>3, <2>4, <2>5, <1>0
<1>. QED BY <1>2

\* Two steps at one edge are the last two.
LEMMA SameOffset ==
    ASSUME Supported, prop \in Props, NEW k \in 1 .. LastStep, NEW l \in 1 .. LastStep,
           k < l, Off[l] <= Off[k]
    PROVE  l = LastStep /\ l = k + 1 /\ Joined(k)
<1>0. LastStep \in Nat /\ \A m \in 1 .. LastStep : Off[m] \in Nat /\ Steps[m].delay \in Nat
  BY StepRanges
<1>1. \A m \in 2 .. LastStep - 1 : Steps[m].delay > 0 BY DEF Supported, LastStep, Steps
<1>2. k + 1 \in 1 .. LastStep BY <1>0
<1>3. Off[k] + Steps[k + 1].delay <= Off[k + 1] BY <1>0, <1>2, OffsetsRise
<1>4. Off[k + 1] <= Off[l]
  <2>1. CASE k + 1 = l BY <2>1, <1>0
  <2>2. CASE k + 1 # l
    <3>1. Off[k + 1] + Steps[l].delay <= Off[l] BY <2>2, <1>0, <1>2, OffsetsRise
    <3>. QED BY <3>1, <1>0, <1>2
  <2>. QED BY <2>1, <2>2
<1>5. Steps[k + 1].delay = 0 BY <1>0, <1>2, <1>3, <1>4
<1>6. k + 1 = LastStep BY <1>0, <1>1, <1>2, <1>5
<1>. QED BY <1>0, <1>5, <1>6 DEF Joined

-----------------------------------------------------------------------------
(* Entries *)

LEMMA EntryFacts ==
    ASSUME Supported, MonitorTypeOK, NEW k \in InFlight
    PROVE  /\ pending[k].step \in 1 .. LastStep /\ pending[k].dly \in Nat
           /\ Off[pending[k].step] \in 0 .. Places
           /\ Steps[pending[k].step].delay \in Nat
           /\ Len(trace) \in Nat /\ StartOf(k) \in Int
<1>1. pending \in Seq(Entry) /\ prop \in Props BY DEF MonitorTypeOK, Entry
<1>2. pending[k] \in Entry BY <1>1, ElementOfSeq DEF InFlight
<1>3. pending[k].step \in 1 .. LastStep /\ pending[k].dly \in Nat BY <1>2 DEF Entry
<1>4. Len(trace) \in Nat BY LenProperties DEF MonitorTypeOK
<1>5. Off[pending[k].step] \in 0 .. Places BY <1>1, <1>3, OffType
<1>6. Steps[pending[k].step].delay \in Nat BY <1>1, <1>3, PropType
<1>. QED BY <1>3, <1>4, <1>5, <1>6, BoundAssumption, SMTT(30) DEF StartOf, Wait

LEMMA OldFacts ==
    ASSUME Supported, MonitorTypeOK
    PROVE  /\ Len(trace) \in Nat /\ Len(pending) \in Nat /\ LastStep \in Nat \ {0}
           /\ Old \in Int /\ Old <= Len(trace) /\ cleared \in Nat
           /\ Span \in Nat /\ \A s \in 1 .. LastStep : Off[s] \in Nat /\ Off[s] <= Span
<1>1. Len(trace) \in Nat /\ Len(pending) \in Nat /\ prop \in Props BY LenProperties DEF MonitorTypeOK
<1>2. LastStep \in Nat \ {0} BY <1>1, PropType
<1>3. \A s \in 1 .. LastStep : Off[s] \in Nat BY <1>1, OffType, BoundAssumption
<1>4. ASSUME NEW s \in 1 .. LastStep PROVE Off[s] <= Off[LastStep]
  <2>1. CASE s = LastStep BY <2>1, <1>2, <1>3
  <2>2. CASE s # LastStep
    <3>1. Steps[LastStep].delay \in Nat BY <1>1, <1>2, PropType
    <3>2. Off[s] + Steps[LastStep].delay <= Off[LastStep] BY <1>1, <1>2, <2>2, OffsetsRise
    <3>. QED BY <3>1, <3>2, <1>2, <1>3
  <2>. QED BY <2>1, <2>2
<1>5. cleared \in Nat BY <1>1 DEF MonitorTypeOK
<1>6. Old \in Int /\ Old <= Len(trace) BY <1>1 DEF Old
<1>. QED BY <1>1, <1>2, <1>3, <1>4, <1>5, <1>6 DEF Span

\* The step that is due of an attempt the loop has still to come to is the one in its entry.
LEMMA DueStep ==
    ASSUME Supported, MonitorTypeOK, EntriesStarted, NEW k \in InFlight, Unseen(k),
           NEW s \in 1 .. LastStep, StartOf(k) + Off[s] = Len(trace)
    PROVE  /\ pending[k].dly = 0
           /\ s = pending[k].step \/ (Joined(pending[k].step) /\ s = pending[k].step + 1)
<1> DEFINE st == pending[k].step
           d == pending[k].dly
<1>0. prop \in Props BY DEF MonitorTypeOK
<1>1. st \in 1 .. LastStep /\ d \in Nat /\ Steps[st].delay \in Nat /\ Len(trace) \in Nat
  BY EntryFacts
<1>2. LastStep \in Nat /\ \A m \in 1 .. LastStep : Off[m] \in Nat BY OldFacts
<1>3. Off[s] = Off[st] - d BY <1>1, <1>2 DEF StartOf, Wait
<1>4. d < Steps[st].delay BY DEF EntriesStarted
<1>5. \A m \in 1 .. LastStep : Steps[m].delay \in Nat BY <1>0, PropType
<1>. HIDE DEF st, d
<1>6. ~ (s < st)
  <2>1. SUFFICES ASSUME s < st PROVE FALSE OBVIOUS
  <2>2. Off[s] + Steps[st].delay <= Off[st] BY <1>0, <1>1, <2>1, OffsetsRise
  <2>. QED BY <2>2, <1>1, <1>2, <1>3, <1>4
<1>7. CASE s = st BY <1>1, <1>2, <1>3, <1>7 DEF st, d
<1>8. CASE st < s
  <2>1. Off[st] + Steps[s].delay <= Off[s] BY <1>0, <1>1, <1>8, OffsetsRise
  <2>2. d = 0 /\ Off[s] <= Off[st] BY <2>1, <1>1, <1>2, <1>3, <1>5
  <2>3. s = st + 1 /\ Joined(st) BY <2>2, <1>0, <1>1, <1>8, SameOffset
  <2>. QED BY <2>2, <2>3 DEF st, d
<1>. QED BY <1>1, <1>2, <1>6, <1>7, <1>8

\* Behind the loop the attempts in flight leave a place for one more.
LEMMA Room ==
    ASSUME Supported, MonitorTypeOK, EntriesStarted, StartsDiffer, phase = "begin"
    PROVE  Len(pending) < Places
<1>1. SUFFICES ASSUME Places <= Len(pending) PROVE FALSE BY OldFacts, BoundAssumption
<1>2. Places \in Nat /\ Places > 0 BY BoundAssumption DEF Supported
<1> DEFINE g == [k \in InFlight |-> Len(trace) - StartOf(k)]
<1>3. ASSUME NEW k \in InFlight PROVE Len(trace) - StartOf(k) \in 1 .. Places - 1
  <2>1. StartOf(k) = Len(trace) + (pending[k].dly + 1) - Off[pending[k].step] /\ Old = Len(trace) - 1
    BY DEF StartOf, Wait, Unseen, Old
  <2>2. StartOf(k) \in 1 .. Old BY DEF EntriesStarted
  <2>3. pending[k].dly \in Nat /\ Off[pending[k].step] \in 0 .. Places /\ Len(trace) \in Nat
    BY EntryFacts
  <2>. DEFINE d == pending[k].dly
              o == Off[pending[k].step]
              n == StartOf(k)
              len == Len(trace)
  <2>4. n = len + (d + 1) - o /\ n \in 1 .. len - 1 BY <2>1, <2>2
  <2>5. d \in Nat /\ o \in 0 .. Places /\ len \in Nat BY <2>3
  <2>. HIDE DEF d, o, n, len
  <2>6. len - n \in 1 .. Places - 1 BY <2>4, <2>5, <1>2
  <2>. QED BY <2>6 DEF n, len
<1>4. g \in [InFlight -> 1 .. Places - 1] BY <1>3
<1>5. IsFiniteSet(InFlight) /\ Cardinality(InFlight) = Len(pending)
  <2>1. Len(pending) \in Nat BY OldFacts
  <2>. QED BY <2>1, FS_Interval, SMTT(30) DEF InFlight
<1>6. IsFiniteSet(1 .. Places - 1) /\ Cardinality(1 .. Places - 1) = Places - 1
  BY <1>2, FS_Interval
<1>7. Cardinality(1 .. Places - 1) < Cardinality(InFlight) BY <1>1, <1>2, <1>5, <1>6, OldFacts
<1>8. PICK k \in InFlight, l \in InFlight : k # l /\ g[k] = g[l]
  <2>. HIDE DEF g
  <2>. QED BY <1>4, <1>5, <1>6, <1>7, FS_PigeonHole
<1>9. StartOf(k) = StartOf(l) BY <1>8, EntryFacts
<1>. QED BY <1>8, <1>9 DEF StartsDiffer

-----------------------------------------------------------------------------
(* What a step leaves alone *)

LEMMA Constants ==
    ASSUME prop' = prop
    PROVE  /\ Off' = Off /\ Steps' = Steps /\ LastStep' = LastStep /\ Span' = Span
           /\ \A st : Joined(st)' <=> Joined(st)
<1>1. Steps' = Steps /\ LastStep' = LastStep BY DEF LastStep, Steps
<1>2. Off' = Off BY DEF Off
<1>. QED BY <1>1, <1>2 DEF Joined, Span

LEMMA Past ==
    ASSUME prop' = prop, NEW t, trace'[t] = trace[t]
    PROVE  (Begins(t)' <=> Begins(t)) /\ (Followed(t)' <=> Followed(t))
<1>1. Steps' = Steps /\ LastStep' = LastStep /\ Off' = Off BY Constants
<1>2. Begins(t)' <=> Begins(t) BY <1>1 DEF Begins
<1>. QED BY <1>1, <1>2 DEF Followed

\* A failure that is seen now, of the attempt of edge t at its step s.
LEMMA SeenNow ==
    ASSUME Supported, MonitorTypeOK, UNCHANGED <<prop, trace, cleared>>,
           NEW t \in Edges, NEW s \in 1 .. LastStep, Begins(t),
           t + Off[s] = Len(trace), ~ HoldsNow(Steps[s].expr), cleared < Len(trace)
    PROVE  NoFalseAlarm'
<1>1. prop \in Props BY DEF MonitorTypeOK
<1>2. PICK o \in prop.due : o.expr = Steps[s].expr /\ o.after = Off[s]
  <2>1. [expr |-> Steps[s].expr, after |-> Off[s]] \in prop.due
    BY <1>1, OffType DEF Timed, LastStep, Steps
  <2>. QED BY <2>1
<1>3. Len(trace) \in Nat /\ Off[s] \in Nat /\ t \in Nat /\ t > 0 BY OldFacts DEF Edges
<1>4. t + o.after = Len(trace) /\ Len(trace) \in Edges BY <1>2, <1>3 DEF Edges
<1>5. Missed(t, o) BY <1>2, <1>4 DEF Missed, HoldsNow
<1>6. Begins(t)' <=> Begins(t) BY Past
<1>7. Missed(t, o)' BY <1>5, <1>6 DEF Missed, Edges
<1>8. Edges' = Edges BY DEF Edges
<1>. QED BY <1>2, <1>4, <1>7, <1>8 DEF NoFalseAlarm

LEMMA AlarmStays ==
    ASSUME NoFalseAlarm, UNCHANGED <<prop, trace, cleared>>, fail' => fail
    PROVE  NoFalseAlarm'
<1>1. \A t : Begins(t)' <=> Begins(t) BY Past
<1>2. \A t, o : Missed(t, o)' <=> Missed(t, o) BY <1>1 DEF Missed, Edges
<1>. QED BY <1>2 DEF NoFalseAlarm, Edges

(***************************************************************************)
(* A step of the loop: the entries stand for attempts that had one before, *)
(* and one that has lost its entry is over, one the loop has passed has    *)
(* been looked at.                                                         *)
(***************************************************************************)
LEMMA Turn ==
    ASSUME Supported, IInv, MonitorTypeOK', UNCHANGED <<prop, trace, cleared>>, Old' = Old,
           fail => fail', NoFalseAlarm',
           \A k \in InFlight' :
               /\ pending'[k].dly < Steps[pending'[k].step].delay
               /\ \E l \in InFlight : StartOf(k)' = StartOf(l),
           StartsDiffer',
           \A l \in InFlight :
               StartOf(l) + Span > Len(trace) => \E k \in InFlight' : StartOf(k)' = StartOf(l),
           \A l \in InFlight, s \in 1 .. LastStep :
               Unseen(l) /\ StartOf(l) + Off[s] = Len(trace) /\ ~ HoldsNow(Steps[s].expr)
               => fail' \/ \E k \in InFlight' : Unseen(k)' /\ StartOf(k)' = StartOf(l)
    PROVE  IInv'
<1>1. Off' = Off /\ Steps' = Steps /\ LastStep' = LastStep /\ Span' = Span BY Constants
<1>2. \A t : (Begins(t)' <=> Begins(t)) /\ (Followed(t)' <=> Followed(t)) BY Past
<1>3. cleared' <= Old' BY DEF IInv
<1>4. EntriesStarted'
  <2>1. ASSUME NEW k \in InFlight' PROVE StartOf(k)' \in 1 .. Old' /\ Followed(StartOf(k))'
    <3>1. PICK l \in InFlight : StartOf(k)' = StartOf(l) OBVIOUS
    <3>2. StartOf(l) \in 1 .. Old /\ Followed(StartOf(l)) BY DEF IInv, EntriesStarted
    <3>3. PICK t : t = StartOf(l) OBVIOUS
    <3>4. Followed(t) /\ t = StartOf(k)' BY <3>1, <3>2, <3>3
    <3>5. Followed(t)' BY <3>4, <1>2
    <3>. QED BY <3>1, <3>2, <3>4, <3>5 DEF Followed, Begins
  <2>. QED BY <1>1, <2>1 DEF EntriesStarted
<1>5. StartedHaveEntries'
  <2>1. ASSUME NEW t \in 1 .. Old, Followed(t), t + Span > Len(trace)
        PROVE  \E k \in InFlight' : StartOf(k)' = t
    <3>1. PICK l \in InFlight : StartOf(l) = t BY <2>1 DEF IInv, StartedHaveEntries
    <3>. QED BY <2>1, <3>1
  <2>. QED BY <1>1, <1>2, <2>1 DEF StartedHaveEntries
<1>6. MissedSeen'
  <2>1. ASSUME NEW t \in 1 .. Old, NEW s \in 1 .. LastStep,
               Followed(t), t + Off[s] <= Len(trace), cleared < t + Off[s],
               ~ trace[t + Off[s]][Steps[s].expr], ~ fail'
        PROVE  /\ t + Off[s] = Len(trace)
               /\ \E k \in InFlight' : Unseen(k)' /\ StartOf(k)' = t
    <3>1. t + Off[s] = Len(trace) /\ \E l \in InFlight : Unseen(l) /\ StartOf(l) = t
      BY <2>1 DEF IInv, MissedSeen
    <3>2. ~ HoldsNow(Steps[s].expr) BY <2>1, <3>1 DEF HoldsNow
    <3>. QED BY <2>1, <3>1, <3>2
  <2>. QED BY <1>1, <1>2, <2>1 DEF MissedSeen
<1>7. FirstSeen' BY <1>2 DEF IInv, FirstSeen
<1>. QED BY <1>3, <1>4, <1>5, <1>6, <1>7 DEF IInv

(***************************************************************************)
(* A new attempt: the entries there were stay, one for the edge that is    *)
(* being processed may join them.                                          *)
(***************************************************************************)
LEMMA Begun ==
    ASSUME Supported, IInv, MonitorTypeOK', phase = "begin", phase' = "idle",
           UNCHANGED <<prop, trace, cleared>>, fail => fail', NoFalseAlarm',
           \A k \in InFlight : k \in InFlight' /\ pending'[k] = pending[k],
           \A k \in InFlight' :
               \/ k \in InFlight
               \/ /\ k = Len(pending) + 1
                  /\ StartOf(k)' = Len(trace)
                  /\ Followed(Len(trace))
                  /\ pending'[k].dly < Steps[pending'[k].step].delay,
           Followed(Len(trace)) /\ Span > 0 => \E k \in InFlight' : StartOf(k)' = Len(trace),
           \A s \in 1 .. LastStep :
               Followed(Len(trace)) /\ Off[s] = 0 /\ ~ HoldsNow(Steps[s].expr) => fail',
           Begins(Len(trace)) /\ ~ Followed(Len(trace)) => fail'
    PROVE  IInv'
<1>0. /\ Off' = Off /\ Steps' = Steps /\ LastStep' = LastStep /\ Span' = Span
      /\ \A t : (Begins(t)' <=> Begins(t)) /\ (Followed(t)' <=> Followed(t))
  BY Constants, Past
<1>1. Len(trace) \in Nat /\ LastStep \in Nat /\ Span \in Nat /\ cleared \in Nat
      /\ \A s \in 1 .. LastStep : Off[s] \in Nat
  BY OldFacts DEF IInv
<1>2. Old = Len(trace) - 1 /\ Old' = Len(trace) /\ cleared <= Old
  BY DEF Old, IInv
<1>3. ASSUME NEW k \in InFlight PROVE k \in InFlight' /\ StartOf(k)' = StartOf(k)
  BY <1>0 DEF StartOf, Wait, Unseen
<1>4. \A k \in InFlight : StartOf(k) \in 1 .. Len(trace) - 1 /\ Followed(StartOf(k))
  BY <1>2 DEF IInv, EntriesStarted
<1>5. cleared' <= Old' BY <1>1, <1>2
<1>6. Len(trace) \in 1 .. Len(trace) BY <1>1, <1>2
<1>7. EntriesStarted'
  <2>1. ASSUME NEW k \in InFlight'
        PROVE  /\ StartOf(k)' \in 1 .. Old' /\ Followed(StartOf(k))'
               /\ pending'[k].dly < Steps[pending'[k].step].delay
    <3>1. PICK t : t = StartOf(k)' OBVIOUS
    <3>2. t \in 1 .. Len(trace) /\ Followed(t)
          /\ pending'[k].dly < Steps[pending'[k].step].delay
      <4>1. CASE k \in InFlight
        <5>1. t \in 1 .. Len(trace) - 1 /\ Followed(t) BY <1>3, <1>4, <3>1, <4>1
        <5>2. pending'[k].dly < Steps[pending'[k].step].delay BY <4>1 DEF IInv, EntriesStarted
        <5>. QED BY <5>1, <5>2, <1>1
      <4>2. CASE k \notin InFlight BY <3>1, <4>2, <1>6
      <4>. QED BY <4>1, <4>2
    <3>3. Followed(t)' BY <3>2, <1>0
    <3>. QED BY <3>1, <3>2, <3>3, <1>2 DEF Followed, Begins
  <2>. QED BY <1>0, <2>1 DEF EntriesStarted
<1>8. StartsDiffer'
  <2>1. ASSUME NEW k \in InFlight', NEW l \in InFlight', StartOf(k)' = StartOf(l)' PROVE k = l
    <3>1. CASE k \in InFlight /\ l \in InFlight
      BY <3>1, <2>1, <1>3 DEF IInv, StartsDiffer
    <3>2. CASE k \in InFlight /\ l \notin InFlight BY <3>2, <2>1, <1>1, <1>3, <1>4
    <3>3. CASE k \notin InFlight /\ l \in InFlight BY <3>3, <2>1, <1>1, <1>3, <1>4
    <3>4. CASE k \notin InFlight /\ l \notin InFlight BY <3>4
    <3>. QED BY <3>1, <3>2, <3>3, <3>4
  <2>. QED BY <2>1 DEF StartsDiffer
<1>9. StartedHaveEntries'
  <2>1. ASSUME NEW t \in 1 .. Len(trace), Followed(t), t + Span > Len(trace)
        PROVE  \E k \in InFlight' : StartOf(k)' = t
    <3>1. CASE t = Len(trace) BY <3>1, <2>1, <1>1
    <3>2. CASE t # Len(trace)
      <4>1. t \in 1 .. Old BY <3>2, <1>1, <1>2
      <4>2. PICK k \in InFlight : StartOf(k) = t BY <2>1, <4>1 DEF IInv, StartedHaveEntries
      <4>. QED BY <4>2, <1>3
    <3>. QED BY <3>1, <3>2
  <2>. QED BY <1>0, <1>2, <2>1 DEF StartedHaveEntries
<1>10. MissedSeen'
  <2>1. ASSUME NEW t \in 1 .. Len(trace), NEW s \in 1 .. LastStep,
               Followed(t), t + Off[s] <= Len(trace), cleared < t + Off[s],
               ~ trace[t + Off[s]][Steps[s].expr]
        PROVE  fail'
    <3>1. CASE t = Len(trace)
      <4>1. Off[s] = 0 /\ t + Off[s] = Len(trace) BY <2>1, <3>1, <1>1
      <4>2. ~ HoldsNow(Steps[s].expr) BY <2>1, <4>1 DEF HoldsNow
      <4>. QED BY <2>1, <3>1, <4>1, <4>2
    <3>2. CASE t # Len(trace)
      <4>1. t \in 1 .. Old BY <3>2, <1>1, <1>2
      <4>2. \A k : ~ Unseen(k) BY DEF Unseen
      <4>. QED BY <2>1, <4>1, <4>2 DEF IInv, MissedSeen
    <3>. QED BY <3>1, <3>2
  <2>. QED BY <1>0, <1>2, <2>1 DEF MissedSeen
<1>11. FirstSeen'
  <2>1. ASSUME NEW t \in 1 .. Len(trace), Begins(t), ~ Followed(t), cleared < t PROVE fail'
    <3>1. CASE t = Len(trace) BY <2>1, <3>1
    <3>2. CASE t # Len(trace)
      <4>1. t \in 1 .. Old BY <3>2, <1>1, <1>2
      <4>. QED BY <2>1, <4>1 DEF IInv, FirstSeen
    <3>. QED BY <3>1, <3>2
  <2>. QED BY <1>0, <1>2, <2>1 DEF FirstSeen
<1>. QED BY <1>5, <1>7, <1>8, <1>9, <1>10, <1>11 DEF IInv

-----------------------------------------------------------------------------
(* One lemma for each action *)

LEMMA InitInductive == Supported /\ MonitorInit => IInv
<1>. SUFFICES ASSUME Supported, MonitorInit PROVE IInv
  OBVIOUS
<1>1. MonitorTypeOK BY InitType
<1>2. Len(trace) = 0 /\ Len(pending) = 0 BY DEF MonitorInit
<1>3. phase = "idle" /\ cleared = 0 /\ fail = FALSE BY DEF MonitorInit
<1>4. Old = 0 /\ cleared <= Old BY <1>2, <1>3 DEF Old
<1>5. InFlight = {} /\ 1 .. Old = {} BY <1>2, <1>4 DEF InFlight
<1>. QED BY <1>1, <1>3, <1>4, <1>5
     DEF IInv, EntriesStarted, StartsDiffer, StartedHaveEntries, MissedSeen, FirstSeen, NoFalseAlarm

LEMMA EdgeInductive ==
    ASSUME Supported, IInv, MonitorTypeOK', NEW v \in Valuations, Edge(v)
    PROVE  IInv'
<1> DEFINE len == Len(trace)
<1>0. MonitorTypeOK /\ phase = "idle" /\ phase' = "advance" /\ turn' = 1 /\ trace' = Append(trace, v)
      /\ UNCHANGED <<prop, pending, fail, cleared>>
  BY DEF Edge, IInv
<1>1. Off' = Off /\ Steps' = Steps /\ LastStep' = LastStep /\ Span' = Span /\ InFlight' = InFlight
  BY <1>0, Constants DEF InFlight
<1>2. trace \in Seq(Valuations) BY <1>0 DEF MonitorTypeOK
<1>3. Len(trace') = len + 1 /\ len \in Nat /\ \A t \in 1 .. len : trace'[t] = trace[t]
  BY <1>0, <1>2, AppendProperties, LenProperties
<1>4. \A t \in 1 .. len : (Begins(t)' <=> Begins(t)) /\ (Followed(t)' <=> Followed(t))
  BY <1>0, <1>3, Past
<1>5. Old = len /\ Old' = len BY <1>0, <1>3 DEF Old
<1>6. Span \in Nat /\ cleared \in Nat /\ \A s \in 1 .. LastStep : Off[s] \in Nat /\ Off[s] <= Span
  BY <1>0, OldFacts
<1>7. ASSUME NEW k \in InFlight
      PROVE  StartOf(k)' = StartOf(k) /\ Unseen(k)' /\ StartOf(k) \in 1 .. len
  <2>1. Unseen(k)' /\ ~ Unseen(k) BY <1>0 DEF Unseen, InFlight
  <2>2. pending[k].dly \in Nat /\ Off[pending[k].step] \in Int
    BY <1>0, EntryFacts, BoundAssumption
  <2>3. StartOf(k) = len + (pending[k].dly + 1) - Off[pending[k].step] BY <2>1 DEF StartOf, Wait
  <2>4. StartOf(k)' = (len + 1) + pending[k].dly - Off[pending[k].step]
    BY <1>0, <1>1, <1>3, <2>1 DEF StartOf, Wait
  <2>5. StartOf(k)' = StartOf(k)
    <3> DEFINE d == pending[k].dly
               o == Off[pending[k].step]
    <3>1. d \in Nat /\ o \in Int /\ len \in Nat BY <2>2, <1>3
    <3>2. StartOf(k) = len + (d + 1) - o /\ StartOf(k)' = (len + 1) + d - o BY <2>3, <2>4
    <3>. HIDE DEF d, o, len
    <3>. QED BY <3>1, <3>2
  <2>6. StartOf(k) \in 1 .. len BY <1>5 DEF IInv, EntriesStarted
  <2>. QED BY <2>1, <2>5, <2>6
<1>. HIDE DEF len
<1>8. cleared' <= Old' BY <1>0, <1>5 DEF IInv
<1>9. EntriesStarted'
  <2>1. ASSUME NEW k \in InFlight
        PROVE  StartOf(k)' \in 1 .. len /\ Followed(StartOf(k))' /\ pending[k].dly < Steps[pending[k].step].delay
    <3>1. PICK t : t = StartOf(k) OBVIOUS
    <3>2. Followed(t) /\ t \in 1 .. len /\ t = StartOf(k)' BY <1>7, <3>1 DEF IInv, EntriesStarted
    <3>3. Followed(t)' BY <3>2, <1>4
    <3>4. pending[k].dly < Steps[pending[k].step].delay BY DEF IInv, EntriesStarted
    <3>. QED BY <3>2, <3>3, <3>4 DEF Followed, Begins
  <2>. QED BY <1>0, <1>1, <1>5, <2>1 DEF EntriesStarted
<1>10. StartsDiffer' BY <1>1, <1>7 DEF IInv, StartsDiffer
<1>11. StartedHaveEntries'
  <2>1. ASSUME NEW t \in 1 .. len, Followed(t), t + Span > len PROVE \E k \in InFlight : StartOf(k)' = t
    <3>1. PICK k \in InFlight : StartOf(k) = t
      BY <2>1, <1>5 DEF IInv, StartedHaveEntries, len
    <3>. QED BY <3>1, <1>7
  <2>2. \A t \in 1 .. len : t + Span > len + 1 => t + Span > len BY <1>3, <1>6
  <2>. QED BY <1>1, <1>3, <1>4, <1>5, <2>1, <2>2 DEF StartedHaveEntries
<1>12. MissedSeen'
  <2>1. ASSUME NEW t \in 1 .. len, NEW s \in 1 .. LastStep,
               Followed(t), t + Off[s] <= len + 1, cleared < t + Off[s],
               ~ trace'[t + Off[s]][Steps[s].expr], ~ fail
        PROVE  /\ t + Off[s] = len + 1
               /\ \E k \in InFlight : Unseen(k)' /\ StartOf(k)' = t
    <3>1. t + Off[s] = len + 1
      <4>1. SUFFICES ASSUME t + Off[s] # len + 1 PROVE FALSE OBVIOUS
      <4>2. t + Off[s] \in 1 .. len BY <4>1, <2>1, <1>3, <1>6
      <4>3. ~ trace[t + Off[s]][Steps[s].expr] BY <4>2, <2>1, <1>3
      <4>4. t + Off[s] <= Len(trace) /\ \A k : ~ Unseen(k) BY <4>2, <1>0, <1>3 DEF Unseen, len
      <4>. QED BY <4>3, <4>4, <2>1, <1>5 DEF IInv, MissedSeen
    <3>2. t + Span > Len(trace) BY <3>1, <1>3, <1>6 DEF len
    <3>3. PICK k \in InFlight : StartOf(k) = t BY <2>1, <3>2, <1>5 DEF IInv, StartedHaveEntries
    <3>. QED BY <3>1, <3>3, <1>7
  <2>. QED BY <1>0, <1>1, <1>3, <1>4, <1>5, <2>1 DEF MissedSeen
<1>13. FirstSeen' BY <1>0, <1>4, <1>5 DEF IInv, FirstSeen
<1>14. NoFalseAlarm'
  <2>1. SUFFICES ASSUME fail PROVE \E t \in Edges', o \in prop.due : Missed(t, o)' /\ cleared < t + o.after
    BY <1>0 DEF NoFalseAlarm
  <2>2. PICK t \in Edges, o \in prop.due : Missed(t, o) /\ cleared < t + o.after
    BY <2>1 DEF IInv, NoFalseAlarm
  <2>3. t \in 1 .. len /\ t + o.after \in 1 .. len BY <2>2 DEF Missed, Edges, len
  <2>4. t \in Edges' /\ t + o.after \in Edges' BY <2>3, <1>3 DEF Edges
  <2>5. Missed(t, o)' BY <2>2, <2>3, <2>4, <1>3, <1>4 DEF Missed
  <2>. QED BY <2>2, <2>4, <2>5
<1>. QED BY <1>8, <1>9, <1>10, <1>11, <1>12, <1>13, <1>14 DEF IInv

LEMMA EndLoopInductive ==
    ASSUME Supported, IInv, MonitorTypeOK', EndLoop
    PROVE  IInv'
<1>0. MonitorTypeOK /\ phase = "advance" /\ phase' = "begin" /\ turn > Len(pending)
      /\ UNCHANGED <<prop, pending, turn, fail, trace, cleared>>
  BY DEF EndLoop, IInv
<1>1. InFlight' = InFlight /\ Old' = Old BY <1>0 DEF InFlight, Old
<1>2. Off' = Off BY <1>0, Constants
<1>3. turn \in Nat /\ Len(pending) \in Nat BY <1>0, OldFacts DEF MonitorTypeOK
<1>4. \A k \in InFlight : ~ Unseen(k) /\ ~ Unseen(k)' BY <1>0, <1>3 DEF Unseen, InFlight
<1>5. \A k \in InFlight : StartOf(k)' = StartOf(k) BY <1>0, <1>2, <1>4 DEF StartOf, Wait
<1>6. NoFalseAlarm' BY <1>0, AlarmStays DEF IInv
<1>7. StartsDiffer' BY <1>1, <1>5 DEF IInv, StartsDiffer
<1>8. \A k \in InFlight : pending[k].dly < Steps[pending[k].step].delay BY DEF IInv, EntriesStarted
<1>. QED BY <1>0, <1>1, <1>4, <1>5, <1>6, <1>7, <1>8, Turn

LEMMA WaitOnInductive ==
    ASSUME Supported, IInv, MonitorTypeOK', WaitOn
    PROVE  IInv'
<1> DEFINE d == pending[turn].dly
<1>0. MonitorTypeOK /\ EntriesStarted /\ phase = "advance" /\ turn <= Len(pending) /\ pending[turn].dly > 0
      /\ pending' = [pending EXCEPT ![turn].dly = @ - 1] /\ turn' = turn + 1
      /\ UNCHANGED <<prop, phase, fail, trace, cleared>>
  BY DEF WaitOn, IInv
<1>1. turn \in InFlight /\ Len(pending) \in Nat /\ turn \in Nat BY <1>0, OldFacts DEF InFlight, MonitorTypeOK
<1>2. pending \in Seq(Entry) /\ DOMAIN pending = InFlight
  BY <1>0, LenProperties DEF MonitorTypeOK, Entry, InFlight
<1>3. pending[turn] \in Entry BY <1>1, <1>2, ElementOfSeq DEF InFlight
<1>4. /\ \A k \in InFlight : k # turn => pending'[k] = pending[k]
      /\ pending'[turn].step = pending[turn].step /\ pending'[turn].dly = d - 1
      /\ d \in Nat /\ d > 0
  BY <1>0, <1>1, <1>2, <1>3 DEF Entry
<1>5. InFlight' = InFlight
  <2>1. DOMAIN pending' = InFlight BY <1>0, <1>2
  <2>2. pending' \in Seq(Entry)' /\ Len(pending') \in Nat BY LenProperties DEF MonitorTypeOK, Entry
  <2>3. DOMAIN pending' = 1 .. Len(pending') BY LenProperties DEF MonitorTypeOK
  <2>. QED BY <2>1, <2>3 DEF InFlight
<1>6. Off' = Off /\ Steps' = Steps /\ LastStep' = LastStep BY <1>0, Constants
<1>7. \A k \in InFlight : k # turn => (Unseen(k)' <=> Unseen(k)) BY <1>0, <1>1 DEF Unseen, InFlight
<1>8. PICK j \in InFlight : j = turn BY <1>1
<1>8b. Unseen(j) /\ ~ Unseen(j)' BY <1>0, <1>1, <1>8 DEF Unseen
<1>. HIDE DEF d
<1>9. ASSUME NEW k \in InFlight PROVE StartOf(k)' = StartOf(k)
  <2>1. CASE k = j
    <3>1. Wait(j)' = Wait(j) BY <1>4, <1>8, <1>8b DEF Wait, d
    <3>. QED BY <2>1, <3>1, <1>0, <1>4, <1>6, <1>8 DEF StartOf
  <2>2. CASE k # j BY <2>2, <1>0, <1>4, <1>6, <1>7, <1>8 DEF StartOf, Wait
  <2>. QED BY <2>1, <2>2
<1>10. ASSUME NEW k \in InFlight PROVE pending'[k].dly < Steps[pending'[k].step].delay
  <2>1. pending[k].dly < Steps[pending[k].step].delay BY <1>0 DEF EntriesStarted
  <2>2. CASE k = turn
    <3>1. Steps[pending[turn].step].delay \in Nat BY <1>0, <1>1, EntryFacts
    <3>. QED BY <2>1, <2>2, <3>1, <1>4 DEF d
  <2>3. CASE k # turn BY <2>1, <2>3, <1>4
  <2>. QED BY <2>2, <2>3
<1>11. ASSUME NEW s \in 1 .. LastStep, StartOf(turn) + Off[s] = Len(trace) PROVE FALSE
  <2>1. pending[turn].dly = 0 BY <1>0, <1>1, <1>8, <1>11, <1>8b, DueStep
  <2>. QED BY <2>1, <1>4 DEF d
<1>12. Old' = Old BY <1>0 DEF Old
<1>13. NoFalseAlarm' BY <1>0, AlarmStays DEF IInv
<1>14. StartsDiffer' BY <1>5, <1>9 DEF IInv, StartsDiffer
<1>. QED BY <1>0, <1>5, <1>7, <1>8, <1>9, <1>10, <1>11, <1>12, <1>13, <1>14, Turn

\* The step that is looked at is due, and its attempt has begun.
LEMMA Looked ==
    ASSUME Supported, IInv, phase = "advance", turn \in InFlight, pending[turn].dly = 0,
           Look(pending[turn].step), UNCHANGED <<prop, trace, cleared>>
    PROVE  /\ fail => fail'
           /\ NoFalseAlarm'
           /\ \A s \in 1 .. LastStep :
                StartOf(turn) + Off[s] = Len(trace) /\ ~ HoldsNow(Steps[s].expr) => fail'
           /\ StartOf(turn) + Off[pending[turn].step] = Len(trace)
<1> DEFINE st == pending[turn].step
<1>0. MonitorTypeOK /\ EntriesStarted /\ prop \in Props BY DEF IInv, MonitorTypeOK
<1>1. fail => fail' BY DEF Look
<1>2. turn \in Nat /\ Unseen(turn) BY <1>0 DEF Unseen, MonitorTypeOK
<1>3. st \in 1 .. LastStep /\ Off[st] \in Nat /\ Len(trace) \in Nat /\ cleared \in Nat /\ LastStep \in Nat
  BY <1>0, EntryFacts, OldFacts
<1>4. StartOf(turn) = Len(trace) - Off[st] BY <1>2, <1>3 DEF StartOf, Wait
<1>5. StartOf(turn) + Off[st] = Len(trace) BY <1>3, <1>4
<1>6. \A s \in 1 .. LastStep :
         StartOf(turn) + Off[s] = Len(trace) /\ ~ HoldsNow(Steps[s].expr) => fail'
  BY <1>0, <1>2, DueStep DEF Look
<1>7. StartOf(turn) \in 1 .. Old /\ Begins(StartOf(turn)) /\ Old = Len(trace) - 1 /\ cleared <= Old
  BY <1>0 DEF EntriesStarted, Followed, Old, IInv
<1>8. StartOf(turn) \in Edges /\ cleared < Len(trace) BY <1>3, <1>7 DEF Edges
<1>9. PICK t \in Edges : t = StartOf(turn) BY <1>8
<1>10. NoFalseAlarm'
  <2>1. CASE fail' => fail BY <2>1, AlarmStays DEF IInv
  <2>2. CASE ~ HoldsNow(Steps[st].expr)
    BY <2>2, <1>0, <1>3, <1>5, <1>7, <1>8, <1>9, SeenNow
  <2>3. CASE Joined(st) /\ ~ HoldsNow(Steps[st + 1].expr)
    <3>1. st + 1 \in 1 .. LastStep /\ Steps[st + 1].delay = 0 /\ st \in 1 .. LastStep - 1
      BY <2>3, <1>3 DEF Joined
    <3>2. Off[st + 1] = Off[st] + Steps[st + 1].delay
      BY <1>0, <3>1, OffType DEF Timed, LastStep, Steps
    <3>3. Off[st + 1] = Off[st] BY <3>1, <3>2, <1>3
    <3>. HIDE DEF st
    <3>4. t + Off[st + 1] = Len(trace) BY <3>3, <1>5, <1>9 DEF st
    <3>5. Begins(t) BY <1>7, <1>9
    <3>. QED BY <2>3, <3>1, <3>4, <3>5, <1>0, <1>8, SeenNow
  <2>. QED BY <2>1, <2>2, <2>3 DEF Look
<1>. QED BY <1>1, <1>5, <1>6, <1>10

LEMMA CheckAndMoveInductive ==
    ASSUME Supported, IInv, MonitorTypeOK', CheckAndMove
    PROVE  IInv'
<1> DEFINE st == pending[turn].step
           e == [step |-> st + 1, dly |-> Steps[st + 1].delay - 1]
<1>0. /\ MonitorTypeOK /\ EntriesStarted /\ phase = "advance" /\ turn <= Len(pending) /\ pending[turn].dly = 0
      /\ st < LastStep /\ ~ Joined(st) /\ Look(st)
      /\ pending' = [pending EXCEPT ![turn] = e] /\ turn' = turn + 1
      /\ UNCHANGED <<prop, phase, trace, cleared>>
  BY DEF CheckAndMove, IInv
<1>1. turn \in InFlight /\ Len(pending) \in Nat /\ turn \in Nat BY <1>0, OldFacts DEF InFlight, MonitorTypeOK
<1>2. pending \in Seq(Entry) /\ DOMAIN pending = InFlight /\ prop \in Props
  BY <1>0, LenProperties DEF MonitorTypeOK, Entry, InFlight
<1>3. /\ st \in 1 .. LastStep /\ Off[st] \in Nat /\ Len(trace) \in Nat /\ LastStep \in Nat
  BY <1>0, <1>1, EntryFacts, OldFacts
<1>4. st + 1 \in 1 .. LastStep /\ st \in 1 .. LastStep - 1 BY <1>0, <1>3
<1>5. Steps[st + 1].delay \in Nat /\ Steps[st + 1].delay > 0
  BY <1>0, <1>2, <1>4, PropType, SMTT(30) DEF Joined
<1>6. Off[st + 1] = Off[st] + Steps[st + 1].delay BY <1>2, <1>4, OffType DEF Timed, LastStep, Steps
<1>7. PICK j \in InFlight : j = turn BY <1>1
<1>8. Unseen(j) /\ ~ Unseen(j)' /\ \A k \in InFlight : k # j => (Unseen(k)' <=> Unseen(k))
  BY <1>0, <1>1, <1>7 DEF Unseen, InFlight
<1>9. pending'[j] = e /\ \A k \in InFlight : k # j => pending'[k] = pending[k]
  BY <1>0, <1>2, <1>7
<1>10. InFlight' = InFlight
  <2>1. DOMAIN pending' = InFlight BY <1>0, <1>2
  <2>2. DOMAIN pending' = 1 .. Len(pending') BY LenProperties DEF MonitorTypeOK
  <2>. QED BY <2>1, <2>2 DEF InFlight
<1>11. Off' = Off /\ Steps' = Steps /\ LastStep' = LastStep BY <1>0, Constants
<1>12. ASSUME NEW k \in InFlight PROVE StartOf(k)' = StartOf(k)
  <2>1. CASE k = j
    <3>1. StartOf(j) = Len(trace) - Off[st] BY <1>0, <1>3, <1>7, <1>8 DEF StartOf, Wait
    <3>2. StartOf(j)' = Len(trace) + ((Steps[st + 1].delay - 1) + 1) - Off[st + 1]
      BY <1>0, <1>8, <1>9, <1>11 DEF StartOf, Wait
    <3>. HIDE DEF st
    <3>. QED BY <2>1, <3>1, <3>2, <1>3, <1>5, <1>6
  <2>2. CASE k # j BY <2>2, <1>0, <1>8, <1>9, <1>11 DEF StartOf, Wait
  <2>. QED BY <2>1, <2>2
<1>13. ASSUME NEW k \in InFlight PROVE pending'[k].dly < Steps[pending'[k].step].delay
  <2>1. CASE k = j
    <3>. HIDE DEF st
    <3>. QED BY <2>1, <1>5, <1>9
  <2>2. CASE k # j BY <2>2, <1>0, <1>9 DEF EntriesStarted
  <2>. QED BY <2>1, <2>2
<1>14. /\ fail => fail'
       /\ NoFalseAlarm'
       /\ \A s \in 1 .. LastStep :
            StartOf(turn) + Off[s] = Len(trace) /\ ~ HoldsNow(Steps[s].expr) => fail'
  BY <1>0, <1>1, Looked
<1>15. Old' = Old BY <1>0 DEF Old
<1>16. StartsDiffer' BY <1>10, <1>12 DEF IInv, StartsDiffer
<1>. QED BY <1>0, <1>7, <1>8, <1>10, <1>12, <1>13, <1>14, <1>15, <1>16, Turn

LEMMA CheckAndRemoveInductive ==
    ASSUME Supported, IInv, MonitorTypeOK', CheckAndRemove
    PROVE  IInv'
<1> DEFINE st == pending[turn].step
           last == Len(pending)
           From(k) == IF k = turn THEN last ELSE k
<1>0. /\ MonitorTypeOK /\ EntriesStarted /\ phase = "advance" /\ turn <= Len(pending) /\ pending[turn].dly = 0
      /\ st = LastStep \/ Joined(st)
      /\ Look(st)
      /\ pending' = Remove(turn)
      /\ UNCHANGED <<prop, turn, phase, trace, cleared>>
  BY DEF CheckAndRemove, IInv
<1>1. turn \in InFlight /\ last \in Nat /\ turn \in Nat /\ turn > 0 /\ turn <= last
  BY <1>0, OldFacts DEF InFlight, MonitorTypeOK
<1>2. Len(pending') = last - 1
      /\ \A k \in 1 .. last - 1 : pending'[k] = pending[From(k)]
  BY <1>0, <1>1, RemoveType DEF InFlight
<1>3. InFlight' = 1 .. last - 1 BY <1>2 DEF InFlight
<1>4. Off' = Off /\ Steps' = Steps BY <1>0, Constants
<1>6. ASSUME NEW k \in InFlight'
      PROVE  /\ From(k) \in InFlight /\ From(k) # turn /\ (Unseen(From(k)) <=> Unseen(k)')
             /\ StartOf(k)' = StartOf(From(k))
             /\ pending'[k].dly < Steps[pending'[k].step].delay
  <2>1. k \in 1 .. last - 1 BY <1>3
  <2>2. From(k) \in InFlight /\ From(k) # turn BY <1>1, <2>1 DEF InFlight
  <2>3. Unseen(From(k)) <=> Unseen(k)' BY <1>0, <1>1, <2>1 DEF Unseen
  <2>4. pending'[k] = pending[From(k)] BY <1>2, <2>1
  <2>. HIDE DEF From
  <2>5. StartOf(k)' = StartOf(From(k)) BY <1>0, <1>4, <2>3, <2>4 DEF StartOf, Wait
  <2>6. pending'[k].dly < Steps[pending'[k].step].delay BY <1>0, <2>2, <2>4 DEF EntriesStarted
  <2>. QED BY <2>2, <2>3, <2>5, <2>6
<1>7. ASSUME NEW l \in InFlight, l # turn PROVE \E k \in InFlight' : From(k) = l
  <2>1. CASE l = last
    <3>1. turn \in 1 .. last - 1 BY <1>1, <1>7, <2>1
    <3>. QED BY <2>1, <3>1, <1>3
  <2>2. CASE l # last
    <3>1. l \in 1 .. last - 1 BY <1>1, <2>2 DEF InFlight
    <3>. QED BY <3>1, <1>3, <1>7
  <2>. QED BY <2>1, <2>2
<1>8. \A k, l \in InFlight' : From(k) = From(l) => k = l BY <1>1, <1>3
<1>9. /\ fail => fail'
      /\ NoFalseAlarm'
      /\ \A s \in 1 .. LastStep :
            StartOf(turn) + Off[s] = Len(trace) /\ ~ HoldsNow(Steps[s].expr) => fail'
      /\ StartOf(turn) + Off[st] = Len(trace)
  BY <1>0, <1>1, Looked
<1>10. StartOf(turn) + Span = Len(trace)
  <2>1. CASE st = LastStep BY <2>1, <1>9 DEF Span
  <2>2. CASE Joined(st)
    <3>0. prop \in Props BY <1>0 DEF MonitorTypeOK
    <3>1. st \in 1 .. LastStep /\ LastStep \in Nat /\ Off[st] \in Nat BY <1>0, <1>1, EntryFacts, OldFacts
    <3>2. st \in 1 .. LastStep - 1 /\ Steps[st + 1].delay = 0 /\ st + 1 \in 2 .. LastStep
      BY <2>2, <3>1 DEF Joined
    <3>3. Off[st + 1] = Off[st] + Steps[st + 1].delay
      BY <3>0, <3>2, OffType DEF Timed, LastStep, Steps
    <3>4. \A m \in 2 .. LastStep - 1 : Steps[m].delay > 0 BY <3>0 DEF Supported, LastStep, Steps
    <3>. HIDE DEF st
    <3>5. st + 1 = LastStep BY <3>1, <3>2, <3>4
    <3>6. Off[LastStep] = Off[st] BY <3>1, <3>2, <3>3, <3>5
    <3>. QED BY <3>6, <1>9 DEF Span
  <2>. QED BY <1>0, <2>1, <2>2
<1>. HIDE DEF From
<1>11. StartsDiffer'
  <2>1. ASSUME NEW k \in InFlight', NEW l \in InFlight', StartOf(k)' = StartOf(l)' PROVE k = l
    <3>1. StartOf(From(k)) = StartOf(From(l)) BY <2>1, <1>6
    <3>2. From(k) = From(l) BY <3>1, <1>6 DEF IInv, StartsDiffer
    <3>. QED BY <3>2, <1>8
  <2>. QED BY <2>1 DEF StartsDiffer
<1>12. ASSUME NEW l \in InFlight, StartOf(l) + Span > Len(trace)
       PROVE  \E k \in InFlight' : StartOf(k)' = StartOf(l)
  <2>1. l # turn
    <3>1. Len(trace) \in Nat BY <1>0, OldFacts
    <3>. QED BY <3>1, <1>10, <1>12
  <2>. QED BY <2>1, <1>6, <1>7
<1>13. ASSUME NEW l \in InFlight, NEW s \in 1 .. LastStep,
              Unseen(l), StartOf(l) + Off[s] = Len(trace), ~ HoldsNow(Steps[s].expr)
       PROVE  fail' \/ \E k \in InFlight' : Unseen(k)' /\ StartOf(k)' = StartOf(l)
  <2>1. CASE l = turn BY <2>1, <1>9, <1>13
  <2>2. CASE l # turn BY <2>2, <1>6, <1>7, <1>13
  <2>. QED BY <2>1, <2>2
<1>14. Old' = Old BY <1>0 DEF Old
<1>. QED BY <1>0, <1>6, <1>9, <1>11, <1>12, <1>13, <1>14, Turn

\* What every new attempt starts from.
LEMMA AtBegin ==
    ASSUME Supported, IInv, Begin
    PROVE  /\ phase = "begin" /\ phase' = "idle" /\ UNCHANGED <<prop, turn, trace, cleared>>
           /\ MonitorTypeOK /\ prop \in Props /\ EntriesStarted /\ StartsDiffer
           /\ Len(trace) \in Nat /\ Len(trace) \in Edges /\ cleared < Len(trace)
           /\ LastStep \in Nat \ {0} /\ Span \in Nat
           /\ \A s \in 1 .. LastStep : Off[s] \in Nat /\ Steps[s].delay \in Nat
           /\ Off[1] = Steps[1].delay
           /\ 1 \in 1 .. LastStep
           /\ Begins(Len(trace)) => Triggers
           /\ Triggers /\ (prop.trigger = NoTrigger /\ LastStep > 1 => HoldsNow(Steps[1].expr))
                => Begins(Len(trace))
<1>1. MonitorTypeOK /\ prop \in Props BY DEF IInv, MonitorTypeOK
<1>2. Len(trace) \in Nat /\ cleared \in Nat /\ LastStep \in Nat \ {0} /\ Span \in Nat
      /\ \A s \in 1 .. LastStep : Off[s] \in Nat
  BY <1>1, OldFacts
<1>3. \A s \in 1 .. LastStep : Steps[s].delay \in Nat BY <1>1, PropType
<1>4. Off[1] = Steps[1].delay BY <1>1, OffType DEF Timed, Steps
<1>5. cleared <= Len(trace) - 1 BY DEF Begin, IInv, Old
<1>6. Len(trace) \in Edges /\ cleared < Len(trace) BY <1>2, <1>5 DEF Edges
<1>. QED BY <1>1, <1>2, <1>3, <1>4, <1>6 DEF Begin, IInv, Begins, Triggers, HoldsNow

\* An attempt that is not enqueued.
LEMMA NoEntry ==
    ASSUME Supported, IInv, MonitorTypeOK', Begin, UNCHANGED pending, fail => fail', NoFalseAlarm',
           Followed(Len(trace)) => Span = 0,
           \A s \in 1 .. LastStep :
               Followed(Len(trace)) /\ Off[s] = 0 /\ ~ HoldsNow(Steps[s].expr) => fail',
           Begins(Len(trace)) /\ ~ Followed(Len(trace)) => fail'
    PROVE  IInv'
<1>1. phase = "begin" /\ phase' = "idle" /\ UNCHANGED <<prop, trace, cleared>> BY AtBegin
<1>2. InFlight' = InFlight BY DEF InFlight
<1>. QED BY <1>1, <1>2, Begun

\* An attempt that is enqueued with its step st, the first that is not looked at at once.
LEMMA NewEntry ==
    ASSUME Supported, IInv, MonitorTypeOK', Begin, UNCHANGED fail,
           NEW st \in 1 .. LastStep, Enqueue(st), Off[st] = Steps[st].delay, Steps[st].delay > 0,
           Followed(Len(trace)),
           \A s \in 1 .. LastStep : Off[s] = 0 => HoldsNow(Steps[s].expr)
    PROVE  IInv'
<1> DEFINE n == Len(pending) + 1
           e == [step |-> st, dly |-> Steps[st].delay - 1]
<1>0. /\ phase = "begin" /\ phase' = "idle" /\ UNCHANGED <<prop, trace, cleared>>
      /\ MonitorTypeOK /\ prop \in Props /\ Len(trace) \in Nat
      /\ \A s \in 1 .. LastStep : Steps[s].delay \in Nat
  BY AtBegin
<1>1. Len(pending) < Places BY <1>0, AtBegin, Room
<1>2. pending' = Append(pending, e) BY <1>1 DEF Enqueue
<1>3. pending \in Seq(Entry) /\ Len(pending) \in Nat BY <1>0, LenProperties DEF MonitorTypeOK, Entry
<1>4. e \in Entry BY <1>0 DEF Entry
<1>5. Len(pending') = n /\ pending'[n] = e /\ \A k \in InFlight : pending'[k] = pending[k]
  <2>. HIDE DEF e
  <2>. QED BY <1>2, <1>3, <1>4, AppendProperties DEF InFlight
<1>6. InFlight' = InFlight \cup {n} BY <1>3, <1>5 DEF InFlight
<1>7. Off' = Off /\ Steps' = Steps BY <1>0, Constants
<1>8. PICK k \in InFlight' : k = n BY <1>6
<1>9. StartOf(k)' = Len(trace) /\ pending'[k].dly < Steps[pending'[k].step].delay
  <2>1. StartOf(k)' = Len(trace) + ((Steps[st].delay - 1) + 1) - Off[st]
    BY <1>0, <1>5, <1>7, <1>8 DEF StartOf, Wait, Unseen
  <2>. QED BY <2>1, <1>0, <1>5, <1>8
<1>10. NoFalseAlarm' BY <1>0, AlarmStays DEF IInv
<1>11. \A l \in InFlight' : l \in InFlight \/ l = k BY <1>6, <1>8
<1>. QED BY <1>0, <1>5, <1>6, <1>8, <1>9, <1>10, <1>11, Begun

LEMMA NotTriggeredInductive ==
    ASSUME Supported, IInv, MonitorTypeOK', NotTriggered
    PROVE  IInv'
<1>1. Begin /\ UNCHANGED <<pending, fail>> /\ ~ Triggers BY DEF NotTriggered
<1>2. UNCHANGED <<prop, trace, cleared>> /\ ~ Begins(Len(trace)) BY <1>1, AtBegin
<1>3. NoFalseAlarm' BY <1>1, <1>2, AlarmStays DEF IInv
<1>. QED BY <1>1, <1>2, <1>3, NoEntry DEF Followed

LEMMA BeginLaterInductive ==
    ASSUME Supported, IInv, MonitorTypeOK', BeginLater
    PROVE  IInv'
<1>1. Begin /\ Triggers /\ Steps[1].delay > 0 /\ Enqueue(1) /\ UNCHANGED fail BY DEF BeginLater
<1>2. prop \in Props /\ Off[1] = Steps[1].delay /\ 1 \in 1 .. LastStep
      /\ LastStep \in Nat \ {0} /\ \A s \in 1 .. LastStep : Off[s] \in Nat /\ Steps[s].delay \in Nat
  BY <1>1, AtBegin
<1>3. prop.trigger # NoTrigger BY <1>1, <1>2 DEF Supported, Steps
<1>4. Begins(Len(trace)) BY <1>1, <1>3, AtBegin
<1>5. Followed(Len(trace)) BY <1>1, <1>2, <1>4 DEF Followed
<1>6. ASSUME NEW s \in 1 .. LastStep PROVE Off[s] # 0
  <2>1. CASE s = 1 BY <2>1, <1>1, <1>2
  <2>2. CASE s # 1
    <3>1. Off[1] + Steps[s].delay <= Off[s] BY <2>2, <1>2, OffsetsRise
    <3>. QED BY <3>1, <1>1, <1>2
  <2>. QED BY <2>1, <2>2
<1>. QED BY <1>1, <1>2, <1>5, <1>6, NewEntry

LEMMA BeginSingleInductive ==
    ASSUME Supported, IInv, MonitorTypeOK', BeginSingle
    PROVE  IInv'
<1>1. Begin /\ Triggers /\ Steps[1].delay = 0 /\ LastStep = 1
      /\ fail' = (fail \/ ~ HoldsNow(Steps[1].expr)) /\ UNCHANGED pending
  BY DEF BeginSingle
<1>2. UNCHANGED <<prop, trace, cleared>> /\ MonitorTypeOK /\ Len(trace) \in Edges /\ cleared < Len(trace)
      /\ Off[1] = 0 /\ Begins(Len(trace)) /\ Len(trace) \in Nat /\ 1 \in 1 .. LastStep
  BY <1>1, AtBegin
<1>3. Span = 0 /\ 1 .. LastStep = {1} BY <1>1, <1>2 DEF Span
<1>4. NoFalseAlarm'
  <2>1. CASE HoldsNow(Steps[1].expr) BY <2>1, <1>1, <1>2, AlarmStays DEF IInv
  <2>2. CASE ~ HoldsNow(Steps[1].expr)
    <3>1. PICK t \in Edges : t = Len(trace) BY <1>2
    <3>2. t + Off[1] = Len(trace) BY <3>1, <1>2
    <3>. QED BY <2>2, <3>1, <3>2, <1>2, SeenNow
  <2>. QED BY <2>1, <2>2
<1>5. Followed(Len(trace)) BY <1>1, <1>2 DEF Followed
<1>. QED BY <1>1, <1>3, <1>4, <1>5, NoEntry

LEMMA BeginFailsInductive ==
    ASSUME Supported, IInv, MonitorTypeOK', BeginFails
    PROVE  IInv'
<1>1. Begin /\ Triggers /\ Steps[1].delay = 0 /\ LastStep > 1 /\ ~ HoldsNow(Steps[1].expr)
      /\ fail' = (fail \/ prop.trigger # NoTrigger) /\ UNCHANGED pending
  BY DEF BeginFails
<1>2. UNCHANGED <<prop, trace, cleared>> /\ MonitorTypeOK /\ Len(trace) \in Edges /\ cleared < Len(trace)
      /\ Off[1] = 0 /\ Len(trace) \in Nat /\ 1 \in 1 .. LastStep
  BY <1>1, AtBegin
<1>3. ~ Followed(Len(trace)) BY <1>1, <1>2 DEF Followed, HoldsNow
<1>4. Begins(Len(trace)) <=> prop.trigger # NoTrigger BY <1>1, AtBegin DEF Begins, HoldsNow
<1>5. NoFalseAlarm'
  <2>1. CASE prop.trigger = NoTrigger BY <2>1, <1>1, <1>2, AlarmStays DEF IInv
  <2>2. CASE prop.trigger # NoTrigger
    <3>1. PICK t \in Edges : t = Len(trace) BY <1>2
    <3>2. t + Off[1] = Len(trace) BY <3>1, <1>2
    <3>3. Begins(t) BY <2>2, <3>1, <1>4
    <3>. QED BY <3>2, <3>3, <1>1, <1>2, SeenNow
  <2>. QED BY <2>1, <2>2
<1>. QED BY <1>1, <1>3, <1>4, <1>5, NoEntry

LEMMA BeginFollowedInductive ==
    ASSUME Supported, IInv, MonitorTypeOK', BeginFollowed
    PROVE  IInv'
<1>1. Begin /\ Triggers /\ Steps[1].delay = 0 /\ LastStep > 1 /\ HoldsNow(Steps[1].expr)
  BY DEF BeginFollowed
<1>2. UNCHANGED <<prop, trace, cleared>> /\ MonitorTypeOK /\ Len(trace) \in Edges /\ cleared < Len(trace)
      /\ Off[1] = 0 /\ Begins(Len(trace)) /\ Len(trace) \in Nat /\ LastStep \in Nat \ {0}
      /\ prop \in Props /\ 1 \in 1 .. LastStep
      /\ \A s \in 1 .. LastStep : Off[s] \in Nat /\ Steps[s].delay \in Nat
  BY <1>1, AtBegin
<1>3. Followed(Len(trace)) BY <1>1, <1>2 DEF Followed, HoldsNow
<1>4. 2 \in 1 .. LastStep /\ 1 \in 1 .. LastStep - 1 BY <1>1, <1>2
<1>5. Off[2] = Steps[2].delay
  <2>1. Off[1 + 1] = Off[1] + Steps[1 + 1].delay
    BY <1>2, <1>4, OffType DEF Timed, LastStep, Steps
  <2>. QED BY <2>1, <1>2, <1>4
<1>6. CASE Joined(1)
  <2>1. fail' = (fail \/ (Len(pending) < Places /\ ~ HoldsNow(Steps[2].expr))) /\ UNCHANGED pending
    BY <1>6 DEF BeginFollowed
  <2>2. Steps[2].delay = 0 BY <1>6 DEF Joined
  <2>3. LastStep = 2
    <3>1. \A m \in 2 .. LastStep - 1 : Steps[m].delay > 0 BY <1>2 DEF Supported, LastStep, Steps
    <3>. QED BY <3>1, <2>2, <1>1, <1>2
  <2>4. Span = 0 /\ 1 .. LastStep = {1, 2} BY <1>5, <2>2, <2>3 DEF Span
  <2>5. Len(pending) < Places BY <1>1, AtBegin, Room
  <2>6. NoFalseAlarm'
    <3>1. CASE HoldsNow(Steps[2].expr) BY <3>1, <1>2, <2>1, AlarmStays DEF IInv
    <3>2. CASE ~ HoldsNow(Steps[2].expr)
      <4>1. PICK t \in Edges : t = Len(trace) BY <1>2
      <4>2. t + Off[2] = Len(trace) BY <4>1, <1>2, <1>5, <2>2
      <4>. QED BY <4>1, <4>2, <3>2, <1>2, <1>4, SeenNow
    <3>. QED BY <3>1, <3>2
  <2>. QED BY <1>1, <1>3, <2>1, <2>4, <2>5, <2>6, NoEntry
<1>7. CASE ~ Joined(1)
  <2>1. Enqueue(2) /\ UNCHANGED fail BY <1>7 DEF BeginFollowed
  <2>2. Steps[2].delay > 0 BY <1>1, <1>2, <1>4, <1>7 DEF Joined
  <2>3. ASSUME NEW s \in 1 .. LastStep, Off[s] = 0 PROVE HoldsNow(Steps[s].expr)
    <3>1. CASE s = 1 BY <3>1, <1>1
    <3>2. CASE s = 2 BY <3>2, <2>2, <2>3, <1>5
    <3>3. CASE s > 2
      <4>1. Off[2] + Steps[s].delay <= Off[s] BY <3>3, <1>2, <1>4, OffsetsRise
      <4>2. Off[2] > 0 BY <2>2, <1>5
      <4>3. Off[2] \in Nat /\ Steps[s].delay \in Nat /\ Off[s] \in Nat BY <1>2, <1>4
      <4>4. Off[s] > 0 BY <4>1, <4>2, <4>3
      <4>. QED BY <4>4, <2>3
    <3>. QED BY <3>1, <3>2, <3>3, <1>2
  <2>. QED BY <1>1, <1>3, <1>4, <1>5, <2>1, <2>2, <2>3, NewEntry
<1>. QED BY <1>6, <1>7

LEMMA AssertClearInductive ==
    ASSUME Supported, IInv, MonitorTypeOK', AssertClear
    PROVE  IInv'
<1>0. MonitorTypeOK /\ phase = "idle" /\ fail' = FALSE /\ cleared' = Len(trace)
      /\ UNCHANGED <<prop, pending, turn, phase, trace>>
  BY DEF AssertClear, IInv
<1>1. Off' = Off /\ Steps' = Steps /\ LastStep' = LastStep /\ Span' = Span /\ InFlight' = InFlight
  BY <1>0, Constants DEF InFlight
<1>2. \A t : (Begins(t)' <=> Begins(t)) /\ (Followed(t)' <=> Followed(t)) BY <1>0, Past
<1>3. Old = Len(trace) /\ Old' = Len(trace) /\ Len(trace) \in Nat BY <1>0, OldFacts DEF Old
<1>4. \A k : StartOf(k)' = StartOf(k) BY <1>0, <1>1 DEF StartOf, Wait, Unseen
<1>5. cleared' <= Old' BY <1>0, <1>3
<1>6. EntriesStarted'
  <2>1. ASSUME NEW k \in InFlight PROVE Followed(StartOf(k))'
    <3>1. PICK t : t = StartOf(k) OBVIOUS
    <3>2. Followed(t)' /\ t = StartOf(k)' BY <3>1, <1>2, <1>4 DEF IInv, EntriesStarted
    <3>. QED BY <3>2 DEF Followed, Begins
  <2>. QED BY <1>0, <1>1, <1>3, <1>4, <2>1 DEF IInv, EntriesStarted
<1>7. StartsDiffer' BY <1>1, <1>4 DEF IInv, StartsDiffer
<1>8. StartedHaveEntries' BY <1>0, <1>1, <1>2, <1>3, <1>4 DEF IInv, StartedHaveEntries
<1>9. MissedSeen'
  <2>1. \A s \in 1 .. LastStep : Off[s] \in Nat BY <1>0, OldFacts
  <2>. QED BY <1>0, <1>1, <1>3, <2>1 DEF MissedSeen
<1>10. FirstSeen' BY <1>0, <1>3 DEF FirstSeen
<1>11. NoFalseAlarm' BY <1>0 DEF NoFalseAlarm
<1>. QED BY <1>5, <1>6, <1>7, <1>8, <1>9, <1>10, <1>11 DEF IInv

LEMMA StutterInductive ==
    ASSUME IInv, UNCHANGED monitorVars
    PROVE  IInv'
<1>1. UNCHANGED <<prop, pending, turn, phase, fail, trace, cleared>> BY DEF monitorVars
<1>2. Off' = Off /\ Steps' = Steps /\ LastStep' = LastStep /\ Span' = Span /\ InFlight' = InFlight /\ Old' = Old
  BY <1>1, Constants DEF InFlight, Old
<1>3. \A t : (Begins(t)' <=> Begins(t)) /\ (Followed(t)' <=> Followed(t)) BY <1>1, Past
<1>4. \A k : StartOf(k)' = StartOf(k) /\ (Unseen(k)' <=> Unseen(k)) BY <1>1, <1>2 DEF StartOf, Wait, Unseen
<1>5. MonitorTypeOK' BY <1>1 DEF IInv, MonitorTypeOK, LastStep, Steps
<1>6. EntriesStarted'
  <2>1. ASSUME NEW k \in InFlight PROVE Followed(StartOf(k))'
    <3>1. PICK t : t = StartOf(k) OBVIOUS
    <3>2. Followed(t)' /\ t = StartOf(k)' BY <3>1, <1>3, <1>4 DEF IInv, EntriesStarted
    <3>. QED BY <3>2 DEF Followed, Begins
  <2>. QED BY <1>1, <1>2, <1>4, <2>1 DEF IInv, EntriesStarted
<1>7. StartsDiffer' BY <1>2, <1>4 DEF IInv, StartsDiffer
<1>8. StartedHaveEntries' BY <1>1, <1>2, <1>3, <1>4 DEF IInv, StartedHaveEntries
<1>9. MissedSeen' BY <1>1, <1>2, <1>3, <1>4 DEF IInv, MissedSeen
<1>10. FirstSeen' BY <1>1, <1>2, <1>3 DEF IInv, FirstSeen
<1>11. NoFalseAlarm' BY <1>1, AlarmStays DEF IInv
<1>. QED BY <1>1, <1>2, <1>5, <1>6, <1>7, <1>8, <1>9, <1>10, <1>11 DEF IInv

LEMMA NextInductive == Supported /\ IInv /\ [MonitorNext]_monitorVars => IInv'
<1>. SUFFICES ASSUME Supported, IInv, [MonitorNext]_monitorVars PROVE IInv'
  OBVIOUS
<1>1. MonitorTypeOK' BY NextType DEF IInv
<1>. QED BY <1>1, EdgeInductive, WaitOnInductive, CheckAndMoveInductive, CheckAndRemoveInductive,
            EndLoopInductive, NotTriggeredInductive, BeginLaterInductive, BeginSingleInductive,
            BeginFailsInductive, BeginFollowedInductive, AssertClearInductive, StutterInductive
         DEF MonitorNext

LEMMA Consequences == Supported /\ IInv => NoFailureUnseen /\ NoFalseAlarm
<1>. SUFFICES ASSUME Supported, IInv PROVE NoFailureUnseen
  BY DEF IInv
<1>. SUFFICES ASSUME phase = "idle", NEW t \in Edges, NEW o \in prop.due,
                     FirstMissed(t, o), cleared < t + o.after
              PROVE  fail
  BY DEF NoFailureUnseen
<1>0. MonitorTypeOK /\ prop \in Props BY DEF IInv, MonitorTypeOK
<1>1. Old = Len(trace) /\ t \in 1 .. Old /\ Len(trace) \in Nat BY <1>0, OldFacts DEF Old, Edges
<1>2. Missed(t, o) /\ Begins(t) /\ t + o.after \in 1 .. Len(trace) /\ ~ trace[t + o.after][o.expr]
  BY DEF FirstMissed, Missed, Edges
<1>3. PICK s \in 1 .. LastStep : o.expr = Steps[s].expr /\ o.after = Off[s]
  BY <1>0, OffType DEF Timed, LastStep, Steps
<1>4. CASE Followed(t)
  <2>1. t + Off[s] <= Len(trace) /\ cleared < t + Off[s] /\ ~ trace[t + Off[s]][Steps[s].expr]
    BY <1>1, <1>2, <1>3
  <2>2. \A k : ~ Unseen(k) BY DEF Unseen
  <2>. QED BY <1>1, <1>4, <2>1, <2>2 DEF IInv, MissedSeen
<1>5. CASE ~ Followed(t)
  <2>1. Off[1] = 0 /\ ~ trace[t][Steps[1].expr] BY <1>2, <1>5 DEF Followed
  <2>2. 1 \in 1 .. LastStep BY <1>0, PropType
  <2>3. PICK p \in prop.due : p.expr = Steps[1].expr /\ p.after = Off[1]
    <3>1. [expr |-> Steps[1].expr, after |-> Off[1]] \in prop.due
      BY <1>0, <2>2, OffType DEF Timed, LastStep, Steps
    <3>. QED BY <3>1
  <2>4. t + p.after = t BY <2>1, <2>3, <1>1
  <2>5. Missed(t, p) BY <1>2, <2>1, <2>3, <2>4 DEF Missed
  <2>6. o.after <= 0 /\ o.after \in Nat
    <3>1. Off[s] \in Nat BY <1>0, OldFacts
    <3>. QED BY <3>1, <2>1, <2>3, <2>5, <1>3 DEF FirstMissed
  <2>7. cleared < t BY <2>6, <1>1
  <2>. QED BY <2>7, <1>1, <1>2, <1>5 DEF IInv, FirstSeen
<1>. QED BY <1>4, <1>5

\* NoFailureUnseen: for every family of supported properties, whatever their steps and
\* spans, the flag is up between two edges if an attempt was not met since it was cleared.
THEOREM FailuresAreSeen ==
    ASSUME Supported
    PROVE  MonitorSpec => []NoFailureUnseen
<1>1. MonitorInit => IInv BY InitInductive
<1>2. IInv /\ [MonitorNext]_monitorVars => IInv' BY NextInductive
<1>3. IInv => NoFailureUnseen BY Consequences
<1>. QED BY <1>1, <1>2, <1>3, PTL DEF MonitorSpec

\* NoFalseAlarm: and the flag is up only if there was one.
THEOREM AlarmsAreFailures ==
    ASSUME Supported
    PROVE  MonitorSpec => []NoFalseAlarm
<1>1. MonitorInit => IInv BY InitInductive
<1>2. IInv /\ [MonitorNext]_monitorVars => IInv' BY NextInductive
<1>3. IInv => NoFalseAlarm BY Consequences
<1>. QED BY <1>1, <1>2, <1>3, PTL DEF MonitorSpec
=============================================================================
