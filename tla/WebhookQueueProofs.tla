------------------------- MODULE WebhookQueueProofs -------------------------
(***************************************************************************)
(* Theorems about WebhookQueue for any embeds, payloads, requests, sizes   *)
(* and troubles.                                                           *)
(***************************************************************************)
EXTENDS WebhookQueue, SequenceTheorems, TLAPS

-----------------------------------------------------------------------------
(* What the consumer holds.                                                *)

\* The list, the files and the place in the entry in hand.
Shape ==
  /\ payload \in Seq(Payloads) /\ Len(payload) <= MaxRequests
  /\ told \in [Requests -> {"queued", "error"}]
  /\ queue \in Seq(Requests)
  /\ files \subseteq Requests
  /\ hand \in Requests \cup {None} /\ at \in Stages
  /\ at # "next" => Slot \in Slots
  /\ fate \in [Requests -> Seq(Fates)]
  /\ \A d \in Requests : Len(fate[d]) <= Len(payload[d])
  /\ lost \subseteq Requests
  /\ troubles \in 0..MaxTroubles

\* Requests are numbered, and hold embeds.
LEMMA RequestsAre ==
  ASSUME Shape
  PROVE  /\ Requests = 1..Len(payload) /\ Len(payload) \in Nat
         /\ None \notin Requests
         /\ \A d \in Requests : /\ payload[d] \in Seq(Embeds) /\ Len(payload[d]) \in Nat
                                /\ DOMAIN payload[d] = 1..Len(payload[d])
                                /\ fate[d] \in Seq(Fates) /\ Len(fate[d]) \in Nat
                                /\ DOMAIN fate[d] = 1..Len(fate[d])
                                /\ Len(fate[d]) <= Len(payload[d])
BY QueueAssumption DEF Shape, Requests

LEMMA SlotIs ==
  ASSUME NEW x
  PROVE  x \in Slots <=> \E d \in Requests : \E i \in DOMAIN payload[d] : x = <<d, i>>
BY DEF Slots

\* The slots are pairs of a request and a place in it.
LEMMA SlotParts ==
  ASSUME Shape, NEW x \in Slots
  PROVE  /\ x[1] \in Requests /\ x[2] \in 1..Len(payload[x[1]]) /\ x = <<x[1], x[2]>>
         /\ x[2] \in Nat
         /\ Embed(x) \in Embeds
<1>0. PICK d \in Requests : \E i \in DOMAIN payload[d] : x = <<d, i>>
  BY SlotIs
<1>1. PICK i \in DOMAIN payload[d] : x = <<d, i>>
  BY <1>0
<1>2. x[1] = d /\ x[2] = i
  BY <1>1
<1>3. payload[d] \in Seq(Embeds) /\ i \in 1..Len(payload[d]) /\ i \in Nat
  BY <1>1, RequestsAre
<1> QED
  BY <1>1, <1>2, <1>3 DEF Embed

\* The slot whose turn it is has not been handled.
LEMMA SlotInHand ==
  ASSUME Shape
  PROVE  /\ Slot \in Slots => hand # None
         /\ hand # None => /\ hand \in Requests
                           /\ Slot = <<hand, Len(fate[hand]) + 1>>
                           /\ Slot \in Slots <=> Len(fate[hand]) < Len(payload[hand])
                           /\ ~Handled(Slot)
<1>1. Slot \in Slots => hand # None
  <2> SUFFICES ASSUME Slot \in Slots, hand = None PROVE FALSE
    OBVIOUS
  <2>1. Slot = <<None, 1>>
    BY DEF Slot
  <2> QED
    BY <2>1, SlotParts, RequestsAre
<1>2. ASSUME hand # None
      PROVE  /\ hand \in Requests
             /\ Slot = <<hand, Len(fate[hand]) + 1>>
             /\ Slot \in Slots <=> Len(fate[hand]) < Len(payload[hand])
             /\ ~Handled(Slot)
  <2>1. hand \in Requests /\ Slot = <<hand, Len(fate[hand]) + 1>>
    BY <1>2 DEF Shape, Slot
  <2>2. Slot \in Slots <=> Len(fate[hand]) + 1 \in DOMAIN payload[hand]
    BY <2>1, SlotIs
  <2> QED
    BY <2>1, <2>2, RequestsAre DEF Handled
<1> QED
  BY <1>1, <1>2

\* The consumer handles an embed of the entry in hand: it is done with it, or
\* goes on to its next stage.
LEMMA ProcessorShape ==
  ASSUME Shape, Processors
  PROVE  /\ Slot \in Slots /\ hand \in Requests
         /\ UNCHANGED <<frontVars, files, hand, troubleVars>>
         /\ \/ \E outcome \in Fates \ {"cut", "kept"} : NextEmbed(outcome)
            \/ fate' = fate /\ at' \in Stages \ {"next"}
<1>1. Slot \in Slots
  <2>1. CASE at = "next"
    BY <2>1 DEF Processors, Skip, Ignore, Refuse, EnterFlushed, EnterPb, PbNotBeaten,
       EnterOnce, OnceOnFile, EnterCa, EnterExperience, Credit, CreditDrop, Announce,
       StayQuiet, Commit, InItem
  <2>2. CASE at # "next"
    BY <2>2 DEF Shape
  <2> QED
    BY <2>1, <2>2
<1>2. CASE Skip \/ Ignore \/ Refuse \/ PbNotBeaten \/ StayQuiet \/ Commit
  BY <1>1, <1>2, SlotInHand DEF Skip, Ignore, Refuse, PbNotBeaten, StayQuiet, Commit, NextEmbed,
     Fates
<1>3. CASE EnterFlushed \/ EnterPb \/ EnterOnce \/ EnterCa \/ EnterExperience
  BY <1>1, <1>3, SlotInHand DEF EnterFlushed, EnterPb, EnterOnce, EnterCa, EnterExperience,
     Enter, Stages
<1>4. CASE OnceOnFile
  BY <1>1, <1>4, SlotInHand DEF OnceOnFile, Enter, Stages, Fates, NextEmbed
<1>5. CASE Credit
  BY <1>1, <1>5, SlotInHand DEF Credit, Stages, Fates, NextEmbed
<1>6. CASE Announce
  <2>1. at' = "announced" /\ UNCHANGED <<frontVars, files, hand, fate, troubleVars>>
    BY <1>6 DEF Announce
  <2> QED
    BY <1>1, <2>1, SlotInHand DEF Stages
<1>7. CASE CreditDrop
  BY <1>1, <1>7, SlotInHand DEF CreditDrop, Stages
<1> QED
  BY <1>2, <1>3, <1>4, <1>5, <1>6, <1>7 DEF Processors

\* One more embed of the entry in hand is handled.
LEMMA FateGrows ==
  ASSUME Shape, Slot \in Slots, NEW outcome \in Fates,
         fate' = [fate EXCEPT ![hand] = Append(@, outcome)]
  PROVE  /\ fate' \in [Requests -> Seq(Fates)]
         /\ \A d \in Requests : Len(fate'[d]) <= Len(payload[d])
         /\ \A d \in Requests \ {hand} : fate'[d] = fate[d]
         /\ Len(fate'[hand]) = Len(fate[hand]) + 1
         /\ fate'[hand][Len(fate[hand]) + 1] = outcome
         /\ \A i \in 1..Len(fate[hand]) : fate'[hand][i] = fate[hand][i]
<1>1. hand \in Requests /\ Len(fate[hand]) < Len(payload[hand])
  BY SlotInHand
<1>2. fate \in [Requests -> Seq(Fates)]
  BY DEF Shape
<1>3. fate'[hand] = Append(fate[hand], outcome) /\ \A d \in Requests \ {hand} : fate'[d] = fate[d]
  BY <1>1, <1>2
<1>4. /\ Append(fate[hand], outcome) \in Seq(Fates)
      /\ Len(Append(fate[hand], outcome)) = Len(fate[hand]) + 1
      /\ Append(fate[hand], outcome)[Len(fate[hand]) + 1] = outcome
      /\ \A i \in 1..Len(fate[hand]) : Append(fate[hand], outcome)[i] = fate[hand][i]
  BY <1>1, RequestsAre, AppendProperties
<1>5. fate' \in [Requests -> Seq(Fates)]
  BY <1>2, <1>4
<1>6. \A d \in Requests : Len(fate'[d]) <= Len(payload[d])
  BY <1>1, <1>3, <1>4, RequestsAre
<1> QED
  BY <1>3, <1>4, <1>5, <1>6

\* A request that arrives leaves those before it as they were.
LEMMA ArrivesShape ==
  ASSUME Shape, NEW p \in Payloads, NEW answer \in {"queued", "error"}, Arrives(p, answer)
  PROVE  /\ payload' \in Seq(Payloads) /\ Len(payload') <= MaxRequests
         /\ Requests' = Requests \cup {Len(payload) + 1} /\ Len(payload) + 1 \notin Requests
         /\ told' \in [Requests' -> {"queued", "error"}]
         /\ fate' \in [Requests' -> Seq(Fates)]
         /\ \A d \in Requests : /\ payload'[d] = payload[d] /\ told'[d] = told[d]
                                /\ fate'[d] = fate[d]
         /\ payload'[Len(payload) + 1] = p /\ told'[Len(payload) + 1] = answer
         /\ fate'[Len(payload) + 1] = <<>>
<1> DEFINE n == Len(payload)
<1>1. payload \in Seq(Payloads) /\ n \in Nat /\ Requests = 1..n /\ n < MaxRequests
  BY RequestsAre DEF Shape, Arrives
<1>2. told \in Seq({"queued", "error"}) /\ Len(told) = n
  <2> DEFINE Answers == {"queued", "error"}
  <2>1. told \in [1..n -> Answers]
    BY <1>1 DEF Shape
  <2> HIDE DEF Answers, n
  <2>2. told \in Seq(Answers) /\ Len(told) = n
    BY <1>1, <2>1
  <2> QED
    BY <2>2 DEF Answers
<1>3. fate \in Seq(Seq(Fates)) /\ Len(fate) = n
  BY <1>1 DEF Shape
<1>4. /\ payload' = Append(payload, p) /\ told' = Append(told, answer)
      /\ fate' = Append(fate, <<>>) /\ <<>> \in Seq(Fates)
  BY DEF Arrives
<1>5. /\ payload' \in Seq(Payloads) /\ Len(payload') = n + 1 /\ payload'[n + 1] = p
      /\ \A d \in 1..n : payload'[d] = payload[d]
  BY <1>1, <1>4, AppendProperties
<1>6. /\ told' \in Seq({"queued", "error"}) /\ Len(told') = n + 1 /\ told'[n + 1] = answer
      /\ \A d \in 1..n : told'[d] = told[d]
  BY <1>2, <1>4, AppendProperties
<1>7. /\ fate' \in Seq(Seq(Fates)) /\ Len(fate') = n + 1 /\ fate'[n + 1] = <<>>
      /\ \A d \in 1..n : fate'[d] = fate[d]
  BY <1>3, <1>4, AppendProperties
<1>8. Requests' = 1..(n + 1)
  BY <1>1, <1>5 DEF Requests
<1>9. n + 1 <= MaxRequests /\ n + 1 \notin 1..n /\ 1..(n + 1) = 1..n \cup {n + 1}
  BY <1>1, QueueAssumption
<1>10. /\ told' \in [1..(n + 1) -> {"queued", "error"}]
       /\ fate' \in [1..(n + 1) -> Seq(Fates)]
  BY <1>1, <1>6, <1>7
<1> HIDE DEF n
<1>11. QED
  BY <1>1, <1>5, <1>6, <1>7, <1>8, <1>9, <1>10 DEF n

LEMMA ArrivalIs ==
  ASSUME NEW p \in Payloads, Accept(p) \/ PushFails(p)
  PROVE  /\ \E answer \in {"queued", "error"} : Arrives(p, answer)
         /\ UNCHANGED <<hand, at, openVars, memoryVars, tableVars, credits, lost>>
BY DEF Accept, PushFails, Arrives

-----------------------------------------------------------------------------
(* What a step does to the embeds and to what became of them.              *)

\* The embed in hand ends in some way; or nothing ends.
Ends(outcome) ==
  /\ Slot \in Slots /\ payload' = payload /\ told' = told
  /\ fate' = [fate EXCEPT ![hand] = Append(@, outcome)]

LEMMA StepKinds ==
  ASSUME Shape, [Next]_vars
  PROVE  \/ \E p \in Payloads : \E answer \in {"queued", "error"} : Arrives(p, answer)
         \/ \E outcome \in Fates : Ends(outcome)
         \/ UNCHANGED <<payload, told, fate>>
<1>1. CASE \E p \in Payloads : Accept(p) \/ PushFails(p)
  BY <1>1, ArrivalIs
<1>2. CASE Processors
  BY <1>2, ProcessorShape DEF Ends, NextEmbed, frontVars
<1>3. CASE Take \/ Release \/ \E x \in Slots : Hour(x)
  BY <1>3 DEF Take, Release, Hour, frontVars
<1>4. CASE Fault \/ Crash
  BY <1>4 DEF Fault, Crash, CutShort, Ends, Fates, frontVars
<1>5. CASE FaultKept
  BY <1>5 DEF FaultKept, Ends, Fates, frontVars
<1>6. CASE UNCHANGED vars
  BY <1>6 DEF vars, frontVars
<1> QED
  BY <1>1, <1>2, <1>3, <1>4, <1>5, <1>6 DEF Next, Consumer

\* Embeds stay what they are, and how they ended stays.
LEMMA SlotsKept ==
  ASSUME Shape, [Next]_vars
  PROVE  /\ Slots \subseteq Slots'
         /\ \A x \in Slots : Embed(x)' = Embed(x) /\ Kind(x)' = Kind(x)
         /\ \A x \in Slots : Handled(x) => Handled(x)' /\ fate'[x[1]][x[2]] = fate[x[1]][x[2]]
         /\ \A x \in Slots' : Handled(x)' =>
              x \in Slots /\ (Handled(x) \/ (x = Slot /\ \E outcome \in Fates : Ends(outcome)))
<1>1. CASE UNCHANGED <<payload, told, fate>>
  BY <1>1 DEF Slots, Requests, Embed, Kind, Handled
<1>2. ASSUME NEW outcome \in Fates, Ends(outcome)
      PROVE  /\ Slots' = Slots
             /\ \A x \in Slots : Embed(x)' = Embed(x) /\ Kind(x)' = Kind(x)
             /\ \A x \in Slots : Handled(x) => Handled(x)' /\ fate'[x[1]][x[2]] = fate[x[1]][x[2]]
             /\ \A x \in Slots : Handled(x)' => Handled(x) \/ x = Slot
  <2>1. Slots' = Slots /\ \A x \in Slots : Embed(x)' = Embed(x) /\ Kind(x)' = Kind(x)
    BY <1>2 DEF Ends, Slots, Requests, Embed, Kind
  <2>2. ASSUME NEW x \in Slots
        PROVE  /\ Handled(x) => Handled(x)' /\ fate'[x[1]][x[2]] = fate[x[1]][x[2]]
               /\ Handled(x)' => Handled(x) \/ x = Slot
    <3>1. CASE x[1] # hand
      BY <1>2, <3>1, SlotParts, FateGrows DEF Ends, Handled
    <3>2. CASE x[1] = hand
      <4>1. /\ Slot = <<hand, Len(fate[hand]) + 1>> /\ x = <<hand, x[2]>> /\ x[2] \in Nat
            /\ x[2] >= 1 /\ Len(fate[hand]) \in Nat
        BY <1>2, <3>2, SlotParts, SlotInHand, RequestsAre DEF Ends
      <4>2. /\ Len(fate'[hand]) = Len(fate[hand]) + 1
            /\ \A i \in 1..Len(fate[hand]) : fate'[hand][i] = fate[hand][i]
        BY <1>2, FateGrows DEF Ends
      <4> QED
        BY <3>2, <4>1, <4>2 DEF Handled
    <3> QED
      BY <3>1, <3>2
  <2> QED
    BY <2>1, <2>2
<1>3. ASSUME NEW p \in Payloads, NEW answer \in {"queued", "error"}, Arrives(p, answer)
      PROVE  /\ Slots \subseteq Slots'
             /\ \A x \in Slots : Embed(x)' = Embed(x) /\ Kind(x)' = Kind(x)
             /\ \A x \in Slots : Handled(x) => Handled(x)' /\ fate'[x[1]][x[2]] = fate[x[1]][x[2]]
             /\ \A x \in Slots' : Handled(x)' => x \in Slots /\ Handled(x)
  <2>1. \A d \in Requests : d \in Requests' /\ payload'[d] = payload[d] /\ fate'[d] = fate[d]
    BY <1>3, ArrivesShape
  <2>2. Slots \subseteq Slots'
    BY <2>1 DEF Slots
  <2>3. \A x \in Slots : x[1] \in Requests
    BY SlotParts
  <2>4. \A x \in Slots : /\ Embed(x)' = Embed(x) /\ Kind(x)' = Kind(x)
                         /\ Handled(x)' <=> Handled(x)
                         /\ fate'[x[1]][x[2]] = fate[x[1]][x[2]]
    BY <2>1, <2>3 DEF Embed, Kind, Handled
  <2>5. ASSUME NEW x \in Slots', Handled(x)' PROVE x \in Slots
    <3>1. PICK d \in Requests' : \E i \in DOMAIN payload'[d] : x = <<d, i>>
      BY DEF Slots
    <3>2. PICK i \in DOMAIN payload'[d] : x = <<d, i>>
      BY <3>1
    <3>3. d \in Requests => x \in Slots
      BY <2>1, <3>2 DEF Slots
    <3>4. d = Len(payload) + 1 => fate'[d] = <<>> /\ payload'[d] = p
      BY <1>3, ArrivesShape
    <3>5. d \notin Requests => FALSE
      <4>1. d \notin Requests => d = Len(payload) + 1
        BY <1>3, ArrivesShape
      <4>2. p \in Seq(Embeds)
        BY QueueAssumption
      <4> QED
        BY <2>5, <3>2, <3>4, <4>1, <4>2 DEF Handled
    <3> QED
      BY <3>3, <3>5
  <2> QED
    BY <2>2, <2>4, <2>5
<1>4. (\E outcome \in Fates : Ends(outcome)) => \E outcome \in Fates : Ends(outcome)
  OBVIOUS
<1> QED
  BY <1>1, <1>2, <1>3, StepKinds

-----------------------------------------------------------------------------
(* The consumer's place.                                                   *)

LEMMA ShapeInit == Init => Shape
<1> SUFFICES ASSUME Init PROVE Shape
  OBVIOUS
<1>1. /\ payload = <<>> /\ told = <<>> /\ queue = <<>> /\ fate = <<>> /\ Requests = {}
      /\ files = {} /\ hand = None /\ at = "next" /\ lost = {} /\ troubles = 0
  BY DEF Init, Requests
<1>2. 0 \in 0..MaxTroubles /\ Len(payload) <= MaxRequests
  BY <1>1, QueueAssumption
<1> QED
  BY <1>1, <1>2 DEF Shape, Stages

LEMMA TroubleBound ==
  ASSUME Shape, Trouble \/ UNCHANGED troubles
  PROVE  troubles' \in 0..MaxTroubles
BY QueueAssumption DEF Shape, Trouble

LEMMA ShapeStep ==
  ASSUME Shape, [Next]_vars
  PROVE  Shape'
<1>1. CASE UNCHANGED vars
  BY <1>1 DEF Shape, vars, frontVars, troubleVars, Slots, Slot, Embed, Requests
<1>2. ASSUME NEW p \in Payloads, Accept(p) \/ PushFails(p)
      PROVE  Shape'
  <2>1. PICK answer \in {"queued", "error"} : Arrives(p, answer)
    BY <1>2, ArrivalIs
  <2>2. Slots \subseteq Slots'
    BY <1>2, SlotsKept DEF Next
  <2>3. hand' = hand /\ at' = at /\ lost' = lost /\ files' = files \cup {Len(payload) + 1}
    BY <2>1 DEF Arrives
  <2>4. Slot' = Slot
    BY <2>1, <2>3, ArrivesShape DEF Slot, Shape
  <2>5. queue' \in Seq(Requests')
    <3>1. queue \in Seq(Requests') /\ Len(payload) + 1 \in Requests'
      BY <2>1, ArrivesShape DEF Shape
    <3>2. queue' = queue \/ queue' = Append(queue, Len(payload) + 1)
      BY <1>2 DEF Accept, PushFails
    <3> QED
      BY <3>1, <3>2, AppendProperties
  <2>6. troubles' \in 0..MaxTroubles
    BY <1>2, TroubleBound DEF Accept, PushFails
  <2>7. \A d \in Requests' : Len(fate'[d]) <= Len(payload'[d])
    <3>1. ASSUME NEW d \in Requests' PROVE Len(fate'[d]) <= Len(payload'[d])
      <4>1. CASE d \in Requests
        BY <2>1, <4>1, ArrivesShape DEF Shape
      <4>2. CASE d = Len(payload) + 1
        <5>1. fate'[d] = <<>> /\ payload'[d] = p /\ p \in Seq(Embeds)
          BY <2>1, <4>2, ArrivesShape, QueueAssumption
        <5> QED
          BY <5>1
      <4> QED
        BY <2>1, <4>1, <4>2, ArrivesShape
    <3> QED
      BY <3>1
  <2> QED
    BY <2>1, <2>2, <2>3, <2>4, <2>5, <2>6, <2>7, ArrivesShape DEF Shape
<1>3. CASE Take
  <2>1. /\ queue \in Seq(Requests) /\ queue # <<>> /\ Head(queue) \in Requests
        /\ Tail(queue) \in Seq(Requests)
    BY <1>3 DEF Shape, Take
  <2>2. /\ queue' \in Seq(Requests) /\ hand' \in Requests \cup {None} /\ at' = "next"
        /\ UNCHANGED <<payload, told, files, fate, lost, troubles>>
    BY <1>3, <2>1 DEF Take, Popped, troubleVars
  <2> QED
    BY <2>2 DEF Shape, Requests, Stages
<1>4. ASSUME Processors PROVE Shape'
  <2>1. /\ Slot \in Slots /\ hand \in Requests
        /\ UNCHANGED <<payload, told, queue, files, hand, lost, troubles>>
    BY <1>4, ProcessorShape DEF frontVars, troubleVars
  <2>2. Requests' = Requests
    BY <2>1 DEF Requests
  <2>3. CASE \E outcome \in Fates \ {"cut", "kept"} : NextEmbed(outcome)
    <3>1. /\ at' = "next" /\ fate' \in [Requests -> Seq(Fates)]
          /\ \A d \in Requests : Len(fate'[d]) <= Len(payload[d])
      BY <2>1, <2>3, FateGrows DEF NextEmbed
    <3> QED
      BY <2>1, <2>2, <3>1 DEF Shape, Stages
  <2>4. CASE fate' = fate /\ at' \in Stages \ {"next"}
    <3>1. Slot' = Slot /\ Slots' = Slots
      BY <2>1, <2>2, <2>4 DEF Slot, Slots
    <3> QED
      BY <2>1, <2>2, <2>4, <3>1 DEF Shape
  <2> QED
    BY <1>4, <2>3, <2>4, ProcessorShape
<1>5. CASE Release
  <2>1. /\ UNCHANGED <<payload, told, queue, fate, lost, troubles>>
        /\ hand' = None /\ at' = "next" /\ files' \subseteq files
    BY <1>5 DEF Release, LetGo, Finally, frontVars, troubleVars
  <2> QED
    BY <2>1 DEF Shape, Requests, Stages
<1>6. CASE Fault \/ FaultKept \/ Crash
  <2>1. /\ UNCHANGED <<payload, told, queue>> /\ Requests' = Requests
        /\ at' = "next" /\ hand' \in {None, hand} /\ files' \subseteq files
        /\ lost' \subseteq lost \cup {hand} /\ lost' \subseteq Requests
    BY <1>6 DEF Fault, FaultKept, Crash, LetGo, Finally, frontVars, Requests, Shape
  <2>2. troubles' \in 0..MaxTroubles
    BY <1>6, TroubleBound DEF Fault, FaultKept, Crash
  <2>3. /\ fate' \in [Requests -> Seq(Fates)]
        /\ \A d \in Requests : Len(fate'[d]) <= Len(payload[d])
    <3>1. CASE fate' = fate
      BY <3>1 DEF Shape
    <3>2. CASE Slot \in Slots /\ \E outcome \in Fates : fate' = [fate EXCEPT ![hand] = Append(@, outcome)]
      BY <3>2, FateGrows
    <3> QED
      BY <1>6, <3>1, <3>2 DEF Fault, FaultKept, Crash, CutShort, Fates
  <2> QED
    BY <2>1, <2>2, <2>3 DEF Shape, Stages
<1>7. CASE \E x \in Slots : Hour(x)
  BY <1>7 DEF Hour, Shape, frontVars, troubleVars, Slots, Slot, Embed, Requests
<1> QED
  BY <1>1, <1>2, <1>3, <1>4, <1>5, <1>6, <1>7 DEF Next, Consumer

-----------------------------------------------------------------------------
(* Temporary files.                                                        *)

\* Only the head leaves the list.
LEMMA TakenFromWaiting ==
  ASSUME queue \in Seq(Requests), queue # <<>>, queue' = Tail(queue)
  PROVE  Waiting \subseteq Waiting' \cup {Head(queue)}
<1>1. ASSUME NEW k \in DOMAIN queue PROVE queue[k] \in Waiting' \cup {Head(queue)}
  <2>1. k = 1 => queue[k] = Head(queue)
    OBVIOUS
  <2>2. k # 1 => k - 1 \in DOMAIN queue' /\ queue'[k - 1] = queue[k]
    OBVIOUS
  <2> QED
    BY <2>1, <2>2 DEF Waiting
<1> QED
  BY <1>1 DEF Waiting

LEMMA FilesStep ==
  ASSUME Shape, FilesFollowEntries, [Next]_vars
  PROVE  FilesFollowEntries'
<1> SUFFICES ASSUME NEW d \in files'
             PROVE  \/ d \in Waiting' \/ d = hand'
                    \/ told'[d] = "error" \/ payload'[d] = <<>>
                    \/ d \in lost'
  BY DEF FilesFollowEntries
<1>1. d \in files => \/ d \in Waiting \/ d = hand
                     \/ told[d] = "error" \/ payload[d] = <<>>
                     \/ d \in lost
  BY DEF FilesFollowEntries
<1>2. ASSUME NEW p \in Payloads, Accept(p) \/ PushFails(p)
      PROVE  d \in Waiting' \/ d = hand' \/ told'[d] = "error" \/ payload'[d] = <<>> \/ d \in lost'
  <2>1. queue \in Seq(Requests) /\ files \subseteq Requests
    BY DEF Shape
  <2>2. /\ \E answer \in {"queued", "error"} : Arrives(p, answer)
        /\ files' = files \cup {Len(payload) + 1} /\ hand' = hand /\ lost' = lost
    BY <1>2, ArrivalIs DEF Arrives, Accept, PushFails
  <2>3. \A c \in Requests : told'[c] = told[c] /\ payload'[c] = payload[c]
    BY <2>2, ArrivesShape
  <2>4. CASE Accept(p)
    <3>1. queue' = Append(queue, Len(payload) + 1)
      BY <2>4 DEF Accept
    <3>2. Waiting' = Waiting \cup {Len(payload) + 1}
      BY <2>1, <3>1, AppendProperties DEF Waiting
    <3> QED
      BY <1>1, <2>1, <2>2, <2>3, <3>2
  <2>5. CASE PushFails(p)
    <3>1. Waiting' = Waiting /\ told'[Len(payload) + 1] = "error"
      BY <2>5, ArrivesShape DEF PushFails, Waiting
    <3> QED
      BY <1>1, <2>1, <2>2, <2>3, <3>1
  <2> QED
    BY <1>2, <2>4, <2>5
<1>3. CASE Take
  <2>1. /\ queue \in Seq(Requests) /\ queue # <<>> /\ hand = None
        /\ queue' = Tail(queue) /\ UNCHANGED <<payload, told, files, lost>>
        /\ hand' = IF payload[Head(queue)] = <<>> THEN None ELSE Head(queue)
    BY <1>3 DEF Shape, Take, Popped, troubleVars
  <2>2. Waiting \subseteq Waiting' \cup {Head(queue)}
    BY <2>1, TakenFromWaiting
  <2>3. d # hand
    BY <2>1, RequestsAre DEF Shape
  <2> QED
    BY <1>1, <2>1, <2>2, <2>3
<1>4. CASE Processors \/ FaultKept \/ (\E x \in Slots : Hour(x)) \/ UNCHANGED vars
  <2>1. UNCHANGED <<payload, told, queue, files, hand, lost>>
    BY <1>4, ProcessorShape DEF FaultKept, Hour, vars, frontVars, troubleVars
  <2> QED
    BY <1>1, <2>1 DEF Waiting
<1>5. CASE Release \/ Fault
  <2>1. UNCHANGED <<payload, told, queue, lost>> /\ files' = files \ {hand}
    BY <1>5 DEF Release, Fault, Finally, frontVars, troubleVars
  <2> QED
    BY <1>1, <2>1 DEF Waiting
<1>6. CASE Crash
  <2>1. /\ UNCHANGED <<payload, told, queue, files>>
        /\ lost \subseteq lost' /\ (hand # None => hand \in lost')
    BY <1>6 DEF Crash, frontVars
  <2>2. d # None
    BY <2>1, RequestsAre DEF Shape
  <2> QED
    BY <1>1, <2>1, <2>2 DEF Waiting
<1> QED
  BY <1>2, <1>3, <1>4, <1>5, <1>6 DEF Next, Consumer

\* Whatever fails between the API and the consumer, a temporary file belongs to
\* an entry that waits or is in hand, to a request that was answered with an
\* error or had no embeds, or to an entry the consumer ended with (the finally
\* block of webhook_consumer.py).
THEOREM FilesGoWithEntries == Spec => []FilesFollowEntries
<1>1. Init => Shape /\ FilesFollowEntries
  BY ShapeInit DEF Init, FilesFollowEntries
<1>2. Shape /\ FilesFollowEntries /\ [Next]_vars => (Shape /\ FilesFollowEntries)'
  BY ShapeStep, FilesStep
<1> QED
  BY <1>1, <1>2, PTL DEF Spec

-----------------------------------------------------------------------------
(* The tables and the open transaction.                                    *)

\* What its processor set out to store is stored, or need not be.
Entered(x) == x \in rows \cup better \/ OnFile(x) \/ Embed(x).what = None

\* Only the embed in hand has a row in the open transaction; past its first
\* stage an embed is entered or about to be.
Tables ==
  /\ rows \cup better \cup credits \subseteq Slots /\ recent \subseteq rows
  /\ flushed # {} => /\ flushed = {Slot} /\ at \in {"credited", "announced"}
                     /\ Kind(Slot) \in {"drop", "quest", "pb"}
  /\ at = "entered" => /\ Kind(Slot) \in {"ca", "clog", "pet"}
                       /\ OnFile(Slot) \/ Embed(Slot).what = None
  /\ at \in {"credited", "announced"} => Slot \in flushed \/ Entered(Slot)

\* An entry is flushed; one is committed at once; what is open is committed; or
\* the tables keep what they have and the transaction goes on or is rolled back.
Flushes ==
  /\ Slot \in Slots /\ at = "next" /\ Kind(Slot) \in {"drop", "quest", "pb"}
  /\ Asked(Slot) => ~StoredLately(Slot)
  /\ at' = "credited" /\ flushed' = {Slot} /\ UNCHANGED <<payload, fate, hand>>
  /\ UNCHANGED <<rows, better, recent, credits>>
Enters ==
  /\ Slot \in Slots /\ at = "next" /\ Kind(Slot) \in {"ca", "clog", "pet", "experience"}
  /\ Kind(Slot) # "experience" => ~StoredLately(Slot) /\ ~OnFile(Slot)
  /\ Commits({Slot})
  /\ at' = (IF Kind(Slot) = "experience" THEN "credited" ELSE "entered")
  /\ flushed = {} /\ flushed' = {} /\ UNCHANGED <<payload, fate, hand, credits>>
Closes ==
  /\ Commits(flushed) /\ flushed' = {} /\ Slot \in Slots /\ payload' = payload
  /\ \/ at' = "next"
     \/ at = "credited" /\ at' \in {"credited", "announced"} /\ UNCHANGED <<fate, hand>>
Stays ==
  /\ UNCHANGED <<rows, better>> /\ recent' \subseteq recent
  /\ \/ flushed' = {}
     \/ flushed' = flushed /\ Slot' = Slot /\ at' \in {at, "announced"} /\ at # "entered"

LEMMA EntryKinds ==
  ASSUME Shape, Tables, [Next]_vars
  PROVE  Flushes \/ Enters \/ Closes \/ Stays
<1>1. at \in {"next", "entered"} => flushed = {}
  BY DEF Tables
<1>2. hand = None => at = "next"
  BY SlotInHand DEF Shape
<1>3. CASE \E p \in Payloads : Accept(p) \/ PushFails(p)
  <2>1. PICK p \in Payloads : Accept(p) \/ PushFails(p)
    BY <1>3
  <2>2. /\ \E answer \in {"queued", "error"} : Arrives(p, answer)
        /\ UNCHANGED <<hand, at, flushed, rows, better, recent>>
    BY <2>1, ArrivalIs DEF openVars, tableVars
  <2>3. Slot' = Slot
    BY <2>2, ArrivesShape DEF Slot, Shape
  <2> QED
    BY <1>1, <2>2, <2>3 DEF Stays
<1>4. CASE Take \/ Release
  BY <1>1, <1>2, <1>4 DEF Take, Release, LetGo, Stays, openVars, tableVars
<1>5. CASE Skip \/ Ignore \/ Refuse \/ PbNotBeaten
  BY <1>1, <1>5 DEF Skip, Ignore, Refuse, PbNotBeaten, InItem, Stays, openVars, tableVars
<1>6. CASE EnterFlushed \/ EnterPb
  BY <1>6 DEF EnterFlushed, EnterPb, InItem, Admitted, MayCreate, Enter, Flushes, frontVars
<1>7. CASE EnterOnce
  <2>1. InItem({"clog", "pet"}) /\ ~OnFile(Slot) /\ ~StoredLately(Slot) /\ at = "next"
    BY <1>7 DEF EnterOnce, InItem, Admitted, MayCreate, Asked
  <2>2. flushed = {} /\ flushed' = {} /\ at' = "entered" /\ UNCHANGED <<payload, fate, hand, credits>>
    BY <1>1, <1>7, <2>1 DEF EnterOnce, Enter, frontVars
  <2>3. Commits({Slot}) \/ UNCHANGED <<rows, better, recent>>
    BY <1>7 DEF EnterOnce
  <2> QED
    BY <2>1, <2>2, <2>3 DEF InItem, Enters, Stays
<1>8. CASE OnceOnFile
  BY <1>1, <1>8 DEF OnceOnFile, InItem, Enter, Stays, openVars
<1>9. CASE EnterCa
  <2>1. InItem({"ca"}) /\ ~StoredLately(Slot) /\ at = "next"
    BY <1>9 DEF EnterCa, InItem, Admitted, MayCreate, Asked
  <2>2. flushed = {} /\ flushed' = {} /\ at' = "entered" /\ UNCHANGED <<payload, fate, hand, credits>>
    BY <1>1, <1>9, <2>1 DEF EnterCa, Enter, frontVars
  <2>3. (Commits({Slot}) /\ ~OnFile(Slot)) \/ UNCHANGED <<rows, better, recent>>
    BY <1>9 DEF EnterCa
  <2> QED
    BY <2>1, <2>2, <2>3 DEF InItem, Enters, Stays
<1>10. CASE EnterExperience
  BY <1>1, <1>10 DEF EnterExperience, InItem, Enter, Enters, frontVars
<1>11. CASE Credit
  BY <1>1, <1>11 DEF Credit, Stays, openVars, tableVars
<1>12. CASE Announce
  <2>1. /\ at = "credited" /\ at' = "announced" /\ UNCHANGED <<payload, fate, hand, credits>>
        /\ \/ UNCHANGED <<rows, recent, better, flushed>>
           \/ Commits(flushed) /\ flushed' = {}
    BY <1>12 DEF Announce, Joins, frontVars
  <2>2. Slot' = Slot /\ Slot \in Slots
    BY <2>1 DEF Slot, Shape
  <2> QED
    BY <2>1, <2>2 DEF Closes, Stays
<1>13. CASE StayQuiet \/ Commit
  BY <1>13 DEF StayQuiet, Commit, NextEmbed, Closes, Shape, frontVars
<1>14. CASE Fault
  BY <1>14 DEF Fault, LetGo, Closes, Stays, tableVars, frontVars
<1>15. CASE FaultKept
  <2>1. flushed = {}
    BY <1>15 DEF FaultKept, Tables
  <2> QED
    BY <1>15, <2>1 DEF FaultKept, Stays
<1>16. CASE Crash
  BY <1>16 DEF Crash, LetGo, Stays, tableVars
<1>17. CASE \E x \in Slots : Hour(x)
  <2>1. /\ UNCHANGED <<hand, at, flushed, rows, better, fate>> /\ recent' \subseteq recent
    BY <1>17 DEF Hour, openVars
  <2> QED
    BY <1>1, <2>1 DEF Stays, Slot
<1>18. CASE UNCHANGED vars
  <2>1. UNCHANGED <<hand, at, flushed, rows, better, recent, fate>>
    BY <1>18 DEF vars, openVars, tableVars
  <2> QED
    BY <1>1, <2>1 DEF Stays, Slot
<1>19. CASE CreditDrop
  <2>1. /\ at = "credited" /\ at' = "credited" /\ UNCHANGED <<payload, fate, hand>>
        /\ \/ UNCHANGED <<rows, recent, better, flushed>>
           \/ Commits(flushed) /\ flushed' = {}
    BY <1>19 DEF CreditDrop, Joins, frontVars
  <2>2. Slot' = Slot /\ Slot \in Slots
    BY <2>1 DEF Slot, Shape
  <2> QED
    BY <2>1, <2>2 DEF Closes, Stays
<1> QED
  BY <1>3, <1>4, <1>5, <1>6, <1>7, <1>8, <1>9, <1>10, <1>11, <1>12, <1>13, <1>14, <1>15,
     <1>16, <1>17, <1>18, <1>19 DEF Next, Consumer, Processors

\* What a commit of the row in hand, or of nothing, stores.
LEMMA CommitsWhat ==
  ASSUME Shape, Tables, NEW xs, xs = {} \/ (xs = {Slot} /\ Slot \in Slots), Commits(xs)
  PROVE  /\ rows \subseteq rows' /\ rows' \subseteq rows \cup xs
         /\ better \subseteq better' /\ better' \subseteq better \cup xs
         /\ xs \subseteq rows' \cup better' /\ recent' \subseteq rows'
         /\ rows' \cup better' \subseteq Slots
         /\ \A x \in xs : Kind(x) # "pb" \/ ~OnFile(x) => x \in rows'
BY DEF Commits, Tables

\* Rows stay; at most the one of the embed in hand is new.
LEMMA RowsGrow ==
  ASSUME Shape, Tables, [Next]_vars
  PROVE  /\ rows \subseteq rows' /\ better \subseteq better' /\ recent' \subseteq rows'
         /\ rows' \cup better' \subseteq Slots
         /\ rows' \subseteq rows \cup {Slot}
         /\ rows' # rows => Enters \/ Closes
         /\ Closes => flushed \subseteq rows' \cup better'
<1>1. CASE Enters
  <2>1. Slot \in Slots /\ Commits({Slot}) /\ flushed = {}
    BY <1>1 DEF Enters
  <2> QED
    BY <1>1, <2>1, CommitsWhat
<1>2. CASE Closes
  <2>1. /\ flushed = {} \/ flushed = {Slot}
        /\ Slot \in Slots /\ Commits(flushed)
    BY <1>2 DEF Closes, Tables
  <2> QED
    BY <1>2, <2>1, CommitsWhat
<1>3. CASE (Flushes \/ Stays) /\ ~Closes
  BY <1>3 DEF Flushes, Stays, Tables
<1> QED
  BY <1>1, <1>2, <1>3, EntryKinds

\* What was entered stays entered.
LEMMA EnteredStays ==
  ASSUME Shape, Tables, [Next]_vars, NEW x \in Slots
  PROVE  /\ OnFile(x) => OnFile(x)'
         /\ Entered(x) => Entered(x)'
         /\ x \in rows' => OnFile(x)'
         /\ Embed(x)' = Embed(x) /\ Kind(x)' = Kind(x)
<1>1. \A y \in Slots : Embed(y)' = Embed(y) /\ Kind(y)' = Kind(y)
  BY SlotsKept
<1>2. rows \subseteq rows' /\ better \subseteq better' /\ rows \subseteq Slots
  BY RowsGrow DEF Tables
<1>3. OnFile(x) => OnFile(x)'
  BY <1>1, <1>2 DEF OnFile, SameWhat
<1>4. x \in rows' => OnFile(x)'
  BY DEF OnFile, SameWhat
<1> QED
  BY <1>1, <1>2, <1>3, <1>4 DEF Entered

\* How the embed in hand comes to be past its first stage.
LEMMA StageMoves ==
  ASSUME Shape, Tables, [Next]_vars, at' # "next"
  PROVE  /\ Slot' = Slot /\ Slot \in Slots
         /\ \/ at' = at /\ flushed' = flushed
            \/ Flushes
            \/ Enters
            \/ /\ at' = "entered" /\ Kind(Slot) \in {"ca", "clog", "pet"}
               /\ OnFile(Slot) \/ Embed(Slot).what = None
            \/ at' = "credited" /\ OnFile(Slot) /\ Kind(Slot) \in {"clog", "pet"}
            \/ at = "entered" /\ at' = "credited"
            \/ /\ at = "credited" /\ at' \in {"credited", "announced"}
               /\ flushed' = flushed \/ Closes
<1>1. Shape' /\ (Slot \in Slots)'
  BY ShapeStep DEF Shape
<1>2. CASE \E p \in Payloads : Accept(p) \/ PushFails(p)
  <2>1. PICK p \in Payloads : Accept(p) \/ PushFails(p)
    BY <1>2
  <2>2. /\ \E answer \in {"queued", "error"} : Arrives(p, answer)
        /\ UNCHANGED <<hand, at, flushed>>
    BY <2>1, ArrivalIs DEF openVars
  <2>3. Slot' = Slot
    BY <2>2, ArrivesShape DEF Slot, Shape
  <2>4. Slot \in Slots
    BY <2>2 DEF Shape
  <2> QED
    BY <2>2, <2>3, <2>4
<1>3. CASE Processors
  <2>1. Slot \in Slots /\ UNCHANGED <<payload, hand>>
    BY <1>3, ProcessorShape DEF frontVars
  <2>2. fate' = fate /\ Slot' = Slot
    BY <1>3, <2>1, ProcessorShape DEF NextEmbed, Slot
  <2>3. CASE EnterFlushed \/ EnterPb
    BY <2>1, <2>2, <2>3 DEF EnterFlushed, EnterPb, InItem, Admitted, MayCreate, Enter, Flushes,
       frontVars
  <2>4. CASE EnterOnce
    <3>1. at' = "entered" /\ Kind(Slot) \in {"clog", "pet"} /\ at = "next"
      BY <2>4 DEF EnterOnce, InItem, Enter
    <3>2. CASE Embed(Slot).what = None
      BY <2>1, <2>2, <3>1, <3>2
    <3>3. CASE Embed(Slot).what # None
      <4>1. ~OnFile(Slot) /\ ~StoredLately(Slot) /\ Commits({Slot}) /\ UNCHANGED <<flushed, credits>>
        BY <2>4, <3>1, <3>3 DEF EnterOnce, Admitted, MayCreate, Asked
      <4>2. flushed = {}
        BY <3>1 DEF Tables
      <4> QED
        BY <2>1, <2>2, <3>1, <4>1, <4>2 DEF Enters
    <3> QED
      BY <3>2, <3>3
  <2>5. CASE EnterCa
    <3>1. at' = "entered" /\ Kind(Slot) = "ca" /\ at = "next"
      BY <2>5 DEF EnterCa, InItem, Enter
    <3>2. CASE OnFile(Slot)
      BY <2>1, <2>2, <3>1, <3>2
    <3>3. CASE ~OnFile(Slot)
      <4>1. ~StoredLately(Slot) /\ Commits({Slot}) /\ UNCHANGED <<flushed, credits>>
        BY <2>5, <3>1, <3>3 DEF EnterCa, Admitted, MayCreate, Asked
      <4>2. flushed = {}
        BY <3>1 DEF Tables
      <4> QED
        BY <2>1, <2>2, <3>1, <3>3, <4>1, <4>2 DEF Enters
    <3> QED
      BY <3>2, <3>3
  <2>6. CASE EnterExperience
    <3>1. flushed = {} /\ at = "next"
      BY <2>6 DEF Tables, EnterExperience, InItem
    <3> QED
      BY <2>1, <2>2, <2>6, <3>1 DEF EnterExperience, InItem, Enter, Enters
  <2>7. CASE OnceOnFile
    BY <2>1, <2>2, <2>7 DEF OnceOnFile, InItem, Enter, NextEmbed
  <2>8. CASE Credit
    BY <2>1, <2>2, <2>8 DEF Credit, NextEmbed
  <2>9. CASE Announce
    <3>1. /\ at = "credited" /\ at' = "announced"
          /\ flushed' = flushed \/ (Commits(flushed) /\ flushed' = {})
      BY <2>9 DEF Announce, Joins
    <3> QED
      BY <2>1, <2>2, <3>1 DEF Closes
  <2>10. ~(Skip \/ Ignore \/ Refuse \/ PbNotBeaten \/ StayQuiet \/ Commit)
    BY DEF Skip, Ignore, Refuse, PbNotBeaten, StayQuiet, Commit, NextEmbed
  <2>11. CASE CreditDrop
    <3>1. /\ at = "credited" /\ at' = "credited"
          /\ flushed' = flushed \/ (Commits(flushed) /\ flushed' = {})
      BY <2>11 DEF CreditDrop, Joins
    <3> QED
      BY <2>1, <2>2, <3>1 DEF Closes
  <2> QED
    BY <1>3, <2>3, <2>4, <2>5, <2>6, <2>7, <2>8, <2>9, <2>10, <2>11 DEF Processors
<1>4. CASE (\E x \in Slots : Hour(x)) \/ UNCHANGED vars
  <2>1. UNCHANGED <<payload, hand, at, fate, flushed>>
    BY <1>4 DEF Hour, vars, frontVars, openVars
  <2>2. Slot' = Slot /\ Slot \in Slots
    BY <2>1 DEF Slot, Shape
  <2> QED
    BY <2>1, <2>2
<1>5. ~(Take \/ Release \/ Fault \/ FaultKept \/ Crash)
  BY DEF Take, Release, Fault, FaultKept, Crash, LetGo
<1> QED
  BY <1>2, <1>3, <1>4, <1>5 DEF Next, Consumer

\* Points are given to an embed that was just entered, or to a drop that is
\* about to be announced.
LEMMA CreditsMove ==
  ASSUME Shape, Tables, [Next]_vars
  PROVE  \/ credits' = credits
         \/ /\ credits' = credits \cup {Slot} /\ at = "entered" /\ Slot \in Slots
            /\ at' # "entered"
         \/ /\ credits' = credits \cup {Slot} /\ Kind(Slot) = "drop" /\ Slot \in Slots
            /\ at = "credited" /\ at' = "credited" /\ Slot' = Slot
<1>1. CASE \E p \in Payloads : Accept(p) \/ PushFails(p)
  BY <1>1, ArrivalIs
<1>2. CASE Credit
  BY <1>2 DEF Credit, NextEmbed, Shape
<1>3. CASE ~Credit /\ ~CreditDrop /\ Processors
  BY <1>3 DEF Processors, Skip, Ignore, Refuse, EnterFlushed, EnterPb, PbNotBeaten,
     EnterOnce, OnceOnFile, EnterCa, EnterExperience, Announce, StayQuiet, Commit
<1>4. CASE Take \/ Release \/ Fault \/ FaultKept \/ Crash \/ (\E x \in Slots : Hour(x)) \/ UNCHANGED vars
  BY <1>4 DEF Take, Release, Fault, FaultKept, Crash, Hour, vars
<1>5. CASE CreditDrop
  BY <1>5 DEF CreditDrop, Shape, Slot
<1> QED
  BY <1>1, <1>2, <1>3, <1>4, <1>5 DEF Next, Consumer

LEMMA TablesStep ==
  ASSUME Shape, Tables, [Next]_vars
  PROVE  Tables'
<1>1. rows' \cup better' \cup credits' \subseteq Slots' /\ recent' \subseteq rows'
  BY RowsGrow, SlotsKept, CreditsMove DEF Tables
<1>2. CASE at' = "next"
  <2>1. flushed' = {}
    BY <1>2, EntryKinds DEF Flushes, Enters, Closes, Stays, Tables
  <2> QED
    BY <1>1, <1>2, <2>1 DEF Tables
<1>3. CASE at' # "next"
  <2>1. Slot' = Slot /\ Slot \in Slots
    BY <1>3, StageMoves
  <2>2. PICK s : s = Slot
    OBVIOUS
  <2>3. s \in Slots /\ Slot' = s
    BY <2>1, <2>2
  <2>4. /\ OnFile(s) => OnFile(s)'
        /\ Entered(s) => Entered(s)'
        /\ s \in rows' => OnFile(s)'
        /\ Embed(s)' = Embed(s) /\ Kind(s)' = Kind(s)
    BY <2>3, EnteredStays
  <2>5. /\ Kind(Slot)' = Kind(s)' /\ Embed(Slot)' = Embed(s)' /\ OnFile(Slot)' = OnFile(s)'
        /\ Entered(Slot)' = Entered(s)'
    BY <2>3 DEF Kind, Embed, OnFile, SameWhat, Entered
  <2>6. CASE at' = at /\ flushed' = flushed
    BY <1>1, <2>2, <2>4, <2>5, <2>1, <2>6 DEF Tables
  <2>7. CASE Flushes
    BY <1>1, <2>2, <2>4, <2>5, <2>1, <2>7 DEF Tables, Flushes
  <2>8. CASE Enters
    <3>1. s \in rows'
      BY <2>2, <2>8, CommitsWhat DEF Enters
    <3>2. Entered(s)'
      BY <3>1 DEF Entered
    <3> QED
      BY <1>1, <2>2, <2>4, <2>5, <2>8, <3>1, <3>2 DEF Tables, Enters
  <2>9. CASE at # "next" \/ OnFile(Slot) \/ Embed(Slot).what = None
    <3>1. OnFile(s) \/ Embed(s).what = None => Entered(s)
      BY DEF Entered
    <3>2. CASE /\ at' = "entered" /\ Kind(Slot) \in {"ca", "clog", "pet"}
               /\ OnFile(Slot) \/ Embed(Slot).what = None
               /\ ~Enters /\ ~Flushes /\ ~(at' = at /\ flushed' = flushed)
      <4>1. flushed' = {}
        BY <3>2, EntryKinds DEF Closes, Stays, Tables
      <4> QED
        BY <1>1, <2>2, <2>4, <2>5, <3>2, <4>1 DEF Tables
    <3>3. CASE at' = "credited" /\ OnFile(Slot) /\ ~Enters /\ ~Flushes /\ ~(at' = at /\ flushed' = flushed)
      <4>1. flushed' = {} \/ (flushed' = flushed /\ at = "credited")
        BY <3>3, EntryKinds DEF Closes, Stays, Tables
      <4> QED
        BY <1>1, <2>2, <2>4, <2>5, <3>1, <3>3, <4>1 DEF Tables
    <3>4. CASE at = "entered" /\ at' = "credited" /\ ~Enters /\ ~Flushes
      <4>1. flushed' = {}
        BY <3>4, EntryKinds DEF Closes, Stays, Tables
      <4>2. Entered(s)'
        BY <2>2, <2>4, <3>1, <3>4 DEF Tables
      <4> QED
        BY <1>1, <2>5, <3>4, <4>1, <4>2 DEF Tables
    <3>5. CASE /\ at = "credited" /\ at' \in {"credited", "announced"}
               /\ flushed' = flushed \/ Closes
      <4>1. s \in flushed \/ Entered(s)
        BY <2>2, <3>5 DEF Tables
      <4>2. CASE flushed' = flushed
        BY <1>1, <2>1, <2>2, <2>4, <2>5, <3>5, <4>1, <4>2 DEF Tables
      <4>3. CASE Closes
        <5>1. flushed' = {} /\ (s \in flushed => s \in rows' \cup better')
          BY <4>3, RowsGrow DEF Closes
        <5>2. Entered(s)'
          BY <2>4, <4>1, <5>1 DEF Entered
        <5> QED
          BY <1>1, <2>5, <3>5, <5>1, <5>2 DEF Tables
      <4> QED
        BY <3>5, <4>2, <4>3
    <3> QED
      BY <1>3, <2>6, <2>7, <2>8, <3>2, <3>3, <3>4, <3>5, StageMoves
  <2> QED
    BY <1>3, <2>6, <2>7, <2>8, <2>9, StageMoves
<1> QED
  BY <1>2, <1>3

LEMMA TablesInit == Init => Tables
BY DEF Init, Tables, Stages

-----------------------------------------------------------------------------
(* Points.                                                                 *)

\* The embed in hand ends as the step says.
LEMMA EndsWhat ==
  ASSUME Shape, NEW s, s = Slot, NEW outcome \in Fates, Ends(outcome)
  PROVE  /\ s \in Slots /\ Handled(s)' /\ fate'[s[1]][s[2]] = outcome
         /\ \A fates : outcome \in fates => Ended(s, fates)'
<1>1. s = <<hand, Len(fate[hand]) + 1>> /\ s \in Slots /\ hand \in Requests
  BY SlotInHand DEF Ends
<1>2. s[1] = hand /\ s[2] = Len(fate[hand]) + 1
  BY <1>1
<1>3. Len(fate'[hand]) = Len(fate[hand]) + 1 /\ fate'[hand][Len(fate[hand]) + 1] = outcome
  BY FateGrows DEF Ends
<1>4. s[2] <= Len(fate'[s[1]])
  BY <1>1, <1>2, <1>3, RequestsAre
<1> QED
  BY <1>1, <1>2, <1>3, <1>4 DEF Handled, Ended

\* What is open stays open, is committed, or its embed is cut short.
LEMMA OpenMoves ==
  ASSUME Shape, Tables, [Next]_vars, flushed # {}
  PROVE  flushed' = flushed \/ Closes \/ Ends("cut")
<1>1. at \in {"credited", "announced"} /\ Slot \in Slots /\ hand # None
  BY SlotInHand DEF Tables, Shape
<1>2. CASE \E p \in Payloads : Accept(p) \/ PushFails(p)
  BY <1>2, ArrivalIs DEF openVars
<1>3. CASE Processors
  <2>1. ~(\/ Skip \/ Ignore \/ Refuse \/ EnterFlushed \/ EnterPb \/ PbNotBeaten \/ EnterOnce
          \/ OnceOnFile \/ EnterCa \/ EnterExperience \/ Credit)
    BY <1>1 DEF Skip, Ignore, Refuse, EnterFlushed, EnterPb, PbNotBeaten, EnterOnce, OnceOnFile,
       EnterCa, EnterExperience, Credit, InItem
  <2>2. CASE CreditDrop \/ Announce
    BY <1>1, <2>2 DEF CreditDrop, Announce, Joins, Closes, frontVars
  <2>3. CASE StayQuiet \/ Commit
    BY <1>1, <2>3 DEF StayQuiet, Commit, NextEmbed, Closes, frontVars
  <2> QED
    BY <1>3, <2>1, <2>2, <2>3 DEF Processors
<1>4. CASE Fault \/ Crash
  BY <1>1, <1>4 DEF Fault, Crash, CutShort, Ends, frontVars
<1>5. CASE FaultKept \/ (\E x \in Slots : Hour(x)) \/ UNCHANGED vars
  BY <1>5 DEF FaultKept, Hour, vars, openVars
<1>6. ~(Take \/ Release)
  BY <1>1 DEF Take, Release
<1> QED
  BY <1>2, <1>3, <1>4, <1>5, <1>6 DEF Next, Consumer

\* A drop is open or in the table when its points are given.
DropOpen ==
  at \in {"credited", "announced"} /\ Kind(Slot) = "drop" => Slot \in flushed \cup rows

\* A drop that was open is open, in the table or cut short.
LEMMA DropMoves ==
  ASSUME Shape, Tables, [Next]_vars, NEW x \in flushed, Kind(x) = "drop"
  PROVE  x \in rows' \/ x \in flushed' \/ Ended(x, {"cut"})'
<1>1. x = Slot /\ flushed = {x} /\ x \in Slots
  BY DEF Tables, Shape
<1>2. CASE Closes
  BY <1>1, <1>2, CommitsWhat DEF Closes
<1>3. CASE Ends("cut")
  BY <1>1, <1>3, EndsWhat DEF Fates
<1> QED
  BY <1>2, <1>3, OpenMoves

LEMMA DropOpenStep ==
  ASSUME Shape, Tables, DropOpen, [Next]_vars
  PROVE  DropOpen'
<1> SUFFICES ASSUME (at \in {"credited", "announced"})', (Kind(Slot) = "drop")'
             PROVE  (Slot \in flushed \cup rows)'
  BY DEF DropOpen
<1>1. Slot' = Slot /\ Slot \in Slots
  BY StageMoves
<1>2. PICK s : s = Slot
  OBVIOUS
<1>3. s \in Slots /\ Slot' = s /\ Kind(s) = "drop" /\ rows \subseteq rows'
  <2>1. s \in Slots /\ Slot' = s
    BY <1>1, <1>2
  <2>2. Kind(s)' = "drop"
    BY <2>1 DEF Kind, Embed
  <2> QED
    BY <2>1, <2>2, SlotsKept, RowsGrow
<1>4. CASE flushed' = flushed /\ at \in {"credited", "announced"}
  BY <1>2, <1>3, <1>4 DEF DropOpen
<1>5. CASE Flushes
  BY <1>2, <1>3, <1>5 DEF Flushes
<1>6. ~Enters /\ at # "entered"
  BY <1>2, <1>3 DEF Enters, Tables
<1>7. CASE Closes /\ at = "credited"
  <2>1. s \in flushed \cup rows
    BY <1>2, <1>3, <1>7 DEF DropOpen
  <2>2. s \in flushed => flushed = {Slot} /\ Commits(flushed)
    BY <1>7 DEF Closes, Tables
  <2>3. s \in flushed => s \in rows'
    BY <1>1, <1>2, <1>3, <2>2, CommitsWhat
  <2> QED
    BY <1>3, <2>1, <2>3
<1> QED
  BY <1>2, <1>3, <1>4, <1>5, <1>6, <1>7, StageMoves

\* An entry that was just made has not been paid for.
Unpaid ==
  at = "entered" /\ Kind(Slot) \in {"clog", "pet"} /\ Embed(Slot).what # None =>
    \A y \in credits : ~SameWhat(Slot, y)

LEMMA UnpaidStep ==
  ASSUME Shape, Tables, CreditsHaveEntries, Unpaid, [Next]_vars
  PROVE  Unpaid'
<1> SUFFICES ASSUME at' = "entered", (Kind(Slot) \in {"clog", "pet"})', (Embed(Slot).what # None)'
             PROVE  (\A y \in credits : ~SameWhat(Slot, y))'
  BY DEF Unpaid
<1>1. Slot' = Slot /\ Slot \in Slots
  BY StageMoves
<1>2. PICK s : s = Slot
  OBVIOUS
<1>3. s \in Slots /\ Slot' = s /\ credits \subseteq Slots
  BY <1>1, <1>2 DEF Tables
<1>4. credits' = credits
  BY CreditsMove
<1>5. \A y \in Slots : Embed(y)' = Embed(y) /\ Kind(y)' = Kind(y)
  BY SlotsKept
<1>6. /\ Kind(s) = Kind(Slot)' /\ Embed(s) = Embed(Slot)'
      /\ \A y \in credits : SameWhat(Slot, y)' <=> SameWhat(s, y)
  BY <1>3, <1>5 DEF SameWhat, Kind, Embed
<1>7. CASE at = "entered"
  BY <1>2, <1>4, <1>6, <1>7 DEF Unpaid
<1>8. CASE at # "entered"
  <2>1. ASSUME NEW y \in credits, SameWhat(s, y) PROVE OnFile(s)
    <3>1. Embed(y).what # None
      BY <1>6, <2>1 DEF SameWhat
    <3>2. OnFile(y)
      BY <1>6, <2>1, <3>1 DEF CreditsHaveEntries, SameWhat
    <3> QED
      BY <2>1, <3>2 DEF OnFile, SameWhat
  <2>2. ~OnFile(s)
    <3>1. EnterOnce
      <4>1. Processors
        <5>1. ~(\E p \in Payloads : Accept(p) \/ PushFails(p))
          BY <1>8, ArrivalIs
        <5>2. ~(Take \/ Release \/ Fault \/ FaultKept \/ Crash \/ (\E x \in Slots : Hour(x)) \/ UNCHANGED vars)
          BY <1>8 DEF Take, Release, Fault, FaultKept, Crash, LetGo, Hour, vars
        <5> QED
          BY <5>1, <5>2 DEF Next, Consumer
      <4>2. ~EnterCa
        BY <1>2, <1>6 DEF EnterCa, InItem
      <4> QED
        BY <4>1, <4>2 DEF Processors, Skip, Ignore, Refuse, NextEmbed, EnterFlushed, EnterPb,
           PbNotBeaten, OnceOnFile, EnterExperience, Enter, Credit, CreditDrop, Announce,
           StayQuiet, Commit
    <3> QED
      BY <1>2, <3>1 DEF EnterOnce
  <2> QED
    BY <1>4, <1>6, <2>1, <2>2
<1> QED
  BY <1>7, <1>8

\* What a credit owes its being to, kept apart by kind.
Owed(x) ==
  \/ Embed(x).what = None
  \/ Kind(x) = "drop" /\ (x \in rows \/ x \in flushed \/ Ended(x, {"cut"}))
  \/ /\ Kind(x) # "drop" /\ OnFile(x)
     /\ Kind(x) \in {"clog", "pet"} => \A y \in credits \ {x} : ~SameWhat(x, y)

\* A drop's points keep their drop, or the entry was cut short.
LEMMA DropOwed ==
  ASSUME Shape, Tables, [Next]_vars, NEW x \in Slots, Kind(x) = "drop",
         x \in rows \/ x \in flushed \/ Ended(x, {"cut"})
  PROVE  x \in rows' \/ x \in flushed' \/ Ended(x, {"cut"})'
<1>1. x \in rows => x \in rows'
  BY RowsGrow
<1>2. Ended(x, {"cut"}) => Ended(x, {"cut"})'
  BY SlotsKept DEF Ended
<1> QED
  BY <1>1, <1>2, DropMoves

LEMMA CreditsStep ==
  ASSUME Shape, Tables, DropOpen, CreditsHaveEntries, Unpaid, [Next]_vars
  PROVE  CreditsHaveEntries'
<1> SUFFICES ASSUME NEW x \in credits' PROVE Owed(x)'
  BY DEF CreditsHaveEntries, Owed
<1>1. credits' \subseteq credits \cup {Slot} /\ credits \subseteq Slots /\ credits' \subseteq Slots
  BY CreditsMove DEF Tables
<1>2. \A y \in Slots : Embed(y)' = Embed(y) /\ Kind(y)' = Kind(y)
  BY SlotsKept
<1>3. OnFile(x) => OnFile(x)'
  BY <1>1, EnteredStays
<1>4. \A y \in credits' : SameWhat(x, y)' <=> SameWhat(x, y)
  BY <1>1, <1>2 DEF SameWhat
<1>5. Embed(x)' = Embed(x) /\ Kind(x)' = Kind(x) /\ x \in Slots
  BY <1>1, <1>2
<1>6. CASE Embed(x).what = None
  BY <1>5, <1>6 DEF Owed
<1>7. CASE Kind(x) = "drop"
  <2>1. x \in credits => Embed(x).what = None \/ x \in rows \/ x \in flushed \/ Ended(x, {"cut"})
    BY <1>7 DEF CreditsHaveEntries
  <2>2. x \notin credits => x \in rows \/ x \in flushed
    <3>1. x \notin credits => x = Slot /\ at \in {"entered", "credited"}
      BY CreditsMove
    <3> QED
      BY <1>7, <3>1 DEF DropOpen, Tables
  <2>3. CASE x \in rows \/ x \in flushed \/ Ended(x, {"cut"})
    <3>1. x \in rows' \/ x \in flushed' \/ Ended(x, {"cut"})'
      BY <1>5, <1>7, <2>3, DropOwed
    <3> QED
      BY <1>5, <1>7, <3>1 DEF Owed
  <2> QED
    BY <1>6, <2>1, <2>2, <2>3
<1>8. CASE Kind(x) # "drop" /\ Embed(x).what # None
  <2>1. CASE /\ credits' = credits \/ (credits' = credits \cup {Slot} /\ Kind(Slot) = "drop")
             /\ x \in credits
    <3>1. OnFile(x) /\ (Kind(x) \in {"clog", "pet"} => \A y \in credits \ {x} : ~SameWhat(x, y))
      BY <1>8, <2>1 DEF CreditsHaveEntries
    <3>2. Kind(Slot) = "drop" => ~SameWhat(x, Slot)
      BY <1>8 DEF SameWhat
    <3>3. Kind(x) \in {"clog", "pet"} => \A y \in credits' \ {x} : ~SameWhat(x, y)
      BY <2>1, <3>1, <3>2
    <3> QED
      BY <1>3, <1>4, <1>5, <1>8, <3>1, <3>3 DEF Owed
  <2>2. CASE credits' = credits \cup {Slot} /\ at = "entered"
    <3>1. OnFile(x)
      BY <1>8, <2>2 DEF CreditsHaveEntries, Tables
    <3>2. ASSUME Kind(x) \in {"clog", "pet"}, NEW y \in credits' \ {x}, SameWhat(x, y) PROVE FALSE
      <4>1. CASE x = Slot
        BY <1>8, <2>2, <3>2, <4>1 DEF Unpaid
      <4>2. CASE x # Slot /\ y = Slot
        BY <1>8, <2>2, <3>2, <4>2 DEF Unpaid, SameWhat
      <4>3. CASE x # Slot /\ y # Slot
        BY <1>8, <2>2, <3>2, <4>3 DEF CreditsHaveEntries
      <4> QED
        BY <4>1, <4>2, <4>3
    <3> QED
      BY <1>3, <1>4, <1>5, <1>8, <3>1, <3>2 DEF Owed
  <2> QED
    BY <1>8, <2>1, <2>2, CreditsMove
<1> QED
  BY <1>6, <1>7, <1>8

\* Points go in a session of their own and outlive whatever is rolled back
\* around them.  For an achievement, a slot of the log or a pet they are given
\* after the commit of the entry, and for the last two only when it was not on
\* file (clog.py, pet.py, ca.py); a drop's are given while it is but flushed
\* (drop.py), and are left without it exactly where its entry was cut short.
THEOREM PointsHaveEntries == Spec => []CreditsHaveEntries
<1>1. Init => Shape /\ Tables /\ DropOpen /\ CreditsHaveEntries /\ Unpaid
  BY ShapeInit, TablesInit DEF Init, DropOpen, CreditsHaveEntries, Unpaid
<1>2. Shape /\ Tables /\ DropOpen /\ CreditsHaveEntries /\ Unpaid /\ [Next]_vars =>
        (Shape /\ Tables /\ DropOpen /\ CreditsHaveEntries /\ Unpaid)'
  BY ShapeStep, TablesStep, DropOpenStep, CreditsStep, UnpaidStep
<1> QED
  BY <1>1, <1>2, PTL DEF Spec

-----------------------------------------------------------------------------
(* Recent rows.  A better time makes the row on file recent again, beside   *)
(* what else has its guid; that a guid is of one achievement is the         *)
(* plugin's promise, and the theorem's hypothesis.                          *)

GuidsNameTimes ==
  \A e, f \in Embeds : e.kind = "pb" /\ f.kind = "pb" /\ e.guid = f.guid => e.what = f.what

\* What is open has no recent row of its guid; a time is on file once.
Fresh ==
  /\ flushed # {} /\ Asked(Slot) => ~StoredLately(Slot)
  /\ \A x, y \in rows : Kind(x) = "pb" /\ SameWhat(x, y) => x = y

LEMMA SameGuidAsked ==
  ASSUME NEW x, NEW y, SameGuid(x, y)
  PROVE  /\ SameGuid(y, x)
         /\ Asked(x) <=> Asked(y)
         /\ Kind(x) = Kind(y)
BY DEF SameGuid, Asked

\* A commit of one row keeps the recent rows apart.
LEMMA CommitOne ==
  ASSUME GuidsNameTimes, Shape, Tables, OneRecentRow, Fresh, NEW s \in Slots, Commits({s}),
         Asked(s) => ~StoredLately(s)
  PROVE  /\ \A x, y \in recent' : x # y /\ SameGuid(x, y) => Kind(x) = "experience" \/ ~Asked(x)
         /\ \A x, y \in rows' : Kind(x) = "pb" /\ SameWhat(x, y) => x = y
<1>1. CASE Kind(s) = "pb" /\ OnFile(s)
  <2>1. rows' = rows /\ recent' = recent \cup {y \in rows : SameWhat(s, y)}
    BY <1>1 DEF Commits
  <2>2. ASSUME NEW x \in recent', NEW y \in recent', x # y, SameGuid(x, y),
               Kind(x) # "experience", Asked(x)
        PROVE  FALSE
    <3>1. CASE x \in recent /\ y \in recent
      BY <2>2, <3>1 DEF OneRecentRow
    <3>2. CASE x \notin recent \/ y \notin recent
      <4>1. x \in rows /\ y \in rows /\ x \in Slots /\ y \in Slots
        BY <2>1 DEF Tables
      <4>2. Kind(x) = "pb" /\ Kind(y) = "pb"
        <5>1. Kind(x) = "pb" \/ Kind(y) = "pb"
          BY <1>1, <2>1, <3>2 DEF SameWhat
        <5> QED
          BY <2>2, <5>1 DEF SameGuid
      <4>3. Embed(x) \in Embeds /\ Embed(y) \in Embeds
        BY <4>1, SlotParts
      <4>4. SameWhat(x, y)
        BY <2>2, <4>2, <4>3 DEF GuidsNameTimes, SameGuid, SameWhat, Kind
      <4> QED
        BY <2>2, <4>1, <4>2, <4>4 DEF Fresh
    <3> QED
      BY <3>1, <3>2
  <2>3. \A x, y \in rows' : Kind(x) = "pb" /\ SameWhat(x, y) => x = y
    BY <2>1 DEF Fresh
  <2> QED
    BY <2>2, <2>3
<1>2. CASE ~(Kind(s) = "pb" /\ OnFile(s))
  <2>1. rows' = rows \cup {s} /\ recent' = recent \cup {s}
    BY <1>2 DEF Commits
  <2>2. ASSUME NEW x \in recent', NEW y \in recent', x # y, SameGuid(x, y),
               Kind(x) # "experience", Asked(x)
        PROVE  FALSE
    <3>1. CASE x \in recent /\ y \in recent
      BY <2>2, <3>1 DEF OneRecentRow
    <3>2. CASE x = s /\ y \in recent
      BY <2>2, <3>2 DEF StoredLately
    <3>3. CASE y = s /\ x \in recent
      BY <2>2, <3>3, SameGuidAsked DEF StoredLately
    <3> QED
      BY <2>1, <2>2, <3>1, <3>2, <3>3
  <2>3. ASSUME NEW x \in rows', NEW y \in rows', Kind(x) = "pb", SameWhat(x, y), x # y
        PROVE  FALSE
    <3>1. CASE x \in rows /\ y \in rows
      BY <2>3, <3>1 DEF Fresh
    <3>2. CASE x = s \/ y = s
      BY <1>2, <2>1, <2>3, <3>2 DEF OnFile, SameWhat
    <3> QED
      BY <2>1, <3>1, <3>2
  <2> QED
    BY <2>2, <2>3
<1> QED
  BY <1>1, <1>2

LEMMA RecentStep ==
  ASSUME GuidsNameTimes, Shape, Tables, OneRecentRow, Fresh, [Next]_vars
  PROVE  OneRecentRow' /\ Fresh'
<1>1. /\ \A x \in Slots : Embed(x)' = Embed(x) /\ Kind(x)' = Kind(x)
      /\ recent' \subseteq rows' /\ rows' \subseteq Slots
  BY SlotsKept, RowsGrow
<1>2. \A x, y \in Slots : /\ SameGuid(x, y)' <=> SameGuid(x, y)
                          /\ SameWhat(x, y)' <=> SameWhat(x, y)
                          /\ Asked(x)' <=> Asked(x)
  BY <1>1 DEF SameGuid, SameWhat, Asked
<1>3. /\ \A x, y \in recent' : x # y /\ SameGuid(x, y) => Kind(x) = "experience" \/ ~Asked(x)
      /\ \A x, y \in rows' : Kind(x) = "pb" /\ SameWhat(x, y) => x = y
  <2>1. CASE Flushes \/ Stays
    BY <2>1 DEF Flushes, Stays, OneRecentRow, Fresh
  <2>2. ASSUME Enters \/ (Closes /\ flushed # {})
        PROVE  \E s \in Slots : Commits({s}) /\ (Asked(s) => ~StoredLately(s))
    <3>1. Enters => Slot \in Slots /\ Commits({Slot}) /\ (Asked(Slot) => ~StoredLately(Slot))
      BY DEF Enters, Asked
    <3>2. Closes /\ flushed # {} =>
            Slot \in Slots /\ Commits({Slot}) /\ (Asked(Slot) => ~StoredLately(Slot))
      BY DEF Closes, Tables, Fresh
    <3> QED
      BY <2>2, <3>1, <3>2
  <2>3. CASE Closes /\ flushed = {}
    BY <2>3 DEF Closes, Commits, OneRecentRow, Fresh
  <2>4. CASE Enters \/ (Closes /\ flushed # {})
    BY <2>2, <2>4, CommitOne
  <2> QED
    BY <2>1, <2>3, <2>4, EntryKinds
<1>4. OneRecentRow'
  BY <1>1, <1>2, <1>3 DEF OneRecentRow
<1>5. (\A x, y \in rows : Kind(x) = "pb" /\ SameWhat(x, y) => x = y)'
  BY <1>1, <1>2, <1>3
<1>6. (flushed # {} /\ Asked(Slot) => ~StoredLately(Slot))'
  <2> SUFFICES ASSUME flushed' # {}, Asked(Slot)' PROVE ~StoredLately(Slot)'
    OBVIOUS
  <2>1. /\ Flushes \/ Stays
        /\ Slot' = Slot /\ Slot \in Slots /\ recent' \subseteq recent /\ recent \subseteq Slots
    BY EntryKinds DEF Flushes, Enters, Closes, Stays, Tables, Slot, Shape
  <2>2. PICK s : s = Slot
    OBVIOUS
  <2>3. s \in Slots /\ Slot' = s /\ (Asked(Slot)' <=> Asked(s)')
        /\ (StoredLately(Slot)' <=> StoredLately(s)')
    BY <2>1, <2>2 DEF Asked, Kind, Embed, StoredLately, SameGuid
  <2>4. Asked(s) => ~StoredLately(s)
    BY <2>1, <2>2 DEF Flushes, Stays, Fresh
  <2>5. StoredLately(s)' => StoredLately(s)
    BY <1>2, <2>1, <2>3 DEF StoredLately
  <2> QED
    BY <1>2, <2>3, <2>4, <2>5
<1> QED
  BY <1>4, <1>5, <1>6 DEF Fresh

\* However often a guid is sent, whatever the consumer forgot or lost, within
\* the hour it is stored once (ensure_can_create in front of every processor,
\* each with a commit of its own).
THEOREM StoredOnceWithinTheHour == GuidsNameTimes => (Spec => []OneRecentRow)
<1> SUFFICES ASSUME GuidsNameTimes PROVE Spec => []OneRecentRow
  OBVIOUS
<1>1. Init => Shape /\ Tables /\ OneRecentRow /\ Fresh
  BY ShapeInit, TablesInit DEF Init, OneRecentRow, Fresh
<1>2. Shape /\ Tables /\ OneRecentRow /\ Fresh /\ [Next]_vars =>
        (Shape /\ Tables /\ OneRecentRow /\ Fresh)'
  BY ShapeStep, TablesStep, RecentStep
<1> QED
  BY <1>1, <1>2, PTL DEF Spec

-----------------------------------------------------------------------------
(* The account of what was accepted.                                       *)

Begun(x) == Handled(x) \/ (x = Slot /\ at # "next")

\* While a step does not end the embed in hand, it stays in hand.
LEMMA HandMoves ==
  ASSUME Shape, Slot \in Slots, [Next]_vars
  PROVE  \/ \E outcome \in Fates : Ends(outcome)
         \/ Slot' = Slot /\ (at' = at \/ at' # "next")
<1>1. CASE \E p \in Payloads : Accept(p) \/ PushFails(p)
  <2>1. /\ \E p \in Payloads : \E answer \in {"queued", "error"} : Arrives(p, answer)
        /\ hand' = hand /\ at' = at
    BY <1>1, ArrivalIs
  <2> QED
    BY <2>1, ArrivesShape DEF Slot, Shape
<1>2. CASE Processors
  <2>1. UNCHANGED <<payload, told, hand>>
    BY <1>2, ProcessorShape DEF frontVars
  <2>2. CASE \E outcome \in Fates \ {"cut", "kept"} : NextEmbed(outcome)
    BY <2>1, <2>2 DEF NextEmbed, Ends
  <2>3. CASE fate' = fate /\ at' \in Stages \ {"next"}
    BY <2>1, <2>3 DEF Slot
  <2> QED
    BY <1>2, <2>2, <2>3, ProcessorShape
<1>3. ~(Take \/ Release)
  BY SlotInHand DEF Take, Release
<1>4. CASE Fault \/ Crash
  BY <1>4 DEF Fault, Crash, CutShort, Ends, Fates, frontVars
<1>5. CASE FaultKept
  BY <1>5 DEF FaultKept, Ends, Fates, frontVars
<1>6. CASE (\E x \in Slots : Hour(x)) \/ UNCHANGED vars
  BY <1>6 DEF Hour, vars, frontVars, Slot
<1> QED
  BY <1>1, <1>2, <1>3, <1>4, <1>5, <1>6 DEF Next, Consumer

LEMMA BegunStays ==
  ASSUME Shape, [Next]_vars, NEW x \in Slots
  PROVE  /\ Begun(x) => Begun(x)'
         /\ x = Slot /\ (at' # "next" \/ \E outcome \in Fates : Ends(outcome)) => Begun(x)'
<1>1. Handled(x) => Handled(x)'
  BY SlotsKept
<1>2. CASE x = Slot
  <2>1. (\E outcome \in Fates : Ends(outcome)) => Handled(x)'
    BY <1>2, EndsWhat
  <2>2. CASE ~\E outcome \in Fates : Ends(outcome)
    <3>1. Slot' = Slot /\ (at' = at \/ at' # "next")
      BY <1>2, <2>2, HandMoves
    <3> QED
      BY <1>1, <1>2, <2>2, <3>1 DEF Begun
  <2> QED
    BY <2>1, <2>2 DEF Begun
<1> QED
  BY <1>1, <1>2 DEF Begun

\* What is remembered or stored was met.
Guids == {e.guid : e \in Embeds}
Met ==
  /\ cache \in [Kinds -> Seq(Guids)]
  /\ \A k \in Kinds : \A j \in DOMAIN cache[k] :
       \E y \in Slots : Kind(y) = k /\ Embed(y).guid = cache[k][j] /\ Begun(y)
  /\ \A y \in rows : Begun(y)

\* The caches stay, gain the guid of the embed in hand, or are lost.
LEMMA CacheMoves ==
  ASSUME Shape, [Next]_vars
  PROVE  \/ cache' = cache
         \/ /\ Slot \in Slots /\ Remember(Slot)
            /\ at' # "next" \/ \E outcome \in Fates : Ends(outcome)
         \/ cache' = [k \in Kinds |-> <<>>]
<1>1. CASE \E p \in Payloads : Accept(p) \/ PushFails(p)
  BY <1>1, ArrivalIs DEF memoryVars
<1>2. CASE Take \/ Release \/ FaultKept \/ Crash \/ (\E x \in Slots : Hour(x)) \/ UNCHANGED vars
  BY <1>2 DEF Take, Release, FaultKept, Crash, Hour, vars, memoryVars
<1>3. CASE Fault
  BY <1>3 DEF Fault, CutShort, Ends, Fates, frontVars, memoryVars
<1>4. CASE Processors
  <2>1. /\ Slot \in Slots
        /\ at' # "next" \/ \E outcome \in Fates : Ends(outcome)
    BY <1>4, ProcessorShape DEF NextEmbed, Ends, frontVars
  <2>2. cache' = cache \/ Remember(Slot)
    BY <1>4 DEF Processors, Skip, Ignore, Refuse, EnterFlushed, EnterPb, PbNotBeaten,
       EnterOnce, OnceOnFile, EnterCa, EnterExperience, Credit, CreditDrop, Announce,
       StayQuiet, Commit, Admitted, memoryVars
  <2> QED
    BY <2>1, <2>2
<1> QED
  BY <1>1, <1>2, <1>3, <1>4 DEF Next, Consumer

\* What Remember leaves in the cache of a kind.
LEMMA RememberWhat ==
  ASSUME Shape, cache \in [Kinds -> Seq(Guids)], NEW s \in Slots, Remember(s)
  PROVE  /\ cache' \in [Kinds -> Seq(Guids)]
         /\ \A k \in Kinds : \A j \in DOMAIN cache'[k] :
              \/ \E i \in DOMAIN cache[k] : cache'[k][j] = cache[k][i]
              \/ k = Kind(s) /\ cache'[k][j] = Embed(s).guid
<1> DEFINE k0 == Kind(s)
           old == cache[k0]
           g == Embed(s).guid
           app == Append(old, g)
           new == IF Len(old) < CacheSize THEN app ELSE Tail(app)
<1>1. k0 \in Kinds /\ g \in Guids
  BY SlotParts, QueueAssumption DEF Guids, Kind
<1>2. old \in Seq(Guids) /\ Len(old) \in Nat
  BY <1>1
<1>3. /\ app \in Seq(Guids) /\ Len(app) = Len(old) + 1 /\ app[Len(old) + 1] = g
      /\ \A i \in 1..Len(old) : app[i] = old[i]
  BY <1>1, <1>2, AppendProperties
<1>4. /\ Tail(app) \in Seq(Guids) /\ Len(Tail(app)) = Len(old)
      /\ \A i \in 1..Len(old) : Tail(app)[i] = app[i + 1]
  <2> HIDE DEF app, old, g
  <2>1. app # <<>>
    BY <1>2, <1>3
  <2> QED
    BY <1>2, <1>3, <2>1, HeadTailProperties
<1>5. cache' = [cache EXCEPT ![k0] = new]
  BY DEF Remember
<1>6. new \in Seq(Guids)
  BY <1>3, <1>4
<1>7. /\ cache' \in [Kinds -> Seq(Guids)] /\ cache'[k0] = new
      /\ \A k \in Kinds \ {k0} : cache'[k] = cache[k]
  BY <1>1, <1>5, <1>6
<1>8. ASSUME NEW j \in DOMAIN new
      PROVE  (\E i \in DOMAIN old : new[j] = old[i]) \/ new[j] = g
  <2> HIDE DEF app, old, g
  <2>0. DOMAIN old = 1..Len(old) /\ DOMAIN app = 1..(Len(old) + 1)
        /\ DOMAIN Tail(app) = 1..Len(old)
    BY <1>2, <1>3, <1>4
  <2>1. CASE Len(old) < CacheSize
    BY <1>2, <1>3, <2>0, <2>1
  <2>2. CASE ~(Len(old) < CacheSize)
    <3>1. j \in 1..Len(old) /\ new[j] = app[j + 1]
      BY <1>4, <1>8, <2>0, <2>2
    <3> QED
      BY <1>2, <1>3, <2>0, <3>1
  <2> QED
    BY <2>1, <2>2
<1> HIDE DEF new, old, g, k0
<1>9. QED
  BY <1>7, <1>8 DEF old, g, k0

LEMMA MetStep ==
  ASSUME Shape, Tables, Met, [Next]_vars
  PROVE  Met'
<1>1. /\ Slots \subseteq Slots'
      /\ \A x \in Slots : /\ Embed(x)' = Embed(x) /\ Kind(x)' = Kind(x)
                          /\ Begun(x) => Begun(x)'
  BY SlotsKept, BegunStays
<1>2. \A k \in Kinds : \A j \in DOMAIN cache[k] :
        \E y \in Slots' : Kind(y)' = k /\ Embed(y)'.guid = cache[k][j] /\ Begun(y)'
  BY <1>1 DEF Met
<1>3. /\ cache' \in [Kinds -> Seq(Guids)]
      /\ \A k \in Kinds : \A j \in DOMAIN cache'[k] :
           \E y \in Slots' : Kind(y)' = k /\ Embed(y)'.guid = cache'[k][j] /\ Begun(y)'
  <2>1. CASE cache' = cache
    BY <1>2, <2>1 DEF Met
  <2>2. CASE cache' = [k \in Kinds |-> <<>>]
    BY <2>2
  <2>3. CASE /\ Slot \in Slots /\ Remember(Slot)
             /\ at' # "next" \/ \E outcome \in Fates : Ends(outcome)
    <3>1. PICK s : s = Slot
      OBVIOUS
    <3>2. s \in Slots /\ Begun(s)' /\ Remember(s)
      BY <2>3, <3>1, BegunStays DEF Remember, Kind, Embed
    <3>3. /\ cache' \in [Kinds -> Seq(Guids)]
          /\ \A k \in Kinds : \A j \in DOMAIN cache'[k] :
               \/ \E i \in DOMAIN cache[k] : cache'[k][j] = cache[k][i]
               \/ k = Kind(s) /\ cache'[k][j] = Embed(s).guid
      BY <3>2, RememberWhat DEF Met
    <3>4. s \in Slots' /\ Kind(s)' = Kind(s) /\ Embed(s)' = Embed(s)
      BY <1>1, <3>2
    <3> QED
      BY <1>2, <3>2, <3>3, <3>4
  <2> QED
    BY <2>1, <2>2, <2>3, CacheMoves
<1>4. ASSUME NEW y \in rows' PROVE Begun(y)'
  <2>1. CASE y \in rows
    BY <1>1, <2>1 DEF Met, Tables
  <2>2. CASE y \notin rows
    <3>1. y = Slot /\ y \in Slots /\ (Enters \/ Closes)
      BY <2>2, RowsGrow
    <3>2. CASE Enters
      BY <3>1, <3>2, BegunStays DEF Enters
    <3>3. CASE Closes
      <4>1. flushed # {}
        BY <2>2, <3>3 DEF Closes, Commits
      <4>2. at # "next"
        BY <4>1 DEF Tables
      <4> QED
        BY <3>1, <4>2, BegunStays DEF Begun
    <3> QED
      BY <3>1, <3>2, <3>3
  <2> QED
    BY <2>1, <2>2
<1> QED
  BY <1>3, <1>4 DEF Met

\* How an embed that was handled is accounted for.
Resent(x) == \E y \in Slots \ {x} : SameGuid(x, y) /\ Handled(y)
Accounted(x) ==
  \/ Entered(x)
  \/ Ended(x, {"skipped", "refused", "kept", "cut"})
  \/ Ended(x, {"ignored"}) /\ Resent(x)

AllAccounted == \A x \in Slots : Handled(x) => Accounted(x)

\* An entry that was taken is handled to its end, or cut short.
Through ==
  \A d \in Requests : Over(d) =>
    \/ Len(fate[d]) = Len(payload[d])
    \/ \E i \in 1..Len(fate[d]) : fate[d][i] = "cut"

\* What is ignored was met before.
LEMMA IgnoredWasMet ==
  ASSUME Shape, Tables, Met, NEW s \in Slots, s = Slot, Ignore
  PROVE  Resent(s)
<1>1. at = "next" /\ ~Handled(s)
  BY SlotInHand DEF Ignore, InItem
<1>2. Known(s) \/ StoredLately(s)
  BY DEF Ignore, MayCreate
<1>3. Kind(s) \in Kinds
  BY SlotParts, QueueAssumption DEF Kind
<1>4. CASE Known(s)
  <2>1. PICK j \in DOMAIN cache[Kind(s)] : cache[Kind(s)][j] = Embed(s).guid
    BY <1>4 DEF Known
  <2>2. PICK y \in Slots : Kind(y) = Kind(s) /\ Embed(y).guid = Embed(s).guid /\ Begun(y)
    BY <1>3, <2>1 DEF Met
  <2> QED
    BY <1>1, <2>2 DEF Begun, Resent, SameGuid
<1>5. CASE StoredLately(s)
  <2>1. PICK y \in recent : SameGuid(s, y)
    BY <1>5 DEF StoredLately
  <2>2. y \in Slots /\ Begun(y)
    BY DEF Tables, Met
  <2> QED
    BY <1>1, <2>1, <2>2 DEF Begun, Resent
<1> QED
  BY <1>2, <1>4, <1>5

\* The embed that a step ends is accounted for.
LEMMA EndedAccounted ==
  ASSUME Shape, Tables, Met, [Next]_vars, NEW s, s = Slot, NEW outcome \in Fates, Ends(outcome)
  PROVE  Accounted(s)'
<1>1. s \in Slots /\ \A fates : outcome \in fates => Ended(s, fates)'
  BY EndsWhat
<1>2. CASE outcome \in {"skipped", "refused", "kept", "cut"}
  BY <1>1, <1>2 DEF Accounted
<1>3. CASE outcome \notin {"skipped", "refused", "kept", "cut"}
  <2>1. fate'[s[1]][s[2]] = outcome /\ Handled(s)' /\ ~Handled(s)
    BY EndsWhat, SlotInHand DEF Ends
  <2>2. Processors
    <3>1. ~(\E p \in Payloads : Accept(p) \/ PushFails(p))
      <4>1. ASSUME NEW p \in Payloads, Accept(p) \/ PushFails(p) PROVE FALSE
        <5>1. \E answer \in {"queued", "error"} : Arrives(p, answer)
          BY <4>1, ArrivalIs
        <5>2. Len(payload') = Len(payload) + 1 /\ Len(payload) \in Nat
          BY <5>1, RequestsAre, AppendProperties DEF Arrives, Shape
        <5> QED
          BY <5>2 DEF Ends
      <4> QED
        BY <4>1
    <3>2. ~(Take \/ Release \/ (\E x \in Slots : Hour(x)) \/ UNCHANGED vars)
      <4>1. fate' # fate
        BY <2>1 DEF Handled
      <4> QED
        BY <4>1 DEF Take, Release, Hour, vars
    <3>3. ~(Fault \/ Crash \/ FaultKept)
      <4>1. ASSUME NEW other \in {"cut", "kept"}, fate' = [fate EXCEPT ![hand] = Append(@, other)]
            PROVE  FALSE
        <5>1. Ends(other) /\ other \in Fates
          BY <4>1 DEF Ends, Fates
        <5>2. fate'[s[1]][s[2]] = other
          BY <5>1, EndsWhat
        <5> QED
          BY <1>3, <2>1, <5>2
      <4> QED
        BY <1>1, <4>1 DEF Fault, Crash, FaultKept, CutShort
    <3> QED
      BY <3>1, <3>2, <3>3 DEF Next, Consumer
  <2>3. ASSUME NEW other \in Fates, NextEmbed(other) PROVE other = outcome
    <3>1. Ends(other)
      BY <1>1, <2>3 DEF Ends, NextEmbed, frontVars
    <3> QED
      BY <2>1, <3>1, EndsWhat
  <2>4. ~(at' \in Stages \ {"next"} /\ fate' = fate)
    BY <2>1 DEF Handled
  <2>5. Entered(s) => Entered(s)'
    BY <1>1, EnteredStays
  <2>6. CASE Skip \/ Refuse
    BY <1>3, <2>3, <2>6 DEF Skip, Refuse, Fates
  <2>7. CASE Ignore
    <3>1. outcome = "ignored"
      BY <2>3, <2>7 DEF Ignore, Fates
    <3>2. PICK y \in Slots \ {s} : SameGuid(s, y) /\ Handled(y)
      BY <1>1, <2>7, IgnoredWasMet DEF Resent
    <3>3. y \in Slots' \ {s} /\ SameGuid(s, y)' /\ Handled(y)'
      BY <1>1, <3>2, SlotsKept DEF SameGuid
    <3>4. Ended(s, {"ignored"})'
      BY <1>1, <3>1
    <3>5. Resent(s)'
      BY <3>3 DEF Resent
    <3> QED
      BY <3>4, <3>5 DEF Accounted
  <2>8. CASE PbNotBeaten \/ OnceOnFile
    BY <2>5, <2>8 DEF PbNotBeaten, OnceOnFile, Entered, Accounted
  <2>9. CASE Credit
    BY <2>5, <2>9 DEF Credit, Tables, Shape, Stages, Entered, Accounted
  <2>10. CASE StayQuiet \/ Commit
    <3>1. s \in flushed \/ Entered(s)
      BY <2>10 DEF StayQuiet, Commit, Tables
    <3>2. Commits(flushed) /\ (flushed = {} \/ (flushed = {Slot} /\ Slot \in Slots))
      BY <1>1, <2>10 DEF StayQuiet, Commit, Tables
    <3>3. flushed \subseteq rows' \cup better'
      BY <3>2, CommitsWhat
    <3> QED
      BY <2>5, <3>1, <3>3 DEF Entered, Accounted
  <2>11. ~(\/ EnterFlushed \/ EnterPb \/ EnterOnce \/ EnterCa \/ EnterExperience
           \/ CreditDrop \/ Announce)
    <3>1. fate' # fate
      BY <2>1 DEF Handled
    <3> QED
      BY <3>1 DEF EnterFlushed, EnterPb, EnterOnce, EnterCa, EnterExperience, CreditDrop,
         Announce, Enter
  <2> QED
    BY <2>2, <2>6, <2>7, <2>8, <2>9, <2>10, <2>11 DEF Processors
<1> QED
  BY <1>2, <1>3

LEMMA AccountedStep ==
  ASSUME Shape, Tables, Met, AllAccounted, [Next]_vars
  PROVE  AllAccounted'
<1> SUFFICES ASSUME NEW x \in Slots', Handled(x)' PROVE Accounted(x)'
  BY DEF AllAccounted
<1>1. x \in Slots /\ (Handled(x) \/ (x = Slot /\ \E outcome \in Fates : Ends(outcome)))
  BY SlotsKept
<1>2. CASE Handled(x)
  <2>1. Accounted(x) /\ fate'[x[1]][x[2]] = fate[x[1]][x[2]]
    BY <1>1, <1>2, SlotsKept DEF AllAccounted
  <2>2. Entered(x) => Entered(x)'
    BY <1>1, EnteredStays
  <2>3. \A fates : Ended(x, fates) => Ended(x, fates)'
    BY <2>1 DEF Ended
  <2>4. Resent(x) => Resent(x)'
    BY <1>1, SlotsKept DEF Resent, SameGuid
  <2> QED
    BY <2>1, <2>2, <2>3, <2>4 DEF Accounted
<1>3. CASE x = Slot /\ \E outcome \in Fates : Ends(outcome)
  BY <1>3, EndedAccounted
<1> QED
  BY <1>1, <1>2, <1>3

LEMMA ThroughStep ==
  ASSUME Shape, Through, [Next]_vars
  PROVE  Through'
<1> DEFINE Done(d) == \/ Len(fate[d]) = Len(payload[d])
                      \/ \E i \in 1..Len(fate[d]) : fate[d][i] = "cut"
<1> SUFFICES ASSUME NEW d \in Requests', Over(d)' PROVE Done(d)'
  BY DEF Through
<1>1. Over(d) => Done(d)
  BY DEF Through, Over
<1>2. CASE \E p \in Payloads : Accept(p) \/ PushFails(p)
  <2>1. PICK p \in Payloads : Accept(p) \/ PushFails(p)
    BY <1>2
  <2>2. /\ \E answer \in {"queued", "error"} : Arrives(p, answer)
        /\ hand' = hand /\ queue \in Seq(Requests)
    BY <2>1, ArrivalIs DEF Shape
  <2>3. d \in Requests \/ d = Len(payload) + 1
    BY <2>2, ArrivesShape
  <2>4. Accept(p) => Waiting' = Waiting \cup {Len(payload) + 1}
    <3>1. Accept(p) => queue' = Append(queue, Len(payload) + 1)
      BY DEF Accept
    <3> QED
      BY <2>2, <3>1, AppendProperties DEF Waiting
  <2>5. PushFails(p) => Waiting' = Waiting /\ told'[Len(payload) + 1] = "error"
    BY ArrivesShape DEF PushFails, Waiting
  <2>6. d \in Requests
    BY <2>1, <2>3, <2>4, <2>5 DEF Over
  <2>7. told'[d] = told[d] /\ fate'[d] = fate[d] /\ payload'[d] = payload[d]
    BY <2>2, <2>6, ArrivesShape
  <2>8. Over(d)
    BY <2>1, <2>2, <2>4, <2>5, <2>6, <2>7 DEF Over
  <2> QED
    BY <1>1, <2>7, <2>8
<1>3. CASE Take
  <2>1. /\ queue \in Seq(Requests) /\ queue # <<>> /\ hand = None
        /\ queue' = Tail(queue) /\ UNCHANGED <<payload, told, fate>>
        /\ hand' = IF payload[Head(queue)] = <<>> THEN None ELSE Head(queue)
    BY <1>3 DEF Shape, Take, Popped
  <2>2. Waiting \subseteq Waiting' \cup {Head(queue)}
    BY <2>1, TakenFromWaiting
  <2>3. d \in Requests /\ d # None
    BY <2>1, RequestsAre DEF Requests
  <2>4. CASE d = Head(queue)
    <3>1. payload[d] = <<>>
      BY <2>1, <2>4 DEF Over
    <3>2. Len(fate[d]) = Len(payload[d])
      BY <2>3, <3>1, RequestsAre
    <3> QED
      BY <2>1, <3>2
  <2>5. CASE d # Head(queue)
    BY <1>1, <2>1, <2>2, <2>3, <2>5 DEF Over
  <2> QED
    BY <2>4, <2>5
<1>4. CASE Processors \/ FaultKept \/ (\E x \in Slots : Hour(x)) \/ UNCHANGED vars
  <2>1. UNCHANGED <<payload, told, queue, hand>>
    BY <1>4, ProcessorShape DEF FaultKept, Hour, vars, frontVars
  <2>2. Over(d) /\ d # hand /\ d \in Requests
    BY <2>1 DEF Over, Requests, Waiting
  <2>3. fate'[d] = fate[d]
    <3>1. CASE \E outcome \in Fates : Ends(outcome)
      BY <2>2, <3>1, FateGrows DEF Ends
    <3>2. CASE fate' = fate
      BY <3>2
    <3>3. ~\E p \in Payloads : \E answer \in {"queued", "error"} : Arrives(p, answer)
      <4>1. ASSUME NEW p \in Payloads, NEW answer \in {"queued", "error"}, Arrives(p, answer)
            PROVE  FALSE
        <5>1. Len(payload') = Len(payload) + 1 /\ Len(payload) \in Nat
          BY <4>1, RequestsAre, AppendProperties DEF Arrives, Shape
        <5> QED
          BY <2>1, <5>1
      <4> QED
        BY <4>1
    <3> QED
      BY <3>1, <3>2, <3>3, StepKinds
  <2> QED
    BY <1>1, <2>1, <2>2, <2>3
<1>5. CASE Release
  <2>1. UNCHANGED <<payload, told, queue, fate>> /\ hand # None /\ Slot \notin Slots
    BY <1>5 DEF Release, frontVars
  <2>2. d \in Requests
    BY <2>1 DEF Requests
  <2>3. CASE d = hand
    <3>1. Len(fate[d]) = Len(payload[d])
      BY <2>1, <2>2, <2>3, SlotInHand, RequestsAre
    <3> QED
      BY <2>1, <3>1
  <2>4. CASE d # hand
    BY <1>1, <2>1, <2>4 DEF Over, Requests, Waiting
  <2> QED
    BY <2>3, <2>4
<1>6. CASE Fault \/ Crash
  <2>1. /\ UNCHANGED <<payload, told, queue>>
        /\ IF Slot \in Slots THEN Ends("cut") ELSE fate' = fate
    BY <1>6 DEF Fault, Crash, CutShort, Ends, frontVars
  <2>2. d \in Requests
    BY <2>1 DEF Requests
  <2>3. CASE d # hand
    <3>1. Over(d) /\ fate'[d] = fate[d]
      BY <2>1, <2>2, <2>3, FateGrows DEF Over, Requests, Waiting, Ends, Fates
    <3> QED
      BY <1>1, <2>1, <3>1
  <2>4. CASE d = hand /\ Slot \in Slots
    <3>1. /\ Len(fate'[d]) = Len(fate[d]) + 1 /\ fate'[d][Len(fate[d]) + 1] = "cut"
          /\ Len(fate[d]) \in Nat
      BY <2>1, <2>2, <2>4, FateGrows, RequestsAre DEF Ends, Fates
    <3>2. Len(fate[d]) + 1 \in 1..Len(fate'[d])
      BY <3>1
    <3> QED
      BY <3>1, <3>2
  <2>5. CASE d = hand /\ Slot \notin Slots
    <3>1. d # None
      BY <2>2, RequestsAre
    <3>2. Len(fate[d]) = Len(payload[d])
      BY <2>2, <2>5, <3>1, SlotInHand, RequestsAre
    <3> QED
      BY <2>1, <2>5, <3>2
  <2> QED
    BY <2>3, <2>4, <2>5
<1> QED
  BY <1>2, <1>3, <1>4, <1>5, <1>6 DEF Next, Consumer

LEMMA AccountIs ==
  ASSUME Shape, AllAccounted, Through
  PROVE  AcceptedIsAccountedFor
<1> SUFFICES ASSUME NEW x \in Slots, Over(x[1])
             PROVE  \/ x \in rows \cup better
                    \/ Ended(x, {"skipped", "refused", "kept"})
                    \/ Ended(x, {"ignored"}) /\ \E y \in Slots \ {x} : SameGuid(x, y) /\ Handled(y)
                    \/ Handled(x) /\ (OnFile(x) \/ Embed(x).what = None)
                    \/ \E y \in Slots : y[1] = x[1] /\ y[2] <= x[2] /\ Ended(y, {"cut"})
  BY DEF AcceptedIsAccountedFor
<1>1. x[1] \in Requests /\ x[2] \in 1..Len(payload[x[1]]) /\ x[2] \in Nat
  BY SlotParts
<1>2. CASE Handled(x)
  <2>1. Accounted(x)
    BY <1>2 DEF AllAccounted
  <2>2. Ended(x, {"skipped", "refused", "kept", "cut"}) =>
          Ended(x, {"skipped", "refused", "kept"}) \/ Ended(x, {"cut"})
    BY DEF Ended
  <2> QED
    BY <1>1, <1>2, <2>1, <2>2 DEF Accounted, Entered, Resent
<1>3. CASE ~Handled(x)
  <2>1. Len(fate[x[1]]) < x[2] /\ x[2] <= Len(payload[x[1]])
    BY <1>1, <1>3, RequestsAre DEF Handled
  <2>2. PICK i \in 1..Len(fate[x[1]]) : fate[x[1]][i] = "cut"
    BY <1>1, <2>1, RequestsAre DEF Through
  <2>3. <<x[1], i>> \in Slots
    BY <1>1, <2>1, RequestsAre DEF Slots
  <2>4. /\ <<x[1], i>>[1] = x[1] /\ <<x[1], i>>[2] = i /\ i <= x[2]
        /\ Ended(<<x[1], i>>, {"cut"})
    BY <1>1, <2>1, <2>2, RequestsAre DEF Ended, Handled
  <2> QED
    BY <2>3, <2>4
<1> QED
  BY <1>2, <1>3

\* Nothing the API called queued slips through between the list, the loop over
\* the embeds and the processors' transactions: for any requests, any number of
\* embeds in each, any caches and any failures (webhook_consumer.py, webhook.py).
THEOREM NothingSlipsThrough == Spec => []AcceptedIsAccountedFor
<1>1. Init => Shape /\ Tables /\ Met /\ AllAccounted /\ Through
  <2> SUFFICES ASSUME Init PROVE Met /\ AllAccounted /\ Through
    BY ShapeInit, TablesInit
  <2>1. cache = [k \in Kinds |-> <<>>] /\ rows = {} /\ Slots = {} /\ Requests = {}
    BY DEF Init, Slots, Requests
  <2>2. <<>> \in Seq(Guids) /\ DOMAIN <<>> = {}
    OBVIOUS
  <2>3. Met
    BY <2>1, <2>2 DEF Met
  <2> QED
    BY <2>1, <2>3 DEF AllAccounted, Through
<1>2. Shape /\ Tables /\ Met /\ AllAccounted /\ Through /\ [Next]_vars =>
        (Shape /\ Tables /\ Met /\ AllAccounted /\ Through)'
  BY ShapeStep, TablesStep, MetStep, AccountedStep, ThroughStep
<1>3. Shape /\ Tables /\ Met /\ AllAccounted /\ Through => AcceptedIsAccountedFor
  BY AccountIs
<1> QED
  BY <1>1, <1>2, <1>3, PTL DEF Spec

-----------------------------------------------------------------------------
(* The memory of notices.                                                  *)

\* What is hashed: an embed, for some kinds its row, for a slot its addressee.
Contents == Embeds \X ((Nat \X Nat) \cup {<<>>}) \X (Tos \cup {"same"})

SetOf(list) == {list[j] : j \in DOMAIN list}
Dropped(list) == IF Len(list) > HashSize THEN {list[HashSize + 1]} ELSE {}

LEMMA ContentIs ==
  ASSUME Shape, NEW x \in Slots, NEW to \in Tos
  PROVE  Content(x, to) \in Contents
BY SlotParts, RequestsAre DEF Content, Contents, RowId

\* A content's look is that of its embed.
LEMMA ContentKept ==
  ASSUME Shape, [Next]_vars, NEW x \in Slots, NEW to
  PROVE  Content(x, to)' = Content(x, to)
BY SlotsKept DEF Content, RowId

LEMMA Orders ==
  \A a, b \in Nat :
    /\ a <= b + 1 => a <= b \/ a = b + 1
    /\ a <= b => a = b \/ a < b
    /\ a # b => a < b \/ b < a
OBVIOUS

\* create_notification gives up one hash at most and remembers the content.
LEMMA MadeWhat ==
  ASSUME NEW list \in Seq(Contents), Len(list) <= HashSize + 1, NEW c \in Contents
  PROVE  /\ Made(list, c) \in Seq(Contents) /\ Len(Made(list, c)) <= HashSize + 1
         /\ c \in SetOf(Made(list, c))
         /\ SetOf(list) \subseteq SetOf(Trimmed(list)) \cup Dropped(list)
         /\ SetOf(Trimmed(list)) \subseteq SetOf(Made(list, c))
         /\ Hashed(Trimmed(list), c) <=> c \in SetOf(Trimmed(list))
<1> DEFINE t == Trimmed(list)
<1>0. HashSize \in Nat /\ Len(list) \in Nat /\ DOMAIN list = 1..Len(list)
  BY QueueAssumption
<1>1. /\ t \in Seq(Contents) /\ Len(t) <= HashSize
      /\ SetOf(list) \subseteq SetOf(t) \cup Dropped(list)
  <2>1. CASE Len(list) <= HashSize
    BY <1>0, <2>1 DEF Trimmed
  <2>2. CASE Len(list) = HashSize + 1
    <3>1. t = SubSeq(list, 1, HashSize)
      BY <1>0, <2>2 DEF Trimmed
    <3>2. /\ t \in Seq(Contents) /\ Len(t) = HashSize
          /\ \A i \in 1..HashSize : t[i] = list[i]
      BY <1>0, <2>2, <3>1
    <3>3. ASSUME NEW j \in DOMAIN list PROVE list[j] \in SetOf(t) \cup Dropped(list)
      <4>1. CASE j = HashSize + 1
        BY <1>0, <2>2, <4>1 DEF Dropped
      <4>2. CASE j # HashSize + 1
        <5>1. j \in 1..HashSize /\ j \in DOMAIN t
          BY <1>0, <2>2, <3>2, <4>2
        <5> QED
          BY <3>2, <5>1 DEF SetOf
      <4> QED
        BY <4>1, <4>2
    <3>4. SetOf(list) \subseteq SetOf(t) \cup Dropped(list)
      BY <3>3 DEF SetOf
    <3>5. Len(t) <= HashSize
      <4> HIDE DEF t
      <4> QED
        BY <1>0, <3>2
    <3> HIDE DEF t
    <3> QED
      BY <3>2, <3>4, <3>5
  <2>3. Len(list) <= HashSize \/ Len(list) = HashSize + 1
    <3> DEFINE l == Len(list)
    <3>1. l \in Nat /\ HashSize \in Nat /\ l <= HashSize + 1
      BY <1>0
    <3> HIDE DEF l
    <3>2. l <= HashSize \/ l = HashSize + 1
      BY <3>1, Orders
    <3> QED
      BY <3>2 DEF l
  <2> HIDE DEF t
  <2> QED
    BY <2>1, <2>2, <2>3
<1>2. Hashed(t, c) <=> c \in SetOf(t)
  BY DEF Hashed, SetOf
<1>3. Made(list, c) = IF Hashed(t, c) THEN t ELSE Append(t, c)
  BY DEF Made
<1> HIDE DEF t
<1>4. CASE Hashed(t, c)
  BY <1>0, <1>1, <1>2, <1>3, <1>4 DEF t
<1>5. CASE ~Hashed(t, c)
  <2>1. /\ Append(t, c) \in Seq(Contents) /\ Len(Append(t, c)) = Len(t) + 1
        /\ Append(t, c)[Len(t) + 1] = c
        /\ \A i \in 1..Len(t) : Append(t, c)[i] = t[i]
        /\ Len(t) \in Nat
    BY <1>1, AppendProperties
  <2>2. DOMAIN t = 1..Len(t) /\ DOMAIN Append(t, c) = 1..(Len(t) + 1)
    BY <1>1, <2>1
  <2>3. c \in SetOf(Append(t, c)) /\ SetOf(t) \subseteq SetOf(Append(t, c))
    BY <2>1, <2>2 DEF SetOf
  <2> QED
    BY <1>0, <1>1, <1>2, <1>3, <1>5, <2>1, <2>3 DEF t
<1> QED
  BY <1>4, <1>5

\* The notices of one embed are three at most.
LEMMA NoticesAre ==
  ASSUME NEW x, NEW tos \in Notices(x)
  PROVE  /\ tos \in Seq(Tos) /\ Len(tos) \in 1..3 /\ DOMAIN tos = 1..Len(tos)
         /\ \A j, k \in DOMAIN tos : tos[j] = tos[k] => j = k
<1>1. tos \in {<<"group">>, <<"dm">>, <<"dm", "group">>, <<"group", "dm">>,
               <<"group", "milestone">>, <<"group", "milestone", "dm">>}
  BY DEF Notices, DropNotices, CaNotices, PetNotices, QuestNotices, PbNotices, ClogNotices,
     ExperienceNotices
<1>2. CASE tos = <<"group">>
  BY <1>2 DEF Tos
<1>7. CASE tos = <<"dm">>
  BY <1>7 DEF Tos
<1>3. CASE tos = <<"dm", "group">>
  BY <1>3 DEF Tos
<1>4. CASE tos = <<"group", "dm">>
  BY <1>4 DEF Tos
<1>5. CASE tos = <<"group", "milestone">>
  BY <1>5 DEF Tos
<1>6. CASE tos = <<"group", "milestone", "dm">>
  BY <1>6 DEF Tos
<1> QED
  BY <1>1, <1>2, <1>3, <1>4, <1>5, <1>6, <1>7

\* The memory is what it is defined to be.
LEMMA MemoryIs ==
  ASSUME NEW x, NEW tos \in Seq(Tos), Len(tos) \in 1..3
  PROVE  Memory(x, tos) = [k \in 0..Len(tos) |->
           IF k = 0 THEN hashes ELSE Made(Memory(x, tos)[k - 1], Content(x, tos[k]))]
<1>0. \A k \in 0..Len(tos) : k = 0 \/ k = 1 \/ k = 2 \/ k = 3
  <2>1. ASSUME NEW n \in 1..3, NEW k \in 0..n PROVE k = 0 \/ k = 1 \/ k = 2 \/ k = 3
    OBVIOUS
  <2> QED
    BY <2>1
<1> DEFINE Step(m) == [k \in 0..Len(tos) |->
             IF k = 0 THEN hashes ELSE Made(m[k - 1], Content(x, tos[k]))]
           m1 == Made(hashes, Content(x, tos[1]))
           m2 == Made(m1, Content(x, tos[2]))
           m3 == Made(m2, Content(x, tos[3]))
           mem == [k \in 0..Len(tos) |->
             IF k = 0 THEN hashes ELSE IF k = 1 THEN m1 ELSE IF k = 2 THEN m2 ELSE m3]
<1>1. mem = Step(mem)
  <2>1. \A k \in 0..Len(tos) :
          mem[k] = IF k = 0 THEN hashes ELSE Made(mem[k - 1], Content(x, tos[k]))
    <3> SUFFICES ASSUME NEW k \in 0..Len(tos), k # 0
                 PROVE  mem[k] = Made(mem[k - 1], Content(x, tos[k]))
      OBVIOUS
    <3>1. k = 1 \/ k = 2 \/ k = 3
      BY <1>0
    <3>2. CASE k = 1
      <4>1. mem[1] = m1 /\ mem[0] = hashes
        BY <3>2
      <4> QED
        BY <3>2, <4>1
    <3>3. CASE k = 2
      <4>1. mem[2] = m2 /\ mem[1] = m1
        BY <3>3
      <4> QED
        BY <3>3, <4>1
    <3>4. CASE k = 3
      <4>1. mem[3] = m3 /\ mem[2] = m2
        BY <3>4
      <4> QED
        BY <3>4, <4>1
    <3> QED
      BY <3>1, <3>2, <3>3, <3>4
  <2> QED
    BY <2>1
<1>2. Memory(x, tos) = CHOOSE m : m = Step(m)
  BY DEF Memory
<1> HIDE DEF mem
<1>3. (CHOOSE m : m = Step(m)) = Step(CHOOSE m : m = Step(m))
  BY <1>1
<1> QED
  BY <1>2, <1>3

\* Every notice that was made is remembered or was forgotten, and one made
\* again was forgotten.
ToldInv ==
  /\ hashes \in Seq(Contents) /\ Len(hashes) <= HashSize + 1
  /\ notices \subseteq Slots \X Tos
  /\ buffer # {} => at = "announced" /\ buffer \subseteq {Slot} \X Tos
  /\ \A n \in notices \cup buffer : Content(n[1], n[2]) \in SetOf(hashes) \cup forgot
  /\ \A n1, n2 \in notices \cup buffer :
       n1 # n2 /\ Content(n1[1], n1[2]) = Content(n2[1], n2[2]) =>
         Content(n1[1], n1[2]) \in forgot

\* A step makes notices, forgets all, or makes none and forgets nothing.
LEMMA ToldMoves ==
  ASSUME Shape, ToldInv, [Next]_vars
  PROVE  \/ Announce
         \/ /\ hashes' = <<>> /\ forgot' = forgot \cup SetOf(hashes)
            /\ notices' = notices /\ buffer' = {}
         \/ /\ UNCHANGED <<hashes, forgot>> /\ notices' \subseteq notices \cup buffer
            /\ \/ buffer' = {}
               \/ buffer' = buffer /\ at' = at /\ Slot' = Slot
<1>1. at # "announced" => buffer = {}
  BY DEF ToldInv
<1>2. CASE \E p \in Payloads : Accept(p) \/ PushFails(p)
  <2>1. /\ \E p \in Payloads : \E answer \in {"queued", "error"} : Arrives(p, answer)
        /\ UNCHANGED <<hand, at, buffer, hashes, forgot, notices>>
    BY <1>2, ArrivalIs DEF openVars, memoryVars, tableVars
  <2> QED
    BY <2>1, ArrivesShape DEF Slot, Shape
<1>3. CASE Take \/ Release
  <2>1. hand = None => at # "announced"
    BY SlotInHand DEF Shape
  <2> QED
    BY <1>1, <1>3, <2>1 DEF Take, Release, LetGo, openVars, memoryVars, tableVars
<1>4. CASE Skip \/ Ignore \/ Refuse \/ PbNotBeaten \/ OnceOnFile
  BY <1>1, <1>4 DEF Skip, Ignore, Refuse, PbNotBeaten, OnceOnFile, InItem, Enter, Remember,
     Admitted, openVars, memoryVars, tableVars
<1>5. CASE EnterFlushed \/ EnterPb \/ EnterOnce \/ EnterCa \/ EnterExperience
  <2>1. buffer' = buffer /\ notices' = notices /\ at = "next"
    BY <1>5 DEF EnterFlushed, EnterPb, EnterOnce, EnterCa, EnterExperience, InItem, Enter
  <2>2. UNCHANGED <<hashes, forgot>>
    BY <1>5 DEF EnterFlushed, EnterPb, EnterOnce, EnterCa, EnterExperience, Admitted, Remember,
       memoryVars
  <2> QED
    BY <1>1, <2>1, <2>2
<1>6. CASE Credit
  BY <1>1, <1>6 DEF Credit, openVars, memoryVars, tableVars
<1>7. CASE StayQuiet \/ Commit
  BY <1>1, <1>7 DEF StayQuiet, Commit, memoryVars
<1>8. CASE Fault
  BY <1>8 DEF Fault, LetGo, Remember, memoryVars, tableVars
<1>9. CASE FaultKept
  BY <1>9 DEF FaultKept, memoryVars
<1>10. CASE Crash
  BY <1>10 DEF Crash, LetGo, SetOf, tableVars
<1>11. CASE (\E x \in Slots : Hour(x)) \/ UNCHANGED vars
  BY <1>11 DEF Hour, vars, frontVars, openVars, memoryVars, tableVars, Slot
<1>12. CASE CreditDrop
  BY <1>12 DEF CreditDrop, memoryVars, Slot
<1> QED
  BY <1>2, <1>3, <1>4, <1>5, <1>6, <1>7, <1>8, <1>9, <1>10, <1>11, <1>12
     DEF Next, Consumer, Processors

\* The notices of an embed, made one after the other.
LEMMA AnnounceWhat ==
  ASSUME Shape, ToldInv, Announce, NEW s \in Slots, s = Slot
  PROVE  /\ hashes' \in Seq(Contents) /\ Len(hashes') <= HashSize + 1
         /\ buffer' \subseteq {s} \X Tos /\ notices' = notices
         /\ forgot \subseteq forgot' /\ SetOf(hashes) \subseteq SetOf(hashes') \cup forgot'
         /\ \A n \in buffer' : Content(s, n[2]) \in SetOf(hashes') \cup forgot'
         /\ \A n \in buffer' : Content(s, n[2]) \in SetOf(hashes) => Content(s, n[2]) \in forgot'
         /\ \A n1, n2 \in buffer' : n1 # n2 /\ Content(s, n1[2]) = Content(s, n2[2]) =>
              Content(s, n1[2]) \in forgot'
<1>1. PICK tos \in Notices(s) :
        LET mem == Memory(s, tos)
            made == {<<s, tos[k]>> : k \in
              {j \in DOMAIN tos : ~Hashed(Trimmed(mem[j - 1]), Content(s, tos[j]))}}
        IN  /\ hashes' = mem[Len(tos)]
            /\ buffer' = made
            /\ forgot' = forgot \cup
                 {mem[k - 1][HashSize + 1] : k \in {j \in 1..Len(tos) : Len(mem[j - 1]) > HashSize}}
  BY DEF Announce
<1> DEFINE mem == Memory(s, tos)
           c(k) == Content(s, tos[k])
           n == Len(tos)
           Clean(list) == list \in Seq(Contents) /\ Len(list) <= HashSize + 1
<1>2. /\ tos \in Seq(Tos) /\ n \in 1..3 /\ DOMAIN tos = 1..n
      /\ \A k \in 1..n : tos[k] \in Tos /\ c(k) \in Contents
  BY NoticesAre, ContentIs
<1>3. /\ hashes' = mem[n]
      /\ buffer' = {<<s, tos[k]>> : k \in {j \in 1..n : ~Hashed(Trimmed(mem[j - 1]), c(j))}}
      /\ forgot' = forgot \cup {mem[k - 1][HashSize + 1] : k \in {j \in 1..n : Len(mem[j - 1]) > HashSize}}
      /\ notices' = notices
  BY <1>1, <1>2 DEF Announce
<1>4. mem = [k \in 0..n |-> IF k = 0 THEN hashes ELSE Made(mem[k - 1], c(k))]
  BY <1>2, MemoryIs
<1>5. mem[0] = hashes /\ \A k \in 1..n : mem[k] = Made(mem[k - 1], c(k))
  <2> HIDE DEF mem, c
  <2>1. 0 \in 0..n /\ \A k \in 1..n : k \in 0..n /\ k # 0
    BY <1>2
  <2> QED
    BY <1>4, <2>1
<1>6. \A k \in 1..n : k = 1 \/ (k = 2 /\ 1 \in 1..n) \/ (k = 3 /\ 1 \in 1..n /\ 2 \in 1..n)
  <2>1. ASSUME NEW m \in 1..3, NEW k \in 1..m
        PROVE  k = 1 \/ (k = 2 /\ 1 \in 1..m) \/ (k = 3 /\ 1 \in 1..m /\ 2 \in 1..m)
    OBVIOUS
  <2> QED
    BY <1>2, <2>1
<1> HIDE DEF mem, c, n
<1>7. ASSUME NEW k \in 1..n, Clean(mem[k - 1])
      PROVE  /\ Clean(mem[k])
             /\ c(k) \in SetOf(mem[k])
             /\ SetOf(mem[k - 1]) \subseteq SetOf(Trimmed(mem[k - 1])) \cup forgot'
             /\ SetOf(Trimmed(mem[k - 1])) \subseteq SetOf(mem[k])
             /\ Hashed(Trimmed(mem[k - 1]), c(k)) <=> c(k) \in SetOf(Trimmed(mem[k - 1]))
  <2>1. c(k) \in Contents /\ mem[k] = Made(mem[k - 1], c(k))
    BY <1>2, <1>5
  <2>2. Dropped(mem[k - 1]) \subseteq forgot'
    BY <1>3 DEF Dropped
  <2> QED
    BY <1>7, <2>1, <2>2, MadeWhat
<1>8. Clean(mem[0])
  BY <1>5 DEF ToldInv
<1>9. 1 - 1 = 0 /\ 2 - 1 = 1 /\ 3 - 1 = 2
  OBVIOUS
<1>10. \A k \in 1..n : Clean(mem[k]) /\ Clean(mem[k - 1])
  <2> HIDE DEF Clean
  <2>1. 1 \in 1..n => Clean(mem[1])
    BY <1>7, <1>8, <1>9
  <2>2. 1 \in 1..n /\ 2 \in 1..n => Clean(mem[2])
    BY <1>7, <1>9, <2>1
  <2>3. 1 \in 1..n /\ 2 \in 1..n /\ 3 \in 1..n => Clean(mem[3])
    BY <1>7, <1>9, <2>2
  <2> QED
    BY <1>6, <1>8, <1>9, <2>1, <2>2, <2>3
<1> DEFINE Kept(j) == SetOf(mem[j]) \cup forgot'
<1>11. \A k \in 1..n : /\ c(k) \in SetOf(mem[k]) /\ SetOf(mem[k - 1]) \subseteq Kept(k)
                       /\ Hashed(Trimmed(mem[k - 1]), c(k)) <=> c(k) \in SetOf(Trimmed(mem[k - 1]))
                       /\ SetOf(mem[k - 1]) \subseteq SetOf(Trimmed(mem[k - 1])) \cup forgot'
  BY <1>7, <1>10
\* What one of the memories holds, a later one holds, or it was forgotten.
<1>12. \A k \in 1..n : SetOf(mem[0]) \subseteq Kept(k) /\ SetOf(mem[0]) \subseteq Kept(k - 1)
  BY <1>6, <1>9, <1>11
<1>13. \A j, k \in 1..n : j < k => SetOf(mem[j]) \subseteq Kept(k - 1) /\ SetOf(mem[j]) \subseteq Kept(k)
  BY <1>6, <1>9, <1>11
<1>14. n \in 1..n /\ \A k \in 1..n : k = n \/ k < n
  <2>1. n \in Nat /\ 1 <= n
    BY <1>2
  <2>2. n \in 1..n /\ \A k \in 1..n : k \in Nat /\ k <= n
    BY <2>1
  <2> QED
    BY <2>1, <2>2, Orders
<1>15. \A k \in 1..n : c(k) \in Kept(n)
  BY <1>11, <1>13, <1>14
<1>16. ASSUME NEW k \in 1..n, ~Hashed(Trimmed(mem[k - 1]), c(k)), c(k) \in Kept(k - 1)
       PROVE  c(k) \in forgot'
  BY <1>11, <1>16
<1>17. \A b \in buffer' : \E k \in 1..n : /\ b = <<s, tos[k]>> /\ tos[k] \in Tos
                                          /\ Content(s, b[2]) = c(k)
                                          /\ ~Hashed(Trimmed(mem[k - 1]), c(k))
  BY <1>2, <1>3 DEF c
<1>18. \A b \in buffer' : /\ b \in {s} \X Tos /\ Content(s, b[2]) \in SetOf(hashes') \cup forgot'
                          /\ Content(s, b[2]) \in SetOf(hashes) => Content(s, b[2]) \in forgot'
  BY <1>3, <1>5, <1>12, <1>15, <1>16, <1>17
<1>19. ASSUME NEW b1 \in buffer', NEW b2 \in buffer', b1 # b2, Content(s, b1[2]) = Content(s, b2[2])
       PROVE  Content(s, b1[2]) \in forgot'
  <2>1. PICK j \in 1..n : /\ b1 = <<s, tos[j]>> /\ Content(s, b1[2]) = c(j)
                          /\ ~Hashed(Trimmed(mem[j - 1]), c(j))
    BY <1>17
  <2>2. PICK k \in 1..n : /\ b2 = <<s, tos[k]>> /\ Content(s, b2[2]) = c(k)
                          /\ ~Hashed(Trimmed(mem[k - 1]), c(k))
    BY <1>17
  <2>3. j # k /\ c(j) = c(k)
    BY <1>19, <2>1, <2>2
  <2>6. j < k \/ k < j
    <3>1. j \in Nat /\ k \in Nat
      BY <1>2
    <3> QED
      BY <2>3, <3>1, Orders
  <2>4. CASE j < k
    BY <1>11, <1>13, <1>16, <2>1, <2>2, <2>3, <2>4
  <2>5. CASE k < j
    BY <1>11, <1>13, <1>16, <2>1, <2>2, <2>3, <2>5
  <2> QED
    BY <2>4, <2>5, <2>6
<1>20. /\ hashes' \in Seq(Contents) /\ Len(hashes') <= HashSize + 1
       /\ SetOf(hashes) \subseteq SetOf(hashes') \cup forgot' /\ forgot \subseteq forgot'
  BY <1>3, <1>5, <1>10, <1>12, <1>14
<1> QED
  BY <1>3, <1>18, <1>19, <1>20

LEMMA ToldStep ==
  ASSUME Shape, ToldInv, [Next]_vars
  PROVE  ToldInv'
<1>1. /\ Slots \subseteq Slots'
      /\ \A x \in Slots : \A to : Content(x, to)' = Content(x, to)
  BY SlotsKept, ContentKept
<1>2. /\ notices \cup buffer \subseteq Slots \X Tos
      /\ \A n \in notices \cup buffer : n[1] \in Slots /\ Content(n[1], n[2])' = Content(n[1], n[2])
  <2>1. notices \cup buffer \subseteq Slots \X Tos
    BY DEF ToldInv, Shape
  <2>2. \A n \in Slots \X Tos : n[1] \in Slots
    OBVIOUS
  <2> QED
    BY <1>1, <2>1, <2>2
<1>3. CASE Announce
  <2>1. PICK s : s = Slot
    OBVIOUS
  <2>2. at = "credited" /\ at' = "announced" /\ UNCHANGED <<hand, fate>>
    BY <1>3 DEF Announce
  <2>3. s \in Slots /\ Slot' = s /\ buffer = {}
    BY <2>1, <2>2 DEF Shape, Slot, ToldInv
  <2>4. /\ hashes' \in Seq(Contents) /\ Len(hashes') <= HashSize + 1
        /\ buffer' \subseteq {s} \X Tos /\ notices' = notices
        /\ forgot \subseteq forgot' /\ SetOf(hashes) \subseteq SetOf(hashes') \cup forgot'
        /\ \A n \in buffer' : Content(s, n[2]) \in SetOf(hashes') \cup forgot'
        /\ \A n \in buffer' : Content(s, n[2]) \in SetOf(hashes) => Content(s, n[2]) \in forgot'
        /\ \A n1, n2 \in buffer' : n1 # n2 /\ Content(s, n1[2]) = Content(s, n2[2]) =>
             Content(s, n1[2]) \in forgot'
    BY <1>3, <2>1, <2>3, AnnounceWhat
  <2>5. \A n \in buffer' : n[1] = s /\ Content(n[1], n[2])' = Content(s, n[2])
    BY <1>1, <2>3, <2>4
  <2>6. \A n \in notices : /\ Content(n[1], n[2])' = Content(n[1], n[2])
                           /\ Content(n[1], n[2]) \in SetOf(hashes) \cup forgot
    BY <1>2 DEF ToldInv
  <2>7. \A n \in notices' \cup buffer' : Content(n[1], n[2])' \in SetOf(hashes') \cup forgot'
    BY <2>4, <2>5, <2>6
  <2>8. ASSUME NEW n1 \in notices' \cup buffer', NEW n2 \in notices' \cup buffer', n1 # n2,
               Content(n1[1], n1[2])' = Content(n2[1], n2[2])'
        PROVE  Content(n1[1], n1[2])' \in forgot'
    <3>1. CASE n1 \in notices /\ n2 \in notices
      <4>1. Content(n1[1], n1[2]) = Content(n2[1], n2[2])
        BY <2>6, <2>8, <3>1
      <4>2. Content(n1[1], n1[2]) \in forgot
        BY <2>8, <3>1, <4>1 DEF ToldInv
      <4> QED
        BY <2>4, <2>6, <3>1, <4>2
    <3>2. CASE n1 \in buffer' /\ n2 \in notices
      BY <2>4, <2>5, <2>6, <2>8, <3>2
    <3>3. CASE n1 \in notices /\ n2 \in buffer'
      BY <2>4, <2>5, <2>6, <2>8, <3>3
    <3>4. CASE n1 \in buffer' /\ n2 \in buffer'
      BY <2>4, <2>5, <2>8, <3>4
    <3> QED
      BY <2>4, <2>8, <3>1, <3>2, <3>3, <3>4
  <2>9. notices' \subseteq Slots' \X Tos
    BY <1>1, <1>2, <2>4
  <2>10. buffer' # {} => at' = "announced" /\ buffer' \subseteq {Slot'} \X Tos
    BY <2>2, <2>3, <2>4
  <2> QED
    BY <2>4, <2>7, <2>8, <2>9, <2>10 DEF ToldInv, SetOf
<1>4. ASSUME forgot \subseteq forgot', SetOf(hashes) \subseteq SetOf(hashes)' \cup forgot',
             hashes' \in Seq(Contents), Len(hashes') <= HashSize + 1,
             notices' \cup buffer' \subseteq notices \cup buffer,
             buffer' = {} \/ (buffer' = buffer /\ at' = at /\ Slot' = Slot)
      PROVE  ToldInv'
  <2>1. \A n \in notices' \cup buffer' : Content(n[1], n[2])' = Content(n[1], n[2])
    BY <1>2, <1>4
  <2>2. \A n \in notices' \cup buffer' : Content(n[1], n[2])' \in SetOf(hashes)' \cup forgot'
    BY <1>4, <2>1 DEF ToldInv
  <2>3. \A n1, n2 \in notices' \cup buffer' :
          n1 # n2 /\ Content(n1[1], n1[2])' = Content(n2[1], n2[2])' =>
            Content(n1[1], n1[2])' \in forgot'
    BY <1>4, <2>1 DEF ToldInv
  <2>4. notices' \subseteq Slots' \X Tos
    BY <1>1, <1>2, <1>4
  <2>5. buffer' # {} => at' = "announced" /\ buffer' \subseteq {Slot'} \X Tos
    BY <1>4 DEF ToldInv
  <2> QED
    BY <1>4, <2>2, <2>3, <2>4, <2>5 DEF ToldInv
<1>5. CASE /\ hashes' = <<>> /\ forgot' = forgot \cup SetOf(hashes)
           /\ notices' = notices /\ buffer' = {}
  <2>1. <<>> \in Seq(Contents) /\ Len(<<>>) <= HashSize + 1
    BY QueueAssumption
  <2> QED
    BY <1>4, <1>5, <2>1
<1>6. CASE /\ UNCHANGED <<hashes, forgot>> /\ notices' \subseteq notices \cup buffer
           /\ \/ buffer' = {}
              \/ buffer' = buffer /\ at' = at /\ Slot' = Slot
  <2>1. SetOf(hashes)' = SetOf(hashes)
    BY <1>6 DEF SetOf
  <2>2. hashes \in Seq(Contents) /\ Len(hashes) <= HashSize + 1
    BY DEF ToldInv
  <2> QED
    BY <1>4, <1>6, <2>1, <2>2
<1> QED
  BY <1>3, <1>5, <1>6, ToldMoves

LEMMA ToldInit == Init => ToldInv
<1> SUFFICES ASSUME Init PROVE ToldInv
  OBVIOUS
<1>1. hashes = <<>> /\ notices = {} /\ buffer = {}
  BY DEF Init
<1>2. <<>> \in Seq(Contents) /\ Len(<<>>) <= HashSize + 1
  BY QueueAssumption
<1> QED
  BY <1>1, <1>2 DEF ToldInv

\* create_notification remembers contents and not addressees, forgets its newest
\* and forgets all with the process: for any size of its list a content is
\* queued twice only when it was forgotten (create_notification in common.py).
THEOREM NoticesAreNotRepeated == Spec => []ToldOnce
<1>1. Init => Shape /\ ToldInv
  BY ShapeInit, ToldInit
<1>2. Shape /\ ToldInv /\ [Next]_vars => (Shape /\ ToldInv)'
  BY ShapeStep, ToldStep
<1>3. ToldInv => ToldOnce
  BY DEF ToldInv, ToldOnce
<1> QED
  BY <1>1, <1>2, <1>3, PTL DEF Spec

-----------------------------------------------------------------------------
(* Types.                                                                  *)

CachesFit == \A k \in Kinds : Len(cache[k]) <= CacheSize

LEMMA CachesStep ==
  ASSUME Shape, Met, CachesFit, [Next]_vars
  PROVE  CachesFit'
<1>1. CASE cache' = cache
  BY <1>1 DEF CachesFit
<1>2. CASE cache' = [k \in Kinds |-> <<>>]
  BY <1>2, QueueAssumption DEF CachesFit
<1>3. CASE Slot \in Slots /\ Remember(Slot)
  <2> DEFINE k0 == Kind(Slot)
             old == cache[k0]
             app == Append(old, Embed(Slot).guid)
             new == IF Len(old) < CacheSize THEN app ELSE Tail(app)
  <2>1. k0 \in Kinds /\ Embed(Slot).guid \in Guids
    <3>1. \A x \in Slots : Kind(x) \in Kinds /\ Embed(x).guid \in Guids
      BY SlotParts, QueueAssumption DEF Guids, Kind
    <3> QED
      BY <1>3, <3>1
  <2>2. old \in Seq(Guids) /\ Len(old) \in Nat /\ Len(old) <= CacheSize /\ CacheSize \in Nat
    BY <2>1, QueueAssumption DEF Met, CachesFit
  <2>3. app \in Seq(Guids) /\ Len(app) = Len(old) + 1
    BY <2>1, <2>2, AppendProperties
  <2>4. Len(Tail(app)) = Len(old)
    <3> HIDE DEF app, old
    <3>1. app # <<>>
      BY <2>2, <2>3
    <3> QED
      BY <2>2, <2>3, <3>1, HeadTailProperties
  <2>5. Len(new) <= CacheSize
    <3> HIDE DEF app, old
    <3> QED
      BY <2>2, <2>3, <2>4
  <2>6. \A k \in Kinds : cache'[k] = IF k = k0 THEN new ELSE cache[k]
    BY <1>3, <2>1 DEF Met, Remember
  <2> HIDE DEF new, k0
  <2> QED
    BY <2>5, <2>6 DEF CachesFit
<1> QED
  BY <1>1, <1>2, <1>3, CacheMoves

\* The types of the queue mode's state: a stage belongs to an embed, the open
\* transaction and its notices to the one in hand, and the memories keep their
\* sizes (webhook_consumer.py, common.py).
THEOREM QueueTypes == Spec => []TypeOK
<1>1. Init => Shape /\ Tables /\ Met /\ ToldInv /\ CachesFit
  <2> SUFFICES ASSUME Init PROVE Met /\ CachesFit
    BY ShapeInit, TablesInit, ToldInit
  <2>1. cache = [k \in Kinds |-> <<>>] /\ rows = {}
    BY DEF Init
  <2>2. <<>> \in Seq(Guids) /\ DOMAIN <<>> = {} /\ Len(<<>>) <= CacheSize
    BY QueueAssumption
  <2> QED
    BY <2>1, <2>2 DEF Met, CachesFit
<1>2. Shape /\ Tables /\ Met /\ ToldInv /\ CachesFit /\ [Next]_vars =>
        (Shape /\ Tables /\ Met /\ ToldInv /\ CachesFit)'
  BY ShapeStep, TablesStep, MetStep, ToldStep, CachesStep
<1>3. Shape /\ Tables /\ Met /\ ToldInv /\ CachesFit => TypeOK
  <2> SUFFICES ASSUME Shape, Tables, Met, ToldInv, CachesFit PROVE TypeOK
    OBVIOUS
  <2>1. flushed \subseteq {Slot} /\ buffer \subseteq {Slot} \X Tos
    BY DEF Tables, ToldInv
  <2>2. /\ \A k \in Kinds : Len(cache[k]) <= CacheSize
        /\ Len(hashes) <= HashSize + 1 /\ notices \subseteq Slots \X Tos
    BY DEF CachesFit, ToldInv
  <2>3. rows \cup better \cup credits \subseteq Slots /\ recent \subseteq rows
    BY DEF Tables
  <2> QED
    BY <2>1, <2>2, <2>3 DEF Shape, TypeOK
<1> QED
  BY <1>1, <1>2, <1>3, PTL DEF Spec
=============================================================================
