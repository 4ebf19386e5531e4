----------------------- MODULE SubmissionIntakeProofs -----------------------
(* Theorems of SubmissionIntake: what its three ways of recognising a guid   *)
(* are good for, for any number of deliveries, processes and guids.          *)
EXTENDS SubmissionIntake, FiniteSetTheorems, TLAPS

\* What a process remembers and how the history tells it: the list holds the
\* last ids, CacheSize of them or all there are.
ListIsTail(list, log) ==
  /\ list \in Seq(Guids)
  /\ log \in Seq(Guids)
  /\ Len(list) = CacheSize \/ Len(list) = Len(log)
  /\ Len(list) <= CacheSize
  /\ Len(list) <= Len(log)
  /\ \A k \in 1..Len(list) : list[k] = log[Len(log) - Len(list) + k]

Spaced(log) ==
  \A j \in DOMAIN log : \A i \in 1..(j - 1) : log[i] = log[j] => j - i > CacheSize

MemoryInv ==
  /\ proc \in [Sends -> Procs]
  /\ guid \in [Sends -> Guids]
  /\ cache \in [Procs -> Seq(Guids)]
  /\ remembered \in [Procs -> Seq(Guids)]
  /\ \A p \in Procs : ListIsTail(cache[p], remembered[p]) /\ Spaced(remembered[p])

\* A list that takes one more guid is still the end of the history.
LEMMA PushTail ==
  ASSUME NEW list, NEW log, ListIsTail(list, log), NEW g \in Guids
  PROVE  ListIsTail(Pushed(list, g), Append(log, g))
<1> USE IntakeAssumption
<1>1. CASE Len(list) < CacheSize
  <2>1. Pushed(list, g) = Append(list, g)
    BY <1>1 DEF Pushed
  <2>2. Len(Append(list, g)) = Len(list) + 1 /\ Len(Append(log, g)) = Len(log) + 1
    BY DEF ListIsTail
  <2>3. Len(list) = Len(log) /\ Len(list) \in Nat
    BY <1>1 DEF ListIsTail
  <2>4. Append(list, g) \in Seq(Guids) /\ Append(log, g) \in Seq(Guids)
    BY DEF ListIsTail
  <2>5. \A k \in 1..(Len(list) + 1) : Append(list, g)[k] = Append(log, g)[k]
    BY <2>3 DEF ListIsTail
  <2>6. ASSUME NEW k \in 1..Len(Append(list, g))
        PROVE  Append(list, g)[k] =
                 Append(log, g)[Len(Append(log, g)) - Len(Append(list, g)) + k]
    <3>1. Len(Append(log, g)) - Len(Append(list, g)) + k = k
      BY <2>2, <2>3
    <3> QED
      BY <3>1, <2>2, <2>5
  <2> QED
    BY <1>1, <2>1, <2>2, <2>3, <2>4, <2>6 DEF ListIsTail
<1>2. CASE ~(Len(list) < CacheSize)
  <2>0. Len(list) = CacheSize /\ Len(list) \in Nat
    BY <1>2 DEF ListIsTail
  <2>1. Pushed(list, g) = Tail(Append(list, g))
    BY <1>2 DEF Pushed
  <2>2. /\ Len(Append(list, g)) = Len(list) + 1 /\ Append(list, g) \in Seq(Guids)
        /\ Len(Append(log, g)) = Len(log) + 1 /\ Append(log, g) \in Seq(Guids)
    BY DEF ListIsTail
  <2>3. Len(Tail(Append(list, g))) = Len(list)
    BY <2>0, <2>2
  <2>4. Tail(Append(list, g)) \in Seq(Guids)
    BY <2>0, <2>2
  <2>5. ASSUME NEW k \in 1..Len(list)
        PROVE  Tail(Append(list, g))[k] = Append(log, g)[(Len(log) + 1) - Len(list) + k]
    <3>1. Tail(Append(list, g))[k] = Append(list, g)[k + 1]
      BY <2>0, <2>2
    <3>2. CASE k = Len(list)
      <4>1. (Len(log) + 1) - Len(list) + k = Len(log) + 1
        BY <3>2, <2>0 DEF ListIsTail
      <4> QED
        BY <3>1, <3>2, <4>1, <2>0 DEF ListIsTail
    <3>3. CASE k # Len(list)
      <4>1. k + 1 \in 1..Len(list)
        BY <3>3, <2>0
      <4>2. list[k + 1] = log[Len(log) - Len(list) + (k + 1)]
        BY <4>1 DEF ListIsTail
      <4>3. Len(log) - Len(list) + (k + 1) \in 1..Len(log)
        BY <4>1, <2>0 DEF ListIsTail
      <4>4. (Len(log) + 1) - Len(list) + k = Len(log) - Len(list) + (k + 1)
        BY <2>0 DEF ListIsTail
      <4>5. Append(list, g)[k + 1] = list[k + 1]
        BY <4>1 DEF ListIsTail
      <4>6. Append(log, g)[Len(log) - Len(list) + (k + 1)] = log[Len(log) - Len(list) + (k + 1)]
        BY <4>3 DEF ListIsTail
      <4> QED
        BY <3>1, <4>2, <4>4, <4>5, <4>6
    <3> QED
      BY <3>2, <3>3
  <2>6. \A k \in 1..Len(Tail(Append(list, g))) :
          Tail(Append(list, g))[k] =
            Append(log, g)[Len(Append(log, g)) - Len(Tail(Append(list, g))) + k]
    BY <2>2, <2>3, <2>5
  <2>7. Len(list) <= Len(log) /\ Len(log) \in Nat
    BY DEF ListIsTail
  <2>8. /\ Len(Tail(Append(list, g))) = CacheSize
        /\ Len(Tail(Append(list, g))) <= CacheSize
        /\ Len(Tail(Append(list, g))) <= Len(Append(log, g))
    BY <2>0, <2>2, <2>3, <2>7
  <2>9. Append(log, g) \in Seq(Guids)
    BY <2>2
  <2>10. ListIsTail(Tail(Append(list, g)), Append(log, g))
    BY ONLY <2>4, <2>6, <2>8, <2>9 DEF ListIsTail
  <2> QED
    BY <2>1, <2>10
<1> QED
  BY <1>1, <1>2

\* A guid that is not in the list may be added to the history.
LEMMA PushSpaced ==
  ASSUME NEW list, NEW log, ListIsTail(list, log), Spaced(log), NEW g \in Guids,
         ~ \E k \in DOMAIN list : list[k] = g
  PROVE  Spaced(Append(log, g))
<1> USE IntakeAssumption
<1>1. Len(Append(log, g)) = Len(log) + 1 /\ Len(log) \in Nat /\ Len(list) \in Nat
  BY DEF ListIsTail
<1>2. \A i \in 1..Len(log) : Append(log, g)[i] = log[i]
  BY DEF ListIsTail
<1>3. Append(log, g)[Len(log) + 1] = g
  BY DEF ListIsTail
<1>4. ASSUME NEW i \in 1..Len(log), log[i] = g
      PROVE  (Len(log) + 1) - i > CacheSize
  <2>1. ASSUME i > Len(log) - Len(list)
        PROVE  FALSE
    <3>1. PICK k \in 1..Len(list) : i = Len(log) - Len(list) + k
      <4>1. i - (Len(log) - Len(list)) \in 1..Len(list)
        BY <2>1, <1>1
      <4> QED
        BY <4>1, <1>1
    <3>2. list[k] = g
      BY <3>1, <1>4 DEF ListIsTail
    <3>3. k \in DOMAIN list
      BY <3>1 DEF ListIsTail
    <3> QED
      BY <3>2, <3>3
  <2>2. i <= Len(log) - Len(list)
    BY <2>1, <1>1
  <2> QED
    BY <2>2, <1>1 DEF ListIsTail
<1>5. ASSUME NEW j \in DOMAIN Append(log, g), NEW i \in 1..(j - 1),
             Append(log, g)[i] = Append(log, g)[j]
      PROVE  j - i > CacheSize
  <2>1. j \in 1..(Len(log) + 1) /\ i \in 1..Len(log)
    BY <1>1 DEF ListIsTail
  <2>2. CASE j = Len(log) + 1
    BY <2>1, <2>2, <1>2, <1>3, <1>4, <1>5
  <2>3. CASE j # Len(log) + 1
    <3>0. j \in 1..Len(log)
      BY <2>1, <2>3, <1>1
    <3>1. j \in 1..Len(log) /\ j \in DOMAIN log
      BY <3>0 DEF ListIsTail
    <3>2. log[i] = log[j]
      BY <3>1, <2>1, <1>2, <1>5
    <3> QED
      BY <3>1, <3>2 DEF Spaced
  <2> QED
    BY <2>2, <2>3
<1> QED
  BY <1>5 DEF Spaced

\* Remembering a guid that is not known keeps the invariant.
LEMMA RememberStep ==
  ASSUME MemoryInv, NEW s \in Sends, ~Known(s), Remember(s), UNCHANGED given
  PROVE  MemoryInv'
<1>1. proc[s] \in Procs /\ guid[s] \in Guids
  BY DEF MemoryInv
<1>2. /\ cache'[proc[s]] = Pushed(cache[proc[s]], guid[s])
      /\ remembered'[proc[s]] = Append(remembered[proc[s]], guid[s])
  BY <1>1 DEF MemoryInv, Remember
<1>3. \A p \in Procs : p # proc[s] =>
        cache'[p] = cache[p] /\ remembered'[p] = remembered[p]
  BY DEF MemoryInv, Remember
<1>4. ListIsTail(cache'[proc[s]], remembered'[proc[s]]) /\ Spaced(remembered'[proc[s]])
  BY <1>1, <1>2, PushTail, PushSpaced DEF MemoryInv, Known
<1>5. \A p \in Procs : ListIsTail(cache'[p], remembered'[p]) /\ Spaced(remembered'[p])
  BY <1>3, <1>4 DEF MemoryInv
<1>6. proc' = proc /\ guid' = guid
  BY DEF given
<1>7. cache' \in [Procs -> Seq(Guids)] /\ remembered' \in [Procs -> Seq(Guids)]
  <2>1. Pushed(cache[proc[s]], guid[s]) \in Seq(Guids)
    BY <1>2, <1>4 DEF ListIsTail
  <2>2. Append(remembered[proc[s]], guid[s]) \in Seq(Guids)
    BY <1>2, <1>4 DEF ListIsTail
  <2> QED
    BY <2>1, <2>2 DEF MemoryInv, Remember
<1> QED
  BY <1>5, <1>6, <1>7 DEF MemoryInv, ListIsTail, Spaced

\* The lists begin empty.
LEMMA EmptyTail == ListIsTail(<<>>, <<>>) /\ Spaced(<<>>)
  BY IntakeAssumption DEF ListIsTail, Spaced

\* The invariant holds at the start...
LEMMA MemoryInit == Init => MemoryInv
  BY EmptyTail DEF Init, MemoryInv

\* ... and every step keeps it: two actions and a fault remember, a crash
\* forgets.
LEMMA MemoryStep == MemoryInv /\ [Next]_vars => MemoryInv'
<1> SUFFICES ASSUME MemoryInv, [Next]_vars
             PROVE  MemoryInv'
  OBVIOUS
<1>1. ASSUME UNCHANGED memoryVars, UNCHANGED given
      PROVE  MemoryInv'
  BY <1>1 DEF MemoryInv, memoryVars, given, ListIsTail, Spaced
<1>2. ASSUME NEW s \in Sends,
             \/ Arrive(s) \/ Refuse(s) \/ Count(s) \/ JoinGlobal(s) \/ Notify(s)
             \/ Commit(s)
      PROVE  MemoryInv'
  BY <1>1, <1>2 DEF Arrive, Refuse, Count, JoinGlobal, Notify, Commit
<1>3. ASSUME NEW s \in Sends, Ignore(s)
      PROVE  MemoryInv'
  BY <1>1, <1>3, RememberStep DEF Ignore
<1>4. ASSUME NEW s \in Sends, Admit(s)
      PROVE  MemoryInv'
  BY <1>4, RememberStep DEF Admit
<1>5. ASSUME NEW s \in Sends, Fault(s)
      PROVE  MemoryInv'
  BY <1>1, <1>5, RememberStep DEF Fault
<1>6. ASSUME NEW p \in Procs, Crash(p)
      PROVE  MemoryInv'
  <2>1. /\ cache' = [cache EXCEPT ![p] = <<>>]
        /\ remembered' = [remembered EXCEPT ![p] = <<>>]
        /\ proc' = proc /\ guid' = guid
    BY <1>6 DEF Crash, given
  <2>2. \A q \in Procs : ListIsTail(cache'[q], remembered'[q]) /\ Spaced(remembered'[q])
    BY <2>1, EmptyTail DEF MemoryInv
  <2> QED
    BY <2>1, <2>2 DEF MemoryInv, ListIsTail, Spaced
<1>7. ASSUME NEW g \in Guids, Hour(g)
      PROVE  MemoryInv'
  BY <1>1, <1>7 DEF Hour
<1>8. CASE UNCHANGED vars
  BY <1>1, <1>8 DEF vars
<1> QED
  BY <1>2, <1>3, <1>4, <1>5, <1>6, <1>7, <1>8 DEF Next

\* A resend to the same process and a retry of the bot are recognised until
\* the list has taken CacheSize others, for every size of the list.
THEOREM KnownUntilEvicted == Spec => []ReadmittedOnlyAfterEviction
<1>1. MemoryInv => ReadmittedOnlyAfterEviction
  BY DEF MemoryInv, Spaced, ReadmittedOnlyAfterEviction
<1> QED
  BY <1>1, MemoryInit, MemoryStep, PTL DEF Spec

-----------------------------------------------------------------------------
(* Type correctness.                                                       *)

ControlType ==
  /\ proc \in [Sends -> Procs]
  /\ guid \in [Sends -> Guids]
  /\ at \in [Sends -> Places]
  /\ snap \in SUBSET Sends
  /\ tries \in [Sends -> 0..MaxAttempts]
  /\ early \in SUBSET Sends
  /\ answer \in [Sends -> Answers]
  /\ faults \in 0..MaxFaults
  /\ crashes \in 0..MaxCrashes

\* What a place says of the other variables of a delivery.
PlaceOK(s) ==
  /\ s \in early => at[s] \in Counted
  /\ at[s] = "over" <=> answer[s] # "none"

PlacesOK == \A s \in Sends : PlaceOK(s)

\* A delivery that has not arrived has made no attempt.
FreshOK == \A s \in Sends : at[s] = "none" => tries[s] = 0

TableType ==
  /\ rows \in [Guids -> Seq(Sends)]
  /\ recent \in SUBSET Guids
  /\ notices \in [Guids -> Nat]
  /\ wave \in [Guids -> SUBSET Sends]

TotalType ==
  /\ gp \in [Guids -> Nat]
  /\ credits \in [Guids -> Nat]
  /\ missed \in [Guids -> Nat]
  /\ undone \in [Guids -> Nat]

\* Ending a delivery keeps the types of its control state.
LEMMA EndsType ==
  ASSUME ControlType, PlacesOK, NEW s \in Sends, NEW outcome \in Answers,
         outcome # "none", Ends(s, outcome)
  PROVE  /\ at' \in [Sends -> Places]
         /\ answer' \in [Sends -> Answers]
         /\ early' \in SUBSET Sends
         /\ PlacesOK'
<1>1. /\ at' = [at EXCEPT ![s] = "over"]
      /\ answer' = [answer EXCEPT ![s] = outcome]
      /\ early' = early \ {s}
  BY DEF Ends, Goes
<1>2. at' \in [Sends -> Places] /\ answer' \in [Sends -> Answers] /\ early' \in SUBSET Sends
  BY <1>1 DEF ControlType, Places
<1>3. ASSUME NEW t \in Sends
      PROVE  PlaceOK(t)'
  <2>1. CASE t = s
    BY <1>1, <2>1 DEF ControlType, PlaceOK
  <2>2. CASE t # s
    BY <1>1, <2>2 DEF ControlType, PlaceOK, PlacesOK
  <2> QED
    BY <2>1, <2>2
<1> QED
  BY <1>2, <1>3 DEF PlacesOK

\* So does sending a delivery on to a place that is not the end.
LEMMA GoesType ==
  ASSUME ControlType, PlacesOK, NEW s \in Sends, NEW place \in Places,
         place # "over", at[s] # "over", s \in early' => place \in Counted,
         early' \in SUBSET Sends, \A t \in Sends \ {s} : t \in early' => t \in early,
         Goes(s, place), answer' = answer
  PROVE  /\ at' \in [Sends -> Places]
         /\ answer' \in [Sends -> Answers]
         /\ PlacesOK'
<1>1. at' = [at EXCEPT ![s] = place]
  BY DEF Goes
<1>2. at' \in [Sends -> Places]
  BY <1>1 DEF ControlType
<1>3. ASSUME NEW t \in Sends
      PROVE  PlaceOK(t)'
  <2>1. CASE t = s
    BY <1>1, <2>1 DEF ControlType, PlaceOK, PlacesOK
  <2>2. CASE t # s
    BY <1>1, <2>2 DEF ControlType, PlaceOK, PlacesOK
  <2> QED
    BY <2>1, <2>2
<1> QED
  BY <1>2, <1>3 DEF PlacesOK, ControlType

\* No delivery goes back to where it has not arrived.
LEMMA FreshStep ==
  ASSUME ControlType, FreshOK, [Next]_vars
  PROVE  FreshOK'
<1>1. ASSUME NEW s \in Sends, NEW place, place # "none",
             at' = [at EXCEPT ![s] = place],
             \A t \in Sends \ {s} : tries'[t] = tries[t]
      PROVE  FreshOK'
  <2>1. ASSUME NEW t \in Sends, at'[t] = "none"
        PROVE  tries'[t] = 0
    <3>1. t # s /\ at[t] = "none"
      BY <1>1, <2>1 DEF ControlType
    <3> QED
      BY <1>1, <3>1 DEF FreshOK
  <2> QED
    BY <2>1 DEF FreshOK
<1>2. ASSUME NEW s \in Sends, Arrive(s)
      PROVE  FreshOK'
  <2>1. at' = [at EXCEPT ![s] = "open"] /\ \A t \in Sends \ {s} : tries'[t] = tries[t]
    BY <1>2 DEF Arrive, Goes, ControlType
  <2> QED
    BY <1>1, <2>1
<1>3. ASSUME NEW s \in Sends,
             \/ Ignore(s) \/ Refuse(s) \/ Commit(s) \/ Admit(s) \/ Count(s)
             \/ Notify(s) \/ Fault(s)
      PROVE  FreshOK'
  <2>1. tries' = tries
    BY <1>3 DEF Ignore, Refuse, Commit, Admit, Count, Notify, Fault
  <2>2. PICK place \in Places \ {"none"} : at' = [at EXCEPT ![s] = place]
    BY <1>3 DEF Ignore, Refuse, Commit, Admit, Count, Notify, Fault, AfterError,
       Ends, Goes, Places
  <2> QED
    BY <1>1, <2>1, <2>2
<1>4. ASSUME NEW s \in Sends, JoinGlobal(s)
      PROVE  FreshOK'
  BY <1>4 DEF JoinGlobal, FreshOK
<1>5. ASSUME NEW p \in Procs, Crash(p)
      PROVE  FreshOK'
  <2>1. tries' = tries /\ \A t \in Sends : at'[t] \in {"over", at[t]}
    BY <1>5 DEF Crash, ControlType
  <2> QED
    BY <2>1 DEF FreshOK
<1>6. ASSUME NEW g \in Guids, Hour(g)
      PROVE  FreshOK'
  BY <1>6 DEF Hour, FreshOK
<1>7. CASE UNCHANGED vars
  BY <1>7 DEF vars, FreshOK
<1> QED
  BY <1>2, <1>3, <1>4, <1>5, <1>6, <1>7 DEF Next

\* Every step keeps the types of the control state.
LEMMA ControlStep ==
  ASSUME ControlType, PlacesOK, FreshOK, [Next]_vars
  PROVE  ControlType' /\ PlacesOK'
<1> USE IntakeAssumption
<1>1. ASSUME NEW s \in Sends, Arrive(s)
      PROVE  ControlType' /\ PlacesOK'
  <2>1. s \notin early /\ at[s] # "over"
    BY <1>1 DEF Arrive, PlacesOK, PlaceOK, Counted
  <2>2. at' \in [Sends -> Places] /\ answer' \in [Sends -> Answers] /\ PlacesOK'
    BY <1>1, <2>1, GoesType DEF Arrive, Places, ControlType
  <2>3. tries' \in [Sends -> 0..MaxAttempts]
    <3>1. tries[s] \in 0..MaxAttempts /\ tries' = [tries EXCEPT ![s] = tries[s] + 1]
      BY <1>1 DEF Arrive, ControlType
    <3>2. tries[s] = 0 \/ tries[s] < MaxAttempts
      BY <1>1 DEF Arrive, FreshOK
    <3>3. tries[s] + 1 \in 0..MaxAttempts
      BY <3>1, <3>2
    <3> QED
      BY <3>1, <3>3 DEF ControlType
  <2>4. snap' \in SUBSET Sends
    BY <1>1 DEF Arrive, ControlType
  <2> QED
    BY <1>1, <2>2, <2>3, <2>4 DEF Arrive, ControlType, given, faultVars
<1>2. ASSUME NEW s \in Sends, Ignore(s) \/ Refuse(s) \/ Commit(s)
      PROVE  ControlType' /\ PlacesOK'
  <2>1. PICK outcome \in Answers \ {"none"} : Ends(s, outcome)
    BY <1>2 DEF Ignore, Refuse, Commit, Answers
  <2>2. UNCHANGED <<given, snap, tries, faultVars>>
    BY <1>2 DEF Ignore, Refuse, Commit
  <2> QED
    BY <2>1, <2>2, EndsType DEF ControlType, given, faultVars
<1>3. ASSUME NEW s \in Sends, Admit(s) \/ Count(s) \/ Notify(s)
      PROVE  ControlType' /\ PlacesOK'
  <2>1. PICK place \in {"work", "counted", "noticed"} :
          /\ Goes(s, place)
          /\ s \in early => place \in Counted
          /\ at[s] # "over"
    BY <1>3 DEF Admit, Count, Notify, PlacesOK, PlaceOK, Counted
  <2>2. UNCHANGED <<given, snap, tries, early, answer, faultVars>>
    BY <1>3 DEF Admit, Count, Notify
  <2>3. at' \in [Sends -> Places] /\ answer' \in [Sends -> Answers] /\ PlacesOK'
    BY <2>1, <2>2, GoesType DEF Places, ControlType
  <2> QED
    BY <2>2, <2>3 DEF ControlType, given, faultVars
<1>4. ASSUME NEW s \in Sends, JoinGlobal(s)
      PROVE  ControlType' /\ PlacesOK'
  <2>1. /\ at[s] \in Counted
        /\ early' = early \cup {s}
        /\ UNCHANGED <<given, at, snap, tries, answer, faultVars>>
    BY <1>4 DEF JoinGlobal, Counted
  <2> QED
    BY <2>1 DEF ControlType, PlacesOK, PlaceOK, given, faultVars
<1>5. ASSUME NEW s \in Sends, Fault(s)
      PROVE  ControlType' /\ PlacesOK'
  <2>1. /\ UNCHANGED <<given, snap, tries, crashes>>
        /\ faults' \in 0..MaxFaults
        /\ at[s] # "over"
    BY <1>5 DEF Fault, ControlType, InHand, Counted
  <2>2. CASE Ends(s, "error")
    BY <2>1, <2>2, EndsType DEF ControlType, given, Answers
  <2>3. CASE Goes(s, "failed") /\ early' = early \ {s} /\ UNCHANGED answer
    <3>1. at' \in [Sends -> Places] /\ answer' \in [Sends -> Answers] /\ PlacesOK'
      BY <2>1, <2>3, GoesType DEF ControlType, Places
    <3> QED
      BY <2>1, <2>3, <3>1 DEF ControlType, given
  <2> QED
    BY <1>5, <2>2, <2>3 DEF Fault, AfterError
<1>6. ASSUME NEW p \in Procs, Crash(p)
      PROVE  ControlType' /\ PlacesOK'
  <2>1. PICK gone \in SUBSET Sends :
          /\ at' = [s \in Sends |-> IF s \in gone THEN "over" ELSE at[s]]
          /\ answer' = [s \in Sends |-> IF s \in gone THEN "lost" ELSE answer[s]]
          /\ early' = early \ gone
    <3> DEFINE G == {s \in Sends : proc[s] = p /\ (InHand(s) \/ at[s] = "failed")}
    <3>1. G \in SUBSET Sends
      OBVIOUS
    <3> QED
      BY <1>6, <3>1 DEF Crash
  <2>2. UNCHANGED <<given, snap, tries, faults>> /\ crashes' \in 0..MaxCrashes
    BY <1>6 DEF Crash, ControlType
  <2>3. at' \in [Sends -> Places] /\ answer' \in [Sends -> Answers]
    BY <2>1 DEF ControlType, Places, Answers
  <2>4. PlacesOK'
    BY <2>1 DEF ControlType, PlacesOK, PlaceOK
  <2> QED
    BY <2>1, <2>2, <2>3, <2>4 DEF ControlType, given
<1>7. ASSUME NEW g \in Guids, Hour(g)
      PROVE  ControlType' /\ PlacesOK'
  BY <1>7 DEF Hour, ControlType, PlacesOK, PlaceOK, given, faultVars
<1>8. CASE UNCHANGED vars
  BY <1>8 DEF vars, ControlType, PlacesOK, PlaceOK, given, faultVars
<1> QED
  BY <1>1, <1>2, <1>3, <1>4, <1>5, <1>6, <1>7, <1>8 DEF Next

\* The row of s enters the table.
LEMMA StoreRowType ==
  ASSUME ControlType, TableType, NEW s \in Sends, StoreRow(s)
  PROVE  /\ rows' \in [Guids -> Seq(Sends)]
         /\ recent' \in SUBSET Guids
         /\ wave' \in [Guids -> SUBSET Sends]
<1>1. guid[s] \in Guids
  BY DEF ControlType
<1>2. Append(rows[guid[s]], s) \in Seq(Sends)
  BY <1>1 DEF TableType
<1>3. rows' \in [Guids -> Seq(Sends)]
  BY <1>2 DEF StoreRow, TableType
<1>4. recent' \in SUBSET Guids
  BY <1>1 DEF StoreRow, TableType
<1>5. {t \in Sends : InHand(t) /\ guid[t] = guid[s]} \in SUBSET Sends
  OBVIOUS
<1>6. wave' \in [Guids -> SUBSET Sends]
  BY <1>5 DEF StoreRow, TableType
<1> QED
  BY <1>3, <1>4, <1>6

\* What a commit makes visible is well typed.
LEMMA CommitDataType ==
  ASSUME ControlType, TableType, NEW s \in Sends, CommitData(s)
  PROVE  TableType'
<1>1. guid[s] \in Guids
  BY DEF ControlType
<1>2. notices' \in [Guids -> Nat]
  BY <1>1 DEF CommitData, TableType
<1>3. CASE s \in early
  BY <1>2, <1>3 DEF CommitData, TableType
<1>4. CASE s \notin early
  BY <1>2, <1>4, StoreRowType DEF CommitData, TableType
<1> QED
  BY <1>3, <1>4

\* Every step keeps the types of the tables.
LEMMA TableStep ==
  ASSUME ControlType, TableType, [Next]_vars
  PROVE  TableType'
<1>1. ASSUME UNCHANGED tableVars
      PROVE  TableType'
  BY <1>1 DEF tableVars, TableType
<1>2. ASSUME NEW s \in Sends,
             Arrive(s) \/ Ignore(s) \/ Admit(s) \/ Refuse(s) \/ Count(s)
      PROVE  TableType'
  BY <1>1, <1>2 DEF Arrive, Ignore, Admit, Refuse, Count
<1>3. ASSUME NEW s \in Sends, JoinGlobal(s)
      PROVE  TableType'
  BY <1>3, StoreRowType DEF JoinGlobal, TableType
<1>4. ASSUME NEW s \in Sends, Notify(s)
      PROVE  TableType'
  BY <1>4 DEF Notify, NoticesOnAdd, TableType
<1>5. ASSUME NEW s \in Sends, Commit(s)
      PROVE  TableType'
  BY <1>5, CommitDataType DEF Commit
<1>6. ASSUME NEW s \in Sends, Fault(s)
      PROVE  TableType'
  BY <1>1, <1>6, CommitDataType DEF Fault
<1>7. ASSUME NEW p \in Procs, Crash(p)
      PROVE  TableType'
  BY <1>1, <1>7 DEF Crash
<1>8. ASSUME NEW g \in Guids, Hour(g)
      PROVE  TableType'
  BY <1>8 DEF Hour, TableType
<1>9. CASE UNCHANGED vars
  BY <1>1, <1>9 DEF vars
<1> QED
  BY <1>2, <1>3, <1>4, <1>5, <1>6, <1>7, <1>8, <1>9 DEF Next

\* A rollback of finitely many deliveries is counted.
LEMMA RollBackType ==
  ASSUME TotalType, NEW ss \in SUBSET Sends, RollBack(ss)
  PROVE  undone' \in [Guids -> Nat]
<1>1. ASSUME NEW g \in Guids
      PROVE  Cardinality({s \in ss : at[s] \in Counted /\ s \notin early /\ guid[s] = g}) \in Nat
  <2>1. IsFiniteSet({s \in ss : at[s] \in Counted /\ s \notin early /\ guid[s] = g})
    BY IntakeAssumption, FS_Subset DEF IntakeAssumption
  <2> QED
    BY <2>1, FS_CardinalityType
<1>2. ASSUME NEW g \in Guids
      PROVE  undone[g] + Cardinality({s \in ss : at[s] \in Counted /\ s \notin early
                                                 /\ guid[s] = g}) \in Nat
  BY <1>1 DEF TotalType
<1> QED
  BY <1>2 DEF RollBack

\* Every step keeps the types of the totals.
LEMMA TotalStep ==
  ASSUME ControlType, TotalType, [Next]_vars
  PROVE  TotalType'
<1>1. ASSUME UNCHANGED totalVars
      PROVE  TotalType'
  BY <1>1 DEF totalVars, TotalType
<1>2. ASSUME NEW s \in Sends,
             \/ Arrive(s) \/ Ignore(s) \/ Admit(s) \/ Refuse(s) \/ JoinGlobal(s)
             \/ Commit(s)
      PROVE  TotalType'
  BY <1>1, <1>2 DEF Arrive, Ignore, Admit, Refuse, JoinGlobal, Commit
<1>3. ASSUME NEW s \in Sends, Count(s) \/ Notify(s)
      PROVE  TotalType'
  <2>1. guid[s] \in Guids
    BY DEF ControlType
  <2> QED
    BY <1>3, <2>1 DEF Count, Notify, TotalType
<1>4. ASSUME NEW s \in Sends, Fault(s)
      PROVE  TotalType'
  <2>1. {s} \in SUBSET Sends
    OBVIOUS
  <2>2. undone' \in [Guids -> Nat]
    BY <1>4, <2>1, RollBackType DEF Fault, TotalType
  <2> QED
    BY <1>4, <2>2 DEF Fault, TotalType
<1>5. ASSUME NEW p \in Procs, Crash(p)
      PROVE  TotalType'
  <2>1. {s \in Sends : proc[s] = p /\ (InHand(s) \/ at[s] = "failed")} \in SUBSET Sends
    OBVIOUS
  <2>2. undone' \in [Guids -> Nat]
    BY <1>5, <2>1, RollBackType DEF Crash
  <2> QED
    BY <1>5, <2>2 DEF Crash, TotalType
<1>6. ASSUME NEW g \in Guids, Hour(g)
      PROVE  TotalType'
  BY <1>1, <1>6 DEF Hour
<1>7. CASE UNCHANGED vars
  BY <1>1, <1>7 DEF vars
<1> QED
  BY <1>2, <1>3, <1>4, <1>5, <1>6, <1>7 DEF Next

\* All of it together.
Types == MemoryInv /\ ControlType /\ PlacesOK /\ FreshOK /\ TableType /\ TotalType

\* The parts hold at the start.
LEMMA TypesInit == Init => Types
<1> SUFFICES ASSUME Init PROVE Types
  OBVIOUS
<1>1. MemoryInv
  BY MemoryInit
<1>2. ControlType /\ PlacesOK /\ FreshOK
  BY IntakeAssumption DEF Init, ControlType, PlacesOK, PlaceOK, FreshOK, Places, Answers,
     IntakeAssumption
<1>3. TableType
  BY DEF Init, TableType
<1>4. TotalType
  BY DEF Init, TotalType
<1> QED
  BY <1>1, <1>2, <1>3, <1>4 DEF Types

\* Every step keeps the parts.
LEMMA TypesStep == Types /\ [Next]_vars => Types'
<1> SUFFICES ASSUME Types, [Next]_vars PROVE Types'
  OBVIOUS
<1>1. MemoryInv'
  BY MemoryStep DEF Types
<1>2. ControlType' /\ PlacesOK' /\ FreshOK'
  BY ControlStep, FreshStep DEF Types
<1>3. TableType' /\ TotalType'
  BY TableStep, TotalStep DEF Types
<1> QED
  BY <1>1, <1>2, <1>3 DEF Types

\* Type correctness: in particular no process ever remembers more than
\* CacheSize guids, and a row is only committed early while it is handled.
THEOREM IntakeTypes == Spec => []TypeOK
<1>1. Types => TypeOK
  <2> SUFFICES ASSUME Types PROVE TypeOK
    OBVIOUS
  <2>1. /\ cache \in [Procs -> Seq(Guids)]
        /\ remembered \in [Procs -> Seq(Guids)]
        /\ \A p \in Procs : Len(cache[p]) <= CacheSize
    BY DEF Types, MemoryInv, ListIsTail
  <2>2. early \in SUBSET {s \in Sends : at[s] \in Counted}
    BY DEF Types, ControlType, PlacesOK, PlaceOK
  <2> QED
    BY <2>1, <2>2 DEF Types, ControlType, PlacesOK, PlaceOK, TableType, TotalType, TypeOK
<1> QED
  BY <1>1, TypesInit, TypesStep, PTL DEF Spec

-----------------------------------------------------------------------------
(* One wave.                                                               *)

\* A delivery that nothing stops from storing a row any more, as far as the
\* table tells it.
Exposed(s) == InHand(s) /\ (at[s] = "open" => s \notin snap)

\* While a guid has a recent row, only its wave is exposed.
WaveInv ==
  \A s \in Sends : Exposed(s) /\ guid[s] \in recent => s \in wave[guid[s]]

\* A step that exposes nobody and stores nothing keeps the invariant...
LEMMA WaveQuiet ==
  ASSUME WaveInv, UNCHANGED <<guid, recent, wave>>,
         \A s \in Sends : Exposed(s)' => Exposed(s)
  PROVE  WaveInv'
  BY DEF WaveInv

\* ... and so does a step that stores a row.
LEMMA WaveStored ==
  ASSUME Types, WaveInv, UNCHANGED guid, NEW r \in Sends, StoreRow(r),
         \A s \in Sends : Exposed(s)' => Exposed(s)
  PROVE  WaveInv'
<1>1. ASSUME NEW s \in Sends, Exposed(s)', guid[s] \in recent'
      PROVE  s \in wave'[guid[s]]
  <2>1. Exposed(s) /\ InHand(s)
    BY <1>1 DEF Exposed
  <2>2. guid[s] \in Guids /\ guid[r] \in Guids
    BY DEF Types, ControlType
  <2>3. CASE guid[s] \in recent
    <3>1. s \in wave[guid[s]]
      BY <2>1, <2>3 DEF WaveInv
    <3>2. wave'[guid[s]] = wave[guid[s]]
      BY <2>2, <2>3 DEF StoreRow, Types, TableType
    <3> QED
      BY <3>1, <3>2
  <2>4. CASE guid[s] \notin recent
    <3>1. guid[s] = guid[r] /\ proc[r] # Bot
      BY <1>1, <2>4 DEF StoreRow
    <3>2. wave'[guid[s]] = {t \in Sends : InHand(t) /\ guid[t] = guid[r]}
      BY <2>2, <2>4, <3>1 DEF StoreRow, Types, TableType
    <3> QED
      BY <2>1, <3>1, <3>2
  <2> QED
    BY <2>3, <2>4
<1> QED
  BY <1>1 DEF WaveInv

\* The parts of Exposed that a step on one delivery can change.
LEMMA ExposedKept ==
  ASSUME Types, NEW s \in Sends, NEW place \in Places, at' = [at EXCEPT ![s] = place],
         snap' = snap, place \in {"work", "counted", "noticed"} => Exposed(s),
         place # "open"
  PROVE  \A t \in Sends : Exposed(t)' => Exposed(t)
<1>1. at \in [Sends -> Places]
  BY DEF Types, ControlType
<1>2. ASSUME NEW t \in Sends, Exposed(t)'
      PROVE  Exposed(t)
  <2>1. CASE t = s
    BY <1>1, <1>2, <2>1 DEF Exposed, InHand, Counted
  <2>2. CASE t # s
    <3>1. at'[t] = at[t]
      BY <1>1, <2>2
    <3> QED
      BY <1>2, <3>1 DEF Exposed, InHand
  <2> QED
    BY <2>1, <2>2
<1> QED
  BY <1>2

\* Every step keeps the invariant: a delivery that arrives while its guid has
\* a recent row sees it.
LEMMA WaveStep == Types /\ WaveInv /\ [Next]_vars => WaveInv'
<1> SUFFICES ASSUME Types, WaveInv, [Next]_vars PROVE WaveInv'
  OBVIOUS
<1>0. at \in [Sends -> Places]
  BY DEF Types, ControlType
<1>1. ASSUME NEW s \in Sends, Arrive(s)
      PROVE  WaveInv'
  <2>1. at' = [at EXCEPT ![s] = "open"] /\ UNCHANGED <<guid, recent, wave>>
    BY <1>1 DEF Arrive, Goes, given, tableVars
  <2>2. ASSUME NEW t \in Sends, Exposed(t)', guid[t] \in recent
        PROVE  t \in wave[guid[t]]
    <3>1. CASE t = s
      BY <1>0, <1>1, <2>1, <2>2, <3>1 DEF Arrive, Exposed
    <3>2. CASE t # s
      <4>1. at'[t] = at[t] /\ (t \in snap' <=> t \in snap)
        BY <1>0, <1>1, <2>1, <3>2 DEF Arrive
      <4>2. Exposed(t)
        BY <2>2, <4>1 DEF Exposed, InHand
      <4> QED
        BY <2>2, <4>2 DEF WaveInv
    <3> QED
      BY <3>1, <3>2
  <2> QED
    BY <2>1, <2>2 DEF WaveInv
<1>2. ASSUME NEW s \in Sends, Ignore(s) \/ Refuse(s) \/ Admit(s) \/ Count(s) \/ Notify(s)
      PROVE  WaveInv'
  <2>1. UNCHANGED <<guid, recent, wave, snap>>
    BY <1>2 DEF Ignore, Refuse, Admit, Count, Notify, given, tableVars
  <2>2. PICK place \in {"over", "work", "counted", "noticed"} :
          /\ at' = [at EXCEPT ![s] = place]
          /\ place # "over" => Exposed(s)
    BY <1>2 DEF Ignore, Refuse, Admit, Count, Notify, Ends, Goes, Exposed, InHand,
       StoredLately, Counted
  <2>3. \A t \in Sends : Exposed(t)' => Exposed(t)
    BY <2>1, <2>2, ExposedKept DEF Places
  <2> QED
    BY <2>1, <2>3, WaveQuiet
<1>3. ASSUME NEW s \in Sends, JoinGlobal(s)
      PROVE  WaveInv'
  <2>1. StoreRow(s) /\ UNCHANGED <<guid, at, snap>>
    BY <1>3 DEF JoinGlobal, given
  <2>2. \A t \in Sends : Exposed(t)' => Exposed(t)
    BY <2>1 DEF Exposed, InHand
  <2> QED
    BY <2>1, <2>2, WaveStored
<1>4. ASSUME NEW s \in Sends, Commit(s) \/ Fault(s)
      PROVE  WaveInv'
  <2>1. UNCHANGED <<guid, snap>>
    BY <1>4 DEF Commit, Fault, given
  <2>2. PICK place \in {"over", "failed"} : at' = [at EXCEPT ![s] = place]
    BY <1>4 DEF Commit, Fault, AfterError, Ends, Goes
  <2>3. \A t \in Sends : Exposed(t)' => Exposed(t)
    BY <2>1, <2>2, ExposedKept DEF Places
  <2>4. StoreRow(s) \/ UNCHANGED <<recent, wave>>
    BY <1>4 DEF Commit, Fault, CommitData, tableVars
  <2> QED
    BY <2>1, <2>3, <2>4, WaveQuiet, WaveStored
<1>5. ASSUME NEW p \in Procs, Crash(p)
      PROVE  WaveInv'
  <2>1. UNCHANGED <<guid, recent, wave, snap>> /\ \A t \in Sends : at'[t] \in {"over", at[t]}
    BY <1>5 DEF Crash, given, tableVars
  <2>2. \A t \in Sends : Exposed(t)' => Exposed(t)
    BY <2>1 DEF Exposed, InHand, Counted
  <2> QED
    BY <2>1, <2>2, WaveQuiet
<1>6. ASSUME NEW g \in Guids, Hour(g)
      PROVE  WaveInv'
  <2>1. ASSUME NEW t \in Sends, Exposed(t)', guid[t] \in recent'
        PROVE  t \in wave[guid[t]]
    <3>1. guid[t] # g /\ guid[t] \in recent /\ at' = at
      BY <1>6, <2>1 DEF Hour
    <3>2. t \in snap' <=> t \in snap
      BY <1>6, <3>1 DEF Hour
    <3>3. Exposed(t)
      BY <2>1, <3>1, <3>2 DEF Exposed, InHand
    <3> QED
      BY <3>1, <3>3 DEF WaveInv
  <2>2. wave' = wave /\ guid' = guid
    BY <1>6 DEF Hour, given
  <2> QED
    BY <2>1, <2>2 DEF WaveInv
<1>7. CASE UNCHANGED vars
  BY <1>7, WaveQuiet DEF vars, given, tableVars, Exposed, InHand
<1> QED
  BY <1>1, <1>2, <1>3, <1>4, <1>5, <1>6, <1>7 DEF Next

\* Only a delivery past the check stores a row, and it is the row's last.
LEMMA RowStep ==
  ASSUME Types, [Next]_vars, NEW g \in Guids, Len(rows'[g]) > Len(rows[g])
  PROVE  \E s \in Sends : /\ at[s] \in Counted
                          /\ guid[s] = g
                          /\ rows'[g][Len(rows'[g])] = s
<1>0. rows[g] \in Seq(Sends) /\ Len(rows[g]) \in Nat
  BY DEF Types, TableType
<1>1. rows' # rows
  BY <1>0
<1>2. PICK s \in Sends : at[s] \in Counted /\ StoreRow(s)
  <2>1. PICK s \in Sends : JoinGlobal(s) \/ Commit(s) \/ Fault(s)
    BY <1>1 DEF Next, Arrive, Ignore, Admit, Refuse, Count, Notify, Crash, Hour,
       vars, tableVars
  <2> QED
    BY <1>1, <2>1 DEF JoinGlobal, Commit, Fault, CommitData, tableVars, Counted
<1>3. rows' = [rows EXCEPT ![guid[s]] = Append(rows[guid[s]], s)]
  BY <1>2 DEF StoreRow
<1>4. guid[s] = g
  BY <1>0, <1>3 DEF Types, TableType
<1>5. rows'[g] = Append(rows[g], s)
  BY <1>3, <1>4 DEF Types, TableType
<1> QED
  BY <1>0, <1>2, <1>4, <1>5

\* A guid with a recent row of the API gets another row only from deliveries
\* that were at hand when that row was stored: resends after the answer store
\* nothing, in any process, for any number of processes and crashes.
THEOREM ResendsStoreNothing == Spec => OneWave
<1>1. Init => WaveInv
  BY DEF Init, WaveInv
<1>2. Types /\ WaveInv /\ [Next]_vars =>
        [\A g \in Guids : g \in recent /\ Len(rows'[g]) > Len(rows[g]) =>
           rows'[g][Len(rows'[g])] \in wave[g]]_vars
  <2> SUFFICES ASSUME Types, WaveInv, [Next]_vars, NEW g \in Guids, g \in recent,
                      Len(rows'[g]) > Len(rows[g])
               PROVE  rows'[g][Len(rows'[g])] \in wave[g]
    OBVIOUS
  <2>1. PICK s \in Sends : /\ at[s] \in Counted
                           /\ guid[s] = g
                           /\ rows'[g][Len(rows'[g])] = s
    BY RowStep
  <2>2. Exposed(s)
    BY <2>1 DEF Exposed, InHand, Counted
  <2> QED
    BY <2>1, <2>2 DEF WaveInv
<1> QED
  BY <1>1, <1>2, TypesInit, TypesStep, WaveStep, PTL DEF Spec, OneWave

-----------------------------------------------------------------------------
(* Notices and rows.                                                       *)

\* Rows of a guid that are in the table ahead of their delivery's commit.
EarlyOf(g) == {s \in early : guid[s] = g}

\* Those rows have no notice yet: it comes with the commit.
NoticeInv ==
  \A g \in Guids : notices[g] + Cardinality(EarlyOf(g)) <= Len(rows[g])

\* EarlyOf is a finite set.
LEMMA EarlyFinite ==
  ASSUME Types, NEW g \in Guids
  PROVE  IsFiniteSet(EarlyOf(g)) /\ Cardinality(EarlyOf(g)) \in Nat
<1>1. EarlyOf(g) \in SUBSET Sends
  BY DEF EarlyOf, Types, ControlType
<1>2. IsFiniteSet(EarlyOf(g))
  BY <1>1, IntakeAssumption, FS_Subset DEF IntakeAssumption
<1> QED
  BY <1>2, FS_CardinalityType

\* A step that stores nothing and commits nothing early keeps the invariant.
LEMMA NoticeQuiet ==
  ASSUME Types, NoticeInv, UNCHANGED <<guid, rows, notices>>, early' \subseteq early
  PROVE  NoticeInv'
<1>1. ASSUME NEW g \in Guids
      PROVE  notices'[g] + Cardinality(EarlyOf(g)') <= Len(rows'[g])
  <2>1. IsFiniteSet(EarlyOf(g)) /\ Cardinality(EarlyOf(g)) \in Nat
    BY EarlyFinite
  <2>2. EarlyOf(g)' \in SUBSET EarlyOf(g)
    BY DEF EarlyOf
  <2>3. Cardinality(EarlyOf(g)') <= Cardinality(EarlyOf(g)) /\ Cardinality(EarlyOf(g)') \in Nat
    BY <2>1, <2>2, FS_Subset, FS_CardinalityType
  <2>4. notices[g] \in Nat /\ Len(rows[g]) \in Nat
    BY DEF Types, TableType
  <2> QED
    BY <2>1, <2>3, <2>4 DEF NoticeInv
<1> QED
  BY <1>1 DEF NoticeInv

\* A commit keeps it: the notice comes with its row, or after it.
LEMMA NoticeCommitted ==
  ASSUME Types, NoticeInv, UNCHANGED guid, NEW s \in Sends, CommitData(s),
         early' = early \ {s}
  PROVE  NoticeInv'
<1>1. ASSUME NEW g \in Guids, g # guid[s]
      PROVE  notices'[g] + Cardinality(EarlyOf(g)') <= Len(rows'[g])
  <2>1. EarlyOf(g)' = EarlyOf(g)
    BY <1>1 DEF EarlyOf
  <2>2. notices'[g] = notices[g]
    BY <1>1 DEF CommitData, Types, TableType
  <2>3. rows'[g] = rows[g]
    BY <1>1 DEF CommitData, StoreRow, Types, TableType
  <2> QED
    BY <2>1, <2>2, <2>3 DEF NoticeInv
<1>2. ASSUME NEW g \in Guids, g = guid[s]
      PROVE  notices'[g] + Cardinality(EarlyOf(g)') <= Len(rows'[g])
  <2>1. IsFiniteSet(EarlyOf(g)) /\ Cardinality(EarlyOf(g)) \in Nat
    BY EarlyFinite
  <2>2. notices[g] \in Nat /\ rows[g] \in Seq(Sends) /\ Len(rows[g]) \in Nat
    BY DEF Types, TableType
  <2>3. notices[g] + Cardinality(EarlyOf(g)) <= Len(rows[g])
    BY DEF NoticeInv
  <2>4. notices'[g] \in {notices[g], notices[g] + 1}
    BY <1>2 DEF CommitData, Types, TableType
  <2>5. EarlyOf(g)' = EarlyOf(g) \ {s}
    BY DEF EarlyOf
  <2>6. CASE s \in early
    <3>1. s \in EarlyOf(g)
      BY <1>2, <2>6 DEF EarlyOf
    <3>2. Cardinality(EarlyOf(g)') = Cardinality(EarlyOf(g)) - 1
      BY <2>1, <2>5, <3>1, FS_RemoveElement
    <3>3. rows' = rows
      BY <2>6 DEF CommitData
    <3> QED
      BY <2>1, <2>2, <2>3, <2>4, <3>2, <3>3
  <2>7. CASE s \notin early
    <3>1. EarlyOf(g)' = EarlyOf(g)
      BY <2>5, <2>7 DEF EarlyOf
    <3>2. rows'[g] = Append(rows[g], s)
      BY <1>2, <2>7 DEF CommitData, StoreRow, Types, TableType
    <3>3. Len(rows'[g]) = Len(rows[g]) + 1
      BY <2>2, <3>2
    <3> QED
      BY <2>1, <2>2, <2>3, <2>4, <3>1, <3>3
  <2> QED
    BY <2>6, <2>7
<1> QED
  BY <1>1, <1>2 DEF NoticeInv

\* So does the commit that get_player_groups_with_global makes on the way.
LEMMA NoticeJoined ==
  ASSUME Types, NoticeInv, NEW s \in Sends, JoinGlobal(s)
  PROVE  NoticeInv'
<1>1. /\ early' = early \cup {s} /\ s \notin early
      /\ UNCHANGED <<guid, notices>>
      /\ rows' = [rows EXCEPT ![guid[s]] = Append(rows[guid[s]], s)]
  BY DEF JoinGlobal, StoreRow, given
<1>2. ASSUME NEW g \in Guids
      PROVE  notices'[g] + Cardinality(EarlyOf(g)') <= Len(rows'[g])
  <2>1. IsFiniteSet(EarlyOf(g)) /\ Cardinality(EarlyOf(g)) \in Nat
    BY EarlyFinite
  <2>2. notices[g] \in Nat /\ rows[g] \in Seq(Sends) /\ Len(rows[g]) \in Nat
    BY DEF Types, TableType
  <2>3. notices[g] + Cardinality(EarlyOf(g)) <= Len(rows[g])
    BY DEF NoticeInv
  <2>4. CASE g = guid[s]
    <3>1. EarlyOf(g)' = EarlyOf(g) \cup {s} /\ s \notin EarlyOf(g)
      BY <1>1, <2>4 DEF EarlyOf
    <3>2. Cardinality(EarlyOf(g)') = Cardinality(EarlyOf(g)) + 1
      BY <2>1, <3>1, FS_AddElement
    <3>3. rows'[g] = Append(rows[g], s)
      BY <1>1, <2>4 DEF Types, TableType
    <3>4. Len(rows'[g]) = Len(rows[g]) + 1
      BY <2>2, <3>3
    <3> QED
      BY <1>1, <2>1, <2>2, <2>3, <3>2, <3>4
  <2>5. CASE g # guid[s]
    <3>1. EarlyOf(g)' = EarlyOf(g)
      BY <1>1, <2>5 DEF EarlyOf
    <3>2. rows'[g] = rows[g]
      BY <1>1, <2>5 DEF Types, TableType
    <3> QED
      BY <1>1, <2>3, <3>1, <3>2
  <2> QED
    BY <2>4, <2>5
<1> QED
  BY <1>2 DEF NoticeInv

\* No notice is queued for a drop that is not in the table, although helpers
\* commit on the way and any step may fail.
THEOREM NoticesFollowDrops == Spec => []NoticesHaveDrops
<1>1. Init => NoticeInv
  <2> SUFFICES ASSUME Init, NEW g \in Guids
               PROVE  notices[g] + Cardinality(EarlyOf(g)) <= Len(rows[g])
    BY DEF NoticeInv
  <2>1. EarlyOf(g) = {} /\ notices[g] = 0 /\ rows[g] = <<>>
    BY DEF Init, EarlyOf
  <2> QED
    BY <2>1, FS_EmptySet
<1>2. Types /\ NoticeInv /\ [Next]_vars => NoticeInv'
  <2> SUFFICES ASSUME Types, NoticeInv, [Next]_vars PROVE NoticeInv'
    OBVIOUS
  <2>1. ASSUME NEW s \in Sends,
               \/ Arrive(s) \/ Ignore(s) \/ Admit(s) \/ Refuse(s) \/ Count(s)
               \/ Notify(s)
        PROVE  NoticeInv'
    <3>1. UNCHANGED <<guid, rows, notices>> /\ early' \subseteq early
      BY <2>1 DEF Arrive, Ignore, Admit, Refuse, Count, Notify, NoticesOnAdd, Ends,
         given, tableVars
    <3> QED
      BY <3>1, NoticeQuiet
  <2>2. ASSUME NEW s \in Sends, JoinGlobal(s)
        PROVE  NoticeInv'
    BY <2>2, NoticeJoined
  <2>3. ASSUME NEW s \in Sends, Commit(s) \/ Fault(s)
        PROVE  NoticeInv'
    <3>1. guid' = guid /\ early' = early \ {s}
      BY <2>3 DEF Commit, Fault, AfterError, Ends, given
    <3>2. CommitData(s) \/ UNCHANGED <<rows, notices>>
      BY <2>3 DEF Commit, Fault, tableVars
    <3> QED
      BY <3>1, <3>2, NoticeQuiet, NoticeCommitted
  <2>4. ASSUME NEW p \in Procs, Crash(p)
        PROVE  NoticeInv'
    <3>1. UNCHANGED <<guid, rows, notices>> /\ early' \subseteq early
      BY <2>4 DEF Crash, given, tableVars
    <3> QED
      BY <3>1, NoticeQuiet
  <2>5. ASSUME NEW g \in Guids, Hour(g)
        PROVE  NoticeInv'
    BY <2>5, NoticeQuiet DEF Hour, given
  <2>6. CASE UNCHANGED vars
    BY <2>6, NoticeQuiet DEF vars, given, tableVars
  <2> QED
    BY <2>1, <2>2, <2>3, <2>4, <2>5, <2>6 DEF Next
<1>3. Types /\ NoticeInv => NoticesHaveDrops
  <2> SUFFICES ASSUME Types, NoticeInv, NEW g \in Guids
               PROVE  notices[g] <= Len(rows[g])
    BY DEF NoticesHaveDrops
  <2>1. Cardinality(EarlyOf(g)) \in Nat
    BY EarlyFinite
  <2>2. notices[g] \in Nat /\ Len(rows[g]) \in Nat
    BY DEF Types, TableType
  <2> QED
    BY <2>1, <2>2 DEF NoticeInv
<1> QED
  BY <1>1, <1>2, <1>3, TypesInit, TypesStep, PTL DEF Spec

-----------------------------------------------------------------------------
(* Totals and rows.                                                        *)

\* Deliveries that Redis may have counted and that may still earn points.
Unpaid(g) == {s \in Sends : at[s] = "counted" /\ guid[s] = g}

\* What Redis has been told of a guid: rows, rows to come, rows rolled back.
Handled(g) == Len(rows[g]) + Cardinality(Pending(g)) + undone[g]

\* Points are given once on the way from "counted" to "noticed", so that those
\* still to be given count as well.
TotalsInv ==
  \A g \in Guids : /\ gp[g] + missed[g] = Handled(g)
                   /\ credits[g] + Cardinality(Unpaid(g)) <= Handled(g)

\* The numbers that TotalsInv adds up.
LEMMA TotalsNumbers ==
  ASSUME Types, NEW g \in Guids
  PROVE  /\ IsFiniteSet(Pending(g)) /\ Cardinality(Pending(g)) \in Nat
         /\ IsFiniteSet(Unpaid(g)) /\ Cardinality(Unpaid(g)) \in Nat
         /\ gp[g] \in Nat /\ missed[g] \in Nat /\ credits[g] \in Nat /\ undone[g] \in Nat
         /\ rows[g] \in Seq(Sends) /\ Len(rows[g]) \in Nat
<1>1. IsFiniteSet(Pending(g)) /\ IsFiniteSet(Unpaid(g))
  <2>1. Pending(g) \subseteq Sends /\ Unpaid(g) \subseteq Sends
    BY DEF Pending, Unpaid
  <2> QED
    BY <2>1, IntakeAssumption, FS_Subset DEF IntakeAssumption
<1> QED
  BY <1>1, FS_CardinalityType DEF Types, TotalType, TableType

\* A step of which the totals see nothing.
LEMMA TotalsQuiet ==
  ASSUME Types, TotalsInv, UNCHANGED <<guid, rows, totalVars>>,
         \A s \in Sends : /\ at'[s] = "counted" <=> at[s] = "counted"
                          /\ at'[s] \in Counted <=> at[s] \in Counted
                          /\ at[s] \in Counted => (s \in early' <=> s \in early)
  PROVE  TotalsInv'
<1>1. \A g \in Guids : Pending(g)' = Pending(g) /\ Unpaid(g)' = Unpaid(g)
  BY DEF Pending, Unpaid
<1> QED
  BY <1>1 DEF TotalsInv, Handled, totalVars

\* Deliveries that leave take what is pending of them along.
LEMMA TotalsLeave ==
  ASSUME Types, UNCHANGED guid, NEW ss \in SUBSET Sends, early' = early \ ss,
         \A s \in ss : at'[s] \notin Counted,
         \A s \in Sends \ ss : at'[s] = at[s], NEW g \in Guids
  PROVE  /\ Cardinality(Pending(g)') \in Nat
         /\ Cardinality(Pending(g) \cap ss) \in Nat
         /\ Cardinality(Pending(g)') = Cardinality(Pending(g)) - Cardinality(Pending(g) \cap ss)
         /\ Cardinality(Unpaid(g)') \in Nat
         /\ Cardinality(Unpaid(g)') <= Cardinality(Unpaid(g))
<1>1. Pending(g)' = Pending(g) \ ss
  BY DEF Pending
<1>2. Unpaid(g)' = Unpaid(g) \ ss
  BY DEF Unpaid, Counted
<1>3. IsFiniteSet(Pending(g)) /\ IsFiniteSet(Unpaid(g))
  BY TotalsNumbers
<1>4. /\ IsFiniteSet(Pending(g) \ ss) /\ IsFiniteSet(Pending(g) \cap ss)
      /\ Cardinality(Pending(g) \ ss) = Cardinality(Pending(g)) - Cardinality(Pending(g) \cap ss)
  BY <1>3, FS_Difference, FS_Intersection
<1>5. Cardinality(Unpaid(g) \ ss) <= Cardinality(Unpaid(g)) /\ IsFiniteSet(Unpaid(g) \ ss)
  BY <1>3, FS_Subset
<1> QED
  BY <1>1, <1>2, <1>4, <1>5, FS_CardinalityType

\* Deliveries that leave with a rollback: what was pending is undone.
LEMMA TotalsRolledBack ==
  ASSUME Types, TotalsInv, UNCHANGED <<guid, rows, gp, credits, missed>>,
         NEW ss \in SUBSET Sends, RollBack(ss), early' = early \ ss,
         \A s \in ss : at'[s] \notin Counted,
         \A s \in Sends \ ss : at'[s] = at[s]
  PROVE  TotalsInv'
<1> SUFFICES ASSUME NEW g \in Guids
             PROVE  /\ gp'[g] + missed'[g] = Handled(g)'
                    /\ credits'[g] + Cardinality(Unpaid(g)') <= Handled(g)'
  BY DEF TotalsInv
<1>1. Pending(g) \cap ss = {s \in ss : at[s] \in Counted /\ s \notin early /\ guid[s] = g}
  BY DEF Pending
<1>2. undone'[g] = undone[g] + Cardinality(Pending(g) \cap ss)
  BY <1>1 DEF RollBack
<1>3. /\ gp[g] + missed[g] = Handled(g)
      /\ credits[g] + Cardinality(Unpaid(g)) <= Handled(g)
  BY DEF TotalsInv
<1>4. /\ Cardinality(Pending(g)') \in Nat
      /\ Cardinality(Pending(g) \cap ss) \in Nat
      /\ Cardinality(Pending(g)') = Cardinality(Pending(g)) - Cardinality(Pending(g) \cap ss)
      /\ Cardinality(Unpaid(g)') \in Nat
      /\ Cardinality(Unpaid(g)') <= Cardinality(Unpaid(g))
  BY TotalsLeave
<1>5. Handled(g)' = Handled(g) /\ Handled(g) \in Nat
  <2>1. Len(rows'[g]) = Len(rows[g])
    OBVIOUS
  <2> QED
    BY <1>2, <1>4, <2>1, TotalsNumbers DEF Handled
<1> QED
  BY <1>3, <1>4, <1>5, TotalsNumbers

\* A delivery that leaves with its commit: what was pending is a row.
LEMMA TotalsCommitted ==
  ASSUME Types, TotalsInv, UNCHANGED <<guid, totalVars>>, NEW s \in Sends,
         at[s] \in Counted, CommitData(s), early' = early \ {s},
         at'[s] \notin Counted, \A t \in Sends \ {s} : at'[t] = at[t]
  PROVE  TotalsInv'
<1> SUFFICES ASSUME NEW g \in Guids
             PROVE  /\ gp'[g] + missed'[g] = Handled(g)'
                    /\ credits'[g] + Cardinality(Unpaid(g)') <= Handled(g)'
  BY DEF TotalsInv
<1>1. Len(rows'[g]) = Len(rows[g]) + Cardinality(Pending(g) \cap {s})
  <2>1. CASE guid[s] = g /\ s \notin early
    <3>1. Pending(g) \cap {s} = {s}
      BY <2>1 DEF Pending
    <3>2. rows'[g] = Append(rows[g], s)
      BY <2>1 DEF CommitData, StoreRow, Types, TableType
    <3>3. Len(rows'[g]) = Len(rows[g]) + 1
      BY <3>2, TotalsNumbers
    <3> QED
      BY <3>1, <3>3, FS_Singleton
  <2>2. CASE ~(guid[s] = g /\ s \notin early)
    <3>1. Pending(g) \cap {s} = {}
      BY <2>2 DEF Pending
    <3>2. rows'[g] = rows[g]
      BY <2>2 DEF CommitData, StoreRow, Types, TableType
    <3>3. Cardinality(Pending(g) \cap {s}) = 0
      BY <3>1, FS_EmptySet, Zenon
    <3>4. Len(rows'[g]) = Len(rows[g]) /\ Len(rows[g]) \in Nat
      BY <3>2, TotalsNumbers
    <3> QED
      BY <3>3, <3>4
  <2> QED
    BY <2>1, <2>2
<1>2. /\ gp[g] + missed[g] = Handled(g)
      /\ credits[g] + Cardinality(Unpaid(g)) <= Handled(g)
  BY DEF TotalsInv
<1>3. {s} \in SUBSET Sends
  OBVIOUS
<1>4. /\ Cardinality(Pending(g)') \in Nat
      /\ Cardinality(Pending(g) \cap {s}) \in Nat
      /\ Cardinality(Pending(g)') = Cardinality(Pending(g)) - Cardinality(Pending(g) \cap {s})
      /\ Cardinality(Unpaid(g)') \in Nat
      /\ Cardinality(Unpaid(g)') <= Cardinality(Unpaid(g))
  BY <1>3, TotalsLeave
<1>5. UNCHANGED <<gp, credits, missed, undone>>
  BY DEF totalVars
<1>6. Handled(g)' = Handled(g) /\ Handled(g) \in Nat
  BY <1>1, <1>4, <1>5, TotalsNumbers DEF Handled
<1> QED
  BY <1>2, <1>4, <1>5, <1>6, TotalsNumbers

\* The early commit of JoinGlobal: what was pending is a row.
LEMMA TotalsJoined ==
  ASSUME Types, TotalsInv, NEW s \in Sends, JoinGlobal(s)
  PROVE  TotalsInv'
<1> SUFFICES ASSUME NEW g \in Guids
             PROVE  /\ gp'[g] + missed'[g] = Handled(g)'
                    /\ credits'[g] + Cardinality(Unpaid(g)') <= Handled(g)'
  BY DEF TotalsInv
<1>1. /\ early' = early \cup {s} /\ s \notin early /\ at[s] = "counted"
      /\ UNCHANGED <<guid, at, totalVars>>
      /\ rows' = [rows EXCEPT ![guid[s]] = Append(rows[guid[s]], s)]
  BY DEF JoinGlobal, StoreRow, given
<1>2. Unpaid(g)' = Unpaid(g)
  BY <1>1 DEF Unpaid
<1>3. /\ gp[g] + missed[g] = Handled(g)
      /\ credits[g] + Cardinality(Unpaid(g)) <= Handled(g)
  BY DEF TotalsInv
<1>4. Handled(g)' = Handled(g)
  <2>1. CASE g = guid[s]
    <3>1. Pending(g)' = Pending(g) \ {s} /\ s \in Pending(g)
      BY <1>1, <2>1 DEF Pending, Counted
    <3>2. Cardinality(Pending(g)') = Cardinality(Pending(g)) - 1
      BY <3>1, TotalsNumbers, FS_RemoveElement
    <3>3. Len(rows'[g]) = Len(rows[g]) + 1
      BY <1>1, <2>1, TotalsNumbers DEF Types, TableType
    <3> QED
      BY <1>1, <3>2, <3>3, TotalsNumbers DEF Handled, totalVars
  <2>2. CASE g # guid[s]
    <3>1. Pending(g)' = Pending(g)
      BY <1>1, <2>2 DEF Pending
    <3>2. rows'[g] = rows[g]
      BY <1>1, <2>2 DEF Types, TableType
    <3> QED
      BY <1>1, <3>1, <3>2 DEF Handled, totalVars
  <2> QED
    BY <2>1, <2>2
<1> QED
  BY <1>1, <1>2, <1>3, <1>4 DEF totalVars

\* The row is flushed and Redis is told, or misses it.
LEMMA TotalsCounted ==
  ASSUME Types, TotalsInv, NEW s \in Sends, Count(s)
  PROVE  TotalsInv'
<1> SUFFICES ASSUME NEW g \in Guids
             PROVE  /\ gp'[g] + missed'[g] = Handled(g)'
                    /\ credits'[g] + Cardinality(Unpaid(g)') <= Handled(g)'
  BY DEF TotalsInv
<1>1. /\ at[s] = "work" /\ at' = [at EXCEPT ![s] = "counted"] /\ s \notin early
      /\ UNCHANGED <<guid, early, rows, credits, undone>>
  BY DEF Count, Goes, given, tableVars, Types, PlacesOK, PlaceOK, Counted
<1>2. /\ gp[g] + missed[g] = Handled(g)
      /\ credits[g] + Cardinality(Unpaid(g)) <= Handled(g)
  BY DEF TotalsInv
<1>3. CASE g = guid[s]
  <2>1. /\ Pending(g)' = Pending(g) \cup {s} /\ s \notin Pending(g)
        /\ Unpaid(g)' = Unpaid(g) \cup {s} /\ s \notin Unpaid(g)
    BY <1>1, <1>3 DEF Pending, Unpaid, Counted, Types, ControlType
  <2>2. /\ Cardinality(Pending(g)') = Cardinality(Pending(g)) + 1
        /\ Cardinality(Unpaid(g)') = Cardinality(Unpaid(g)) + 1
    BY <2>1, TotalsNumbers, FS_AddElement
  <2>3. \/ gp'[g] = gp[g] + 1 /\ missed'[g] = missed[g]
        \/ gp'[g] = gp[g] /\ missed'[g] = missed[g] + 1
    BY <1>3 DEF Count, Types, TotalType
  <2>4. Handled(g)' = Handled(g) + 1 /\ Handled(g) \in Nat
    <3>1. Len(rows'[g]) = Len(rows[g]) /\ undone'[g] = undone[g]
      BY <1>1
    <3>2. Handled(g)' = Len(rows'[g]) + Cardinality(Pending(g)') + undone'[g]
      BY DEF Handled
    <3>3. Handled(g) = Len(rows[g]) + Cardinality(Pending(g)) + undone[g]
      BY DEF Handled
    <3>4. Len(rows[g]) \in Nat /\ Cardinality(Pending(g)) \in Nat /\ undone[g] \in Nat
      BY TotalsNumbers
    <3>5. Cardinality(Pending(g)') = Cardinality(Pending(g)) + 1
      BY <2>2
    <3>6. Handled(g)' = Len(rows[g]) + (Cardinality(Pending(g)) + 1) + undone[g]
      BY <3>1, <3>2, <3>5
    <3>7. Handled(g) \in Nat
      BY <3>3, <3>4
    <3> QED
      BY <3>3, <3>4, <3>6, <3>7
  <2>5. credits'[g] = credits[g]
    BY <1>1
  <2> QED
    BY <1>2, <2>2, <2>3, <2>4, <2>5, TotalsNumbers
<1>4. CASE g # guid[s]
  <2>1. Pending(g)' = Pending(g) /\ Unpaid(g)' = Unpaid(g)
    BY <1>1, <1>4 DEF Pending, Unpaid, Types, ControlType
  <2>2. gp'[g] = gp[g] /\ missed'[g] = missed[g]
    BY <1>4 DEF Count, Types, TotalType
  <2> QED
    BY <1>1, <1>2, <2>1, <2>2 DEF Handled
<1> QED
  BY <1>3, <1>4

\* Points are given once for a delivery: it is not asked again.
LEMMA TotalsNotified ==
  ASSUME Types, TotalsInv, NEW s \in Sends, Notify(s)
  PROVE  TotalsInv'
<1> SUFFICES ASSUME NEW g \in Guids
             PROVE  /\ gp'[g] + missed'[g] = Handled(g)'
                    /\ credits'[g] + Cardinality(Unpaid(g)') <= Handled(g)'
  BY DEF TotalsInv
<1>1. /\ at[s] = "counted" /\ at' = [at EXCEPT ![s] = "noticed"]
      /\ UNCHANGED <<guid, early, rows, gp, missed, undone>>
  BY DEF Notify, Goes, given
<1>2. /\ gp[g] + missed[g] = Handled(g)
      /\ credits[g] + Cardinality(Unpaid(g)) <= Handled(g)
  BY DEF TotalsInv
<1>3. Pending(g)' = Pending(g)
  BY <1>1 DEF Pending, Counted, Types, ControlType
<1>4. credits'[g] + Cardinality(Unpaid(g)') <= credits[g] + Cardinality(Unpaid(g))
  <2>1. CASE g = guid[s]
    <3>1. Unpaid(g)' = Unpaid(g) \ {s} /\ s \in Unpaid(g)
      BY <1>1, <2>1 DEF Unpaid, Types, ControlType
    <3>2. Cardinality(Unpaid(g)') = Cardinality(Unpaid(g)) - 1
      BY <3>1, TotalsNumbers, FS_RemoveElement
    <3>3. credits'[g] \in {credits[g], credits[g] + 1}
      BY <2>1 DEF Notify, Types, TotalType
    <3> QED
      BY <3>2, <3>3, TotalsNumbers
  <2>2. CASE g # guid[s]
    <3>1. Unpaid(g)' = Unpaid(g)
      BY <1>1, <2>2 DEF Unpaid, Types, ControlType
    <3>2. credits'[g] = credits[g]
      BY <2>2 DEF Notify, Types, TotalType
    <3> QED
      BY <3>1, <3>2, TotalsNumbers
  <2> QED
    BY <2>1, <2>2
<1>5. Handled(g)' = Handled(g) /\ Handled(g) \in Nat
  BY <1>1, <1>3, TotalsNumbers DEF Handled
<1>6. Cardinality(Unpaid(g)') \in Nat /\ credits'[g] \in Nat
  <2>1. Unpaid(g)' \subseteq Unpaid(g)
    BY <1>1 DEF Unpaid, Types, ControlType
  <2>2. IsFiniteSet(Unpaid(g)')
    BY <2>1, TotalsNumbers, FS_Subset
  <2>3. credits'[g] \in Nat
    BY DEF Notify, Types, TotalType, ControlType
  <2> QED
    BY <2>2, <2>3, FS_CardinalityType
<1> QED
  BY <1>1, <1>2, <1>4, <1>5, <1>6, TotalsNumbers

\* Every step keeps the account.
LEMMA TotalsStep == Types /\ TotalsInv /\ [Next]_vars => TotalsInv'
<1> SUFFICES ASSUME Types, TotalsInv, [Next]_vars PROVE TotalsInv'
  OBVIOUS
<1>1. at \in [Sends -> Places] /\ \A s \in Sends : s \in early => at[s] \in Counted
  BY DEF Types, ControlType, PlacesOK, PlaceOK
<1>2. ASSUME NEW s \in Sends, Arrive(s) \/ Ignore(s) \/ Admit(s) \/ Refuse(s)
      PROVE  TotalsInv'
  <2>1. /\ UNCHANGED <<guid, rows, totalVars>>
        /\ at[s] \notin Counted /\ at[s] # "counted"
        /\ early' = early \ {s}
        /\ \E place \in {"open", "work", "over"} : at' = [at EXCEPT ![s] = place]
    BY <1>1, <1>2 DEF Arrive, Ignore, Admit, Refuse, Refusable, Ends, Goes, Counted,
       given, tableVars
  <2> QED
    BY <1>1, <2>1, TotalsQuiet DEF Counted
<1>3. ASSUME NEW s \in Sends, Commit(s) \/ Fault(s)
      PROVE  TotalsInv'
  <2>1. /\ UNCHANGED guid /\ early' = early \ {s}
        /\ \E place \in {"over", "failed"} : at' = [at EXCEPT ![s] = place]
    BY <1>3 DEF Commit, Fault, AfterError, Ends, Goes, given
  <2>2. at'[s] \notin Counted /\ \A t \in Sends \ {s} : at'[t] = at[t]
    BY <1>1, <2>1 DEF Counted
  <2>3. \/ at[s] \in Counted /\ CommitData(s) /\ UNCHANGED totalVars
        \/ RollBack({s}) /\ UNCHANGED <<rows, gp, credits, missed>>
    BY <1>3 DEF Commit, Fault, tableVars, totalVars
  <2>4. {s} \in SUBSET Sends /\ \A t \in {s} : at'[t] \notin Counted
    BY <2>2
  <2>5. CASE at[s] \in Counted /\ CommitData(s) /\ UNCHANGED totalVars
    BY <2>1, <2>2, <2>5, TotalsCommitted
  <2>6. CASE RollBack({s}) /\ UNCHANGED <<rows, gp, credits, missed>>
    BY <2>1, <2>2, <2>4, <2>6, TotalsRolledBack
  <2> QED
    BY <2>3, <2>5, <2>6
<1>4. ASSUME NEW p \in Procs, Crash(p)
      PROVE  TotalsInv'
  <2> DEFINE gone == {s \in Sends : proc[s] = p /\ (InHand(s) \/ at[s] = "failed")}
  <2>1. gone \in SUBSET Sends
    OBVIOUS
  <2>2. /\ RollBack(gone) /\ UNCHANGED <<guid, rows, gp, credits, missed>>
        /\ early' = early \ gone
        /\ at' = [s \in Sends |-> IF s \in gone THEN "over" ELSE at[s]]
    BY <1>4 DEF Crash, given, tableVars
  <2> HIDE DEF gone
  <2>3. /\ \A s \in gone : at'[s] \notin Counted
        /\ \A s \in Sends \ gone : at'[s] = at[s]
    BY <2>1, <2>2 DEF Counted
  <2> QED
    BY <2>1, <2>2, <2>3, TotalsRolledBack
<1>5. ASSUME NEW g \in Guids, Hour(g)
      PROVE  TotalsInv'
  BY <1>5, TotalsQuiet DEF Hour, given
<1>6. CASE UNCHANGED vars
  BY <1>6, TotalsQuiet DEF vars, given, tableVars
<1> QED
  BY <1>2, <1>3, <1>4, <1>5, <1>6, TotalsCounted, TotalsJoined, TotalsNotified DEF Next

\* create_drop_object tells Redis ahead of the commit: for any number of
\* deliveries, processes, faults and crashes the totals differ from the table
\* by what is at hand, was rolled back or was missed, and by nothing else.
THEOREM TotalsAreExplained == Spec => []TotalsExplained
<1>1. Init => TotalsInv
  <2> SUFFICES ASSUME Init, NEW g \in Guids
               PROVE  /\ gp[g] + missed[g] = Handled(g)
                      /\ credits[g] + Cardinality(Unpaid(g)) <= Handled(g)
    BY DEF TotalsInv
  <2>1. Pending(g) = {} /\ Unpaid(g) = {} /\ rows[g] = <<>>
    BY DEF Init, Pending, Unpaid, Counted
  <2>2. gp[g] = 0 /\ missed[g] = 0 /\ credits[g] = 0 /\ undone[g] = 0
    BY DEF Init
  <2> QED
    BY <2>1, <2>2, FS_EmptySet DEF Handled
<1>2. Types /\ TotalsInv => TotalsExplained
  <2> SUFFICES ASSUME Types, TotalsInv, NEW g \in Guids
               PROVE  gp[g] + missed[g] = Handled(g) /\ credits[g] <= Handled(g)
    BY DEF TotalsExplained, Handled
  <2>1. /\ gp[g] + missed[g] = Handled(g)
        /\ credits[g] + Cardinality(Unpaid(g)) <= Handled(g)
    BY DEF TotalsInv
  <2> QED
    BY <2>1, TotalsNumbers DEF Handled
<1> QED
  BY <1>1, <1>2, TotalsStep, TypesInit, TypesStep, PTL DEF Spec

=============================================================================
