------------------------- MODULE CameraWorkerProofs -------------------------
(***************************************************************************)
(* Proofs about CameraWorker, for any configurations, settings of the      *)
(* event machine, keys and times: what the hooks say of an event, what is  *)
(* recorded, what the status shows, and how ONVIF states rule the events.  *)
(***************************************************************************)
EXTENDS CameraWorker, SequenceTheorems, TLAPS

(* The movie, the picture and the hooks belong to the event: between two   *)
(* events there is nothing, before the picture is chosen an event may have *)
(* none, and the hooks of the ending event are still due in finish_event.  *)
NothingOpen == movie = 0 /\ best.event = 0 /\ ~recordLive
Complete ==
  \/ hooks = <<>>
  \/ \E withMovie \in BOOLEAN, ending \in Endings :
       hooks = Announced(withMovie) \o ending
                 \o (IF withMovie THEN <<"movie-end">> ELSE <<>>)
Owned == movie \in {0, machine.number} /\ hooks = Announced(movie # 0)

Resting ==
  IF machine.active THEN machine.number # 0 /\ Owned /\ best.event = machine.number
  ELSE NothingOpen /\ Complete

EventOK ==
  /\ pc \in {"read", "expired", "observe", "decide", "closing"} => Resting
  /\ pc \in {"open", "exited"} => ~machine.active /\ NothingOpen /\ Complete
  /\ pc = "start" => machine.active /\ machine.number # 0 /\ movie = 0 /\ best.event = 0
  /\ pc = "finish" => ~machine.active /\ Owned /\ ~recordLive
  /\ pc = "picture" =>
       IF machine.active
       THEN machine.number # 0 /\ Owned /\ best.event \in {0, machine.number}
       ELSE NothingOpen /\ Complete

(* What ONVIF asserts is what the source thread reads; a thread that lost  *)
(* its subscription has cleared it; without events there is no ONVIF.      *)
OnvifOK ==
  /\ onvifMotion = HasState(states)
  /\ onvifPc = "cleared" => ~HasState(states)
  /\ StatusSettles
  /\ ~camera.events => onvifPc = "exited" /\ triggers = 0 /\ ~sample.edge

(* The end of the last state by its hard lifetime is on its way to the     *)
(* decision on the next frame.                                             *)
LapseOK ==
  lapsed =>
    /\ ~HasState(states)
    /\ CASE pc = "expired" -> sample.lapse \/ timeouts # seenTimeout
         [] pc = "decide" -> sample.timedOut
         [] OTHER -> timeouts # seenTimeout

IInv == TypeOK /\ hooks \in Seq(HookKinds) /\ EventOK /\ OnvifOK /\ LapseOK

-----------------------------------------------------------------------------
(* What the source thread relies on of a decision of the state machine.    *)

Decided(m, o) ==
  /\ o.started \in BOOLEAN /\ o.ended \in BOOLEAN /\ o.record \in BOOLEAN
  /\ o.machine.active \in BOOLEAN
  /\ o.started => ~m.active /\ o.machine.active
  /\ o.machine.number = IF o.started THEN m.number + 1 ELSE m.number
  /\ o.ended => m.active /\ ~o.machine.active
  /\ ~o.started /\ ~o.ended => o.machine.active = m.active
  /\ o.record => o.machine.active

LEMMA StopIdles ==
  ASSUME NEW m
  PROVE  ~Stop(m).machine.active /\ Stop(m).machine.number = m.number
BY DEF Stop, Ends, Idle

LEMMA StopDecides ==
  ASSUME NEW m, m.active = TRUE
  PROVE  Decided(m, Stop(m))
BY DEF Decided, Stop, Ends, Idle

LEMMA UpdateDecides ==
  ASSUME NEW m, m.active \in BOOLEAN, NEW motion \in BOOLEAN, NEW t, NEW force \in BOOLEAN
  PROVE  /\ Decided(m, Update(m, motion, t, force))
         /\ ~motion /\ ~m.active => ~Update(m, motion, t, force).machine.active
<1>1. CASE Overdue(m, t) \/ Quiet(m, motion, t)
  <2>1. m.active /\ (Overdue(m, t) \/ ~motion)
    BY <1>1 DEF Overdue, Quiet
  <2>2. Update(m, motion, t, force) = Stop(m)
    BY <1>1 DEF Update, Stop
  <2> DEFINE o == Update(m, motion, t, force)
  <2>3. Decided(m, o)
    <3>1. m.active = TRUE
      BY <2>1
    <3> QED
      BY <2>2, <3>1, StopDecides
  <2>4. ~o.machine.active
    BY <2>2, StopIdles
  <2> QED
    BY <2>3, <2>4
<1>2. CASE ~Overdue(m, t) /\ ~Quiet(m, motion, t)
  <2> DEFINE confirmed == Confirmed(m, motion, force)
             trailing == Trailing(m, motion, force)
             o == Update(m, motion, t, force)
  <2>1. /\ o.machine.active = (m.active \/ confirmed)
        /\ o.machine.number = IF confirmed /\ ~m.active THEN m.number + 1 ELSE m.number
        /\ o.started = (confirmed /\ ~m.active) /\ o.ended = FALSE
        /\ o.record = (confirmed \/ trailing)
    BY <1>2 DEF Update, Continued
  <2>2. confirmed \in BOOLEAN /\ trailing \in BOOLEAN /\ (trailing => m.active)
        /\ (confirmed => motion)
    BY DEF Confirmed, Trailing
  <2> HIDE DEF o, confirmed, trailing
  <2>3. Decided(m, o)
    BY <2>1, <2>2 DEF Decided
  <2> QED
    BY <2>1, <2>2, <2>3 DEF o
<1> QED
  BY <1>1, <1>2

(* Forced motion starts an event or keeps one that is not overdue.         *)
LEMMA ForcedStarts ==
  ASSUME NEW m, NEW t, ~Overdue(m, t)
  PROVE  Update(m, TRUE, t, TRUE).machine.active
<1>1. ~Quiet(m, TRUE, t)
  BY DEF Quiet
<1>2. Confirmed(m, TRUE, TRUE)
  BY SettingsAssumption DEF Confirmed, MotionRun
<1> QED
  BY <1>1, <1>2 DEF Update, Continued

(* Decide takes the machine to such an outcome, whatever was read.         *)
LEMMA OutcomeDecides ==
  ASSUME TypeOK
  PROVE  Decided(machine, Outcome)
<1>1. /\ machine.active \in BOOLEAN /\ sample.local \in BOOLEAN /\ sample.edge \in BOOLEAN
      /\ onvifMotion \in BOOLEAN /\ camera.events \in BOOLEAN
  BY WorkerAssumption DEF TypeOK, CameraType
<1> DEFINE triggered == onvifMotion \/ sample.edge
           motion == sample.local \/ (camera.events /\ triggered)
           force == camera.events /\ sample.edge
<1>2. motion \in BOOLEAN /\ force \in BOOLEAN
  BY <1>1
<1>3. Decided(machine, Update(machine, motion, now, force))
  BY <1>1, <1>2, UpdateDecides
<1>4. machine.active = TRUE => Decided(machine, Stop(machine))
  BY StopDecides
<1>5. CASE sample.timedOut /\ machine.active /\ ~sample.local /\ ~triggered
  <2>1. Outcome = Stop(machine) /\ machine.active = TRUE
    BY <1>1, <1>5 DEF Outcome
  <2> QED
    BY <1>4, <2>1
<1>6. CASE ~(sample.timedOut /\ machine.active /\ ~sample.local /\ ~triggered)
  <2>1. Outcome = Update(machine, motion, now, force)
    BY <1>6 DEF Outcome
  <2> QED
    BY <1>3, <2>1
<1> QED
  BY <1>5, <1>6

-----------------------------------------------------------------------------
(* Types.                                                                  *)

LEMMA TrackerDisjoint ==
  ASSUME NEW t, DOMAIN t.since \cap t.expired = {}, NEW k, NEW active \in BOOLEAN, NEW clock,
         NEW renewable \in BOOLEAN
  PROVE  LET u == Updated(t, k, active, clock, renewable)
             e == Expired(t, clock, renewable)
         IN /\ DOMAIN u.since \cap u.expired = {}
            /\ DOMAIN e.since \cap e.expired = {}
<1>1. \A ks : DOMAIN Without(t.since, ks) = DOMAIN t.since \ ks
  BY DEF Without, Restrict
<1>2. /\ DOMAIN Renewed(t.since, k, clock) = DOMAIN t.since \cup {k}
      /\ DOMAIN Asserted(t.since, k, clock) = DOMAIN t.since \cup {k}
  BY DEF Renewed, Asserted
<1>3. Stale(t, clock) \subseteq DOMAIN t.since
  BY DEF Stale
<1>4. LET e == Expired(t, clock, renewable)
      IN DOMAIN e.since \cap e.expired = {}
  BY <1>1, <1>3 DEF Expired
<1>5. LET u == Updated(t, k, active, clock, renewable)
      IN DOMAIN u.since \cap u.expired = {}
  <2>1. CASE ~active
    BY <1>1, <2>1 DEF Updated
  <2>2. CASE active /\ renewable
    BY <1>2, <2>2 DEF Updated
  <2>3. CASE active /\ ~renewable /\ k \in t.expired
    BY <2>3 DEF Updated, Accepts
  <2>4. CASE active /\ ~renewable /\ k \notin t.expired
    <3>1. /\ Updated(t, k, active, clock, renewable).since = Asserted(t.since, k, clock)
          /\ Updated(t, k, active, clock, renewable).expired = t.expired
      BY <2>4 DEF Updated, Accepts
    <3> QED
      BY <1>2, <2>4, <3>1
  <2> QED
    BY <2>1, <2>2, <2>3, <2>4
<1> QED
  BY <1>4, <1>5

LEMMA InitIInv == Init => IInv
<1> SUFFICES ASSUME Init PROVE IInv
  OBVIOUS
<1>1. TypeOK
  <2>1. machine.active \in BOOLEAN /\ machine.number = 0
    BY DEF Init, Idle
  <2>2. /\ sample \in [frame : BOOLEAN, local : BOOLEAN, lapse : BOOLEAN, edge : BOOLEAN,
                       timedOut : BOOLEAN]
        /\ best \in [event : 0..machine.number, jpeg : BOOLEAN]
    BY <2>1 DEF Init, NoSample, NoPicture
  <2>3. states.expired = {} /\ notice.active \in BOOLEAN
    BY DEF Init, NoStates, NoNotice
  <2>4. onvifPc \in OnvifSteps /\ pc \in SourceSteps
    BY DEF Init, OnvifSteps, SourceSteps
  <2>5. /\ stopping \in BOOLEAN /\ recordLive \in BOOLEAN /\ lapsed \in BOOLEAN
        /\ onvifMotion \in BOOLEAN /\ statusMotion \in BOOLEAN
    BY DEF Init
  <2>6. /\ camera \in Cameras /\ now = 0 /\ movie = 0 /\ notices = 0 /\ interrupts = 0
        /\ triggers = 0 /\ seenTrigger = 0 /\ timeouts = 0 /\ seenTimeout = 0
    BY DEF Init
  <2> QED
    BY <2>1, <2>2, <2>3, <2>4, <2>5, <2>6 DEF TypeOK
<1>2. hooks \in Seq(HookKinds)
  BY DEF Init
<1>3. EventOK
  BY DEF Init, EventOK, NothingOpen, Complete, Idle, NoPicture
<1>4. HasState(states) = FALSE
  BY DEF Init, HasState, NoStates
<1>5. OnvifOK /\ LapseOK
  BY <1>4 DEF Init, OnvifOK, LapseOK, StatusSettles, NoSample
<1> QED
  BY <1>1, <1>2, <1>3, <1>5 DEF IInv

LEMMA SourceTypes ==
  ASSUME IInv, Source
  PROVE  TypeOK'
<1> USE DEF SourceSteps, othersVars, recordVars, seenVars, sharedVars, onvifVars
<1>1. TypeOK /\ camera.renewable \in BOOLEAN /\ camera.picture \in BOOLEAN
  BY WorkerAssumption DEF IInv, TypeOK, CameraType
<1>a. movie' = 0 /\ best' = NoPicture /\ machine'.number \in Nat =>
         movie' \in 0..machine'.number /\ best' \in [event : 0..machine'.number, jpeg : BOOLEAN]
  BY DEF NoPicture
<1>2. CASE Open
  BY <1>1, <1>2 DEF Open, TypeOK
<1>3. CASE Leave
  BY <1>1, <1>3 DEF Leave, TypeOK
<1>4. ASSUME NEW frame \in BOOLEAN, NEW local \in BOOLEAN, Read(frame, local)
      PROVE  TypeOK'
  <2> DEFINE t == Expired(states, now, camera.renewable)
             lapse == Lapses(t)
  <2>1. DOMAIN t.since \cap t.expired = {}
    BY <1>1, TrackerDisjoint DEF TypeOK
  <2>2. lapse \in BOOLEAN /\ HasState(t) \in BOOLEAN
    BY DEF Lapses, HasState
  <2>3. /\ sample' = [frame |-> frame, local |-> local, lapse |-> lapse, edge |-> FALSE,
                      timedOut |-> FALSE]
        /\ states' = t /\ onvifMotion' = HasState(t) /\ lapsed' = (lapsed \/ lapse)
        /\ pc' \in {"expired", "observe", "read"}
        /\ UNCHANGED <<machine, recordVars, interrupts, seenVars, triggers, timeouts,
                       statusMotion, othersVars>>
    BY <1>4 DEF Read, NoSample
  <2> HIDE DEF t, lapse
  <2> QED
    BY <1>1, <2>1, <2>2, <2>3 DEF TypeOK
<1>5. CASE PublishExpiry
  BY <1>1, <1>5 DEF PublishExpiry, TypeOK
<1>6. CASE MaskFails
  BY <1>1, <1>6 DEF MaskFails, TypeOK
<1>7. CASE Observe
  <2>1. sample' \in [frame : BOOLEAN, local : BOOLEAN, lapse : BOOLEAN, edge : BOOLEAN,
                     timedOut : BOOLEAN]
    BY <1>1, <1>7 DEF Observe, TypeOK
  <2> QED
    BY <1>1, <1>7, <2>1 DEF Observe, TypeOK
<1>8. CASE Decide
  <2>1. Decided(machine, Outcome)
    BY <1>1, OutcomeDecides
  <2>2. /\ machine' = Outcome.machine /\ lapsed' = FALSE
        /\ recordLive' = (Outcome.record \/ (camera.allFrames /\ machine'.active))
        /\ pc' \in {"start", "finish", "picture"}
        /\ UNCHANGED <<sample, movie, best, hooks, interrupts, seenVars, othersVars, sharedVars>>
    BY <1>8 DEF Decide
  <2>3. machine'.active \in BOOLEAN /\ machine'.number \in {machine.number, machine.number + 1}
    BY <2>1, <2>2 DEF Decided
  <2>4. movie' \in 0..machine'.number /\ best' \in [event : 0..machine'.number, jpeg : BOOLEAN]
    <3>1. 0..machine.number \subseteq 0..machine'.number
      BY <1>1, <2>3 DEF TypeOK
    <3> QED
      BY <1>1, <2>2, <3>1 DEF TypeOK
  <2>5. recordLive' \in BOOLEAN /\ machine'.number \in Nat
    BY <1>1, <2>2, <2>3 DEF TypeOK
  <2> QED
    BY <1>1, <2>2, <2>3, <2>4, <2>5 DEF TypeOK
<1>9. CASE StartEvent
  BY <1>1, <1>9 DEF StartEvent, TypeOK
<1>10. CASE FinishEvent
  <2>1. /\ movie' = 0 /\ best' = NoPicture /\ recordLive' = FALSE /\ pc' = "picture"
        /\ UNCHANGED <<sample, machine, interrupts, seenVars, othersVars, sharedVars, lapsed>>
    BY <1>10 DEF FinishEvent, finish_event
  <2>2. /\ movie' \in 0..machine.number /\ best' \in [event : 0..machine.number, jpeg : BOOLEAN]
        /\ recordLive' \in BOOLEAN
    <3>1. machine.number \in Nat
      BY <1>1 DEF TypeOK
    <3>2. recordLive' \in BOOLEAN
      BY <2>1
    <3> QED
      BY <1>a, <2>1, <3>1, <3>2
  <2> QED
    BY <1>1, <2>1, <2>2 DEF TypeOK
<1>11. CASE ChoosePicture
  <2>1. best' \in [event : 0..machine.number, jpeg : BOOLEAN]
    <3>1. CASE best' = best
      BY <1>1, <3>1 DEF TypeOK
    <3>2. ASSUME NEW jpeg \in {FALSE, camera.picture},
                 best' = [event |-> machine.number, jpeg |-> jpeg]
          PROVE  best' \in [event : 0..machine.number, jpeg : BOOLEAN]
      <4>1. machine.number \in 0..machine.number
        BY <1>1 DEF TypeOK
      <4>2. jpeg \in BOOLEAN
        BY <1>1, Zenon
      <4> DEFINE n == machine.number
      <4> HIDE DEF n
      <4>3. best' = [event |-> n, jpeg |-> jpeg] /\ n \in 0..machine.number
        BY <3>2, <4>1 DEF n
      <4> QED
        BY <4>2, <4>3
    <3> QED
      BY <1>11, <3>1, <3>2 DEF ChoosePicture
  <2> QED
    BY <1>1, <1>11, <2>1 DEF ChoosePicture, NoSample, TypeOK
<1>12. CASE Interrupted
  BY <1>1, <1>12 DEF Interrupted, TypeOK
<1>13. CASE StopReading
  BY <1>1, <1>13 DEF StopReading, TypeOK
<1>14. CASE CloseStream
  <2>1. ~Stop(machine).machine.active /\ Stop(machine).machine.number = machine.number
    BY StopIdles
  <2>2. /\ pc' = "open" /\ sample' = NoSample
        /\ UNCHANGED <<interrupts, seenVars, othersVars, sharedVars, lapsed>>
        /\ \/ /\ machine' = Stop(machine).machine
              /\ movie' = 0 /\ best' = NoPicture /\ recordLive' = FALSE
           \/ UNCHANGED <<machine, recordVars>>
    BY <1>14 DEF CloseStream, finish_event
  <2>3. sample' \in [frame : BOOLEAN, local : BOOLEAN, lapse : BOOLEAN, edge : BOOLEAN,
                     timedOut : BOOLEAN]
    BY <2>2 DEF NoSample
  <2>4. /\ machine'.active \in BOOLEAN /\ machine'.number = machine.number
        /\ movie' \in 0..machine.number /\ best' \in [event : 0..machine.number, jpeg : BOOLEAN]
        /\ recordLive' \in BOOLEAN
    <3>1. machine'.active \in BOOLEAN /\ machine'.number = machine.number
      <4>1. Stop(machine).machine.active \in BOOLEAN
        BY DEF Stop, Ends, Idle
      <4> QED
        BY <1>1, <2>1, <2>2, <4>1 DEF TypeOK
    <3>2. machine.number \in Nat
      BY <1>1 DEF TypeOK
    <3> QED
      BY <1>1, <1>a, <2>2, <3>1, <3>2 DEF TypeOK
  <2> QED
    BY <1>1, <2>2, <2>3, <2>4 DEF TypeOK
<1> QED
  BY <1>2, <1>3, <1>4, <1>5, <1>6, <1>7, <1>8, <1>9, <1>10, <1>11, <1>12, <1>13, <1>14 DEF Source

LEMMA OnvifTypes ==
  ASSUME IInv, Onvif
  PROVE  TypeOK'
<1> USE DEF OnvifSteps, sourceOwned, sourceVars, sharedVars
<1>1. TypeOK /\ camera.renewable \in BOOLEAN
  BY WorkerAssumption DEF IInv, TypeOK, CameraType
<1>2. CASE Subscribe
  BY <1>1, <1>2 DEF Subscribe, TypeOK
<1>3. CASE LoseSubscription
  BY <1>1, <1>3 DEF LoseSubscription, TypeOK
<1>4. ASSUME NEW k \in Keys, NEW active \in BOOLEAN, Receive(k, active)
      PROVE  TypeOK'
  BY <1>1, <1>4 DEF Receive, TypeOK
<1>5. CASE Deliver
  <2> DEFINE t == IF Holds
                  THEN Updated(states, notice.key, notice.active, now, camera.renewable)
                  ELSE states
  <2>1. DOMAIN t.since \cap t.expired = {}
    BY <1>1, TrackerDisjoint DEF TypeOK
  <2>2. HasState(t) \in BOOLEAN /\ (lapsed /\ ~Triggers) \in BOOLEAN
    BY DEF HasState
  <2>3. /\ states' = t /\ onvifMotion' = HasState(t) /\ triggers' \in {triggers, triggers + 1}
        /\ lapsed' = (lapsed /\ ~Triggers) /\ onvifPc' = "report"
        /\ UNCHANGED <<sourceOwned, notice, notices, timeouts, statusMotion>>
    BY <1>5 DEF Deliver
  <2> HIDE DEF t
  <2> QED
    BY <1>1, <2>1, <2>2, <2>3 DEF TypeOK
<1>6. CASE Report
  BY <1>1, <1>6 DEF Report, NoNotice, TypeOK
<1>7. CASE Disconnect
  <2>1. states'.expired = {} /\ onvifMotion' \in BOOLEAN
    BY <1>7 DEF Disconnect, NoStates
  <2> QED
    BY <1>1, <1>7, <2>1 DEF Disconnect, TypeOK
<1>8. CASE ReportDown
  <2>1. onvifPc' \in {"exited", "subscribing"} /\ statusMotion' \in BOOLEAN
    BY <1>8 DEF ReportDown
  <2> QED
    BY <1>1, <1>8, <2>1 DEF ReportDown, TypeOK
<1> QED
  BY <1>2, <1>3, <1>4, <1>5, <1>6, <1>7, <1>8 DEF Onvif

LEMMA TypeStep ==
  ASSUME IInv, [Next]_vars
  PROVE  TypeOK'
<1>1. CASE Tick
  BY <1>1 DEF Tick, IInv, TypeOK, sourceVars, onvifVars, sharedVars
<1>2. CASE RequestStop
  BY <1>2 DEF RequestStop, IInv, TypeOK, sourceVars, onvifVars, sharedVars
<1>3. CASE UNCHANGED vars
  BY <1>3 DEF vars, IInv, TypeOK, sourceVars, onvifVars, sharedVars
<1> QED
  BY <1>1, <1>2, <1>3, SourceTypes, OnvifTypes DEF Next, Ended

-----------------------------------------------------------------------------
(* The hooks and what is recorded of an event.                             *)

LEMMA OneHook ==
  /\ <<>> \in Seq(HookKinds)
  /\ \A hook \in HookKinds : <<hook>> \in Seq(HookKinds)
OBVIOUS

LEMMA AnnouncedIs ==
  /\ Announced(TRUE) = <<"event-start", "movie-start">>
  /\ Announced(FALSE) = <<"event-start">>
  /\ Announced(TRUE) \in Seq(HookKinds) /\ Announced(FALSE) \in Seq(HookKinds)
<1>3. "event-start" \in HookKinds /\ "movie-start" \in HookKinds
  BY DEF HookKinds
<1>1. Announced(TRUE) = <<"event-start">> \o <<"movie-start">>
      /\ Announced(FALSE) = <<"event-start">> \o <<>>
  BY DEF Announced
<1>2. <<"event-start">> \o <<"movie-start">> = <<"event-start", "movie-start">>
  <2> DEFINE one == <<"event-start">> \o <<"movie-start">>
             two == <<"event-start", "movie-start">>
  <2>1. /\ one \in Seq(HookKinds) /\ Len(one) = 2 /\ one[1] = "event-start"
        /\ one[2] = "movie-start"
    BY <1>3, OneHook, ConcatProperties
  <2>2. two \in Seq(HookKinds) /\ Len(two) = 2 /\ two[1] = "event-start" /\ two[2] = "movie-start"
    BY <1>3
  <2> HIDE DEF one, two
  <2>3. \A i \in 1..Len(one) : one[i] = two[i]
    BY <2>1, <2>2
  <2>4. one = two
    BY <2>1, <2>2, <2>3, SeqEqual
  <2> QED
    BY <2>4 DEF one, two
<1>4. <<"event-start">> \o <<>> = <<"event-start">>
  BY <1>3, OneHook, ConcatEmptySeq
<1>5. <<"event-start">> \o <<"movie-start">> \in Seq(HookKinds)
  BY <1>3, OneHook, ConcatProperties
<1> QED
  BY <1>1, <1>2, <1>3, <1>4, <1>5, OneHook

LEMMA AnnouncedBy ==
  ASSUME NEW n
  PROVE  Announced(n # 0) = IF n # 0 THEN Announced(TRUE) ELSE Announced(FALSE)
BY DEF Announced

LEMMA HooksAssociate ==
  ASSUME NEW s \in Seq(HookKinds), NEW t \in Seq(HookKinds), NEW u \in Seq(HookKinds)
  PROVE  (s \o t) \o u = s \o (t \o u)
BY ConcatAssociative

(* The picture's hook after the end's.                                     *)
LEMMA PictureFollows ==
  <<"event-end">> \o <<"event-picture">> = <<"event-end", "event-picture">>
<1> DEFINE one == <<"event-end">> \o <<"event-picture">>
           two == <<"event-end", "event-picture">>
<1>1. one \in Seq(HookKinds) /\ two \in Seq(HookKinds)
  <2>1. "event-end" \in HookKinds /\ "event-picture" \in HookKinds
    BY DEF HookKinds
  <2>2. <<"event-end">> \in Seq(HookKinds) /\ <<"event-picture">> \in Seq(HookKinds)
    BY <2>1, OneHook
  <2>3. two \in Seq(HookKinds)
    BY <2>1
  <2> QED
    BY <2>2, <2>3, ConcatProperties
<1>2. Len(one) = Len(two)
  OBVIOUS
<1>3. \A i \in 1..Len(one) : one[i] = two[i]
  OBVIOUS
<1> HIDE DEF one, two
<1>4. one = two
  BY <1>1, <1>2, <1>3, SeqEqual
<1> QED
  BY <1>4 DEF one, two

(* finish_event closes what the event opened and announces it.             *)
LEMMA FinishCompletes ==
  ASSUME TypeOK, Owned, finish_event
  PROVE  NothingOpen' /\ Complete' /\ hooks' \in Seq(HookKinds)
<1>1. PICK saved \in {FALSE, best.jpeg} : hooks' = hooks \o Ending(saved)
  BY DEF finish_event
<1>2. saved \in BOOLEAN
  <2>1. best.jpeg \in BOOLEAN
    BY DEF TypeOK
  <2> QED
    BY <2>1, Zenon
<1> DEFINE withMovie == movie # 0
           end == <<"event-end">>
           pictured == IF saved THEN <<"event-picture">> ELSE <<>>
           closed == IF movie # 0 THEN <<"movie-end">> ELSE <<>>
<1>3. end \in Seq(HookKinds) /\ pictured \in Seq(HookKinds) /\ closed \in Seq(HookKinds)
  <2>1. "event-end" \in HookKinds /\ "event-picture" \in HookKinds /\ "movie-end" \in HookKinds
    BY DEF HookKinds
  <2> QED
    BY <2>1, OneHook
<1>4. withMovie \in BOOLEAN /\ hooks = Announced(withMovie)
  BY DEF Owned
<1>5. hooks \in Seq(HookKinds)
  BY <1>4, AnnouncedIs
<1>6. hooks' = hooks \o ((end \o pictured) \o closed)
  BY <1>1 DEF Ending
<1>7. hooks' = (hooks \o (end \o pictured)) \o closed /\ hooks' \in Seq(HookKinds)
  <2> DEFINE both == end \o pictured
  <2> HIDE DEF end, pictured, closed
  <2>1. both \in Seq(HookKinds) /\ both \o closed \in Seq(HookKinds)
    BY <1>3, ConcatProperties
  <2> HIDE DEF both
  <2>2. hooks \o (both \o closed) = (hooks \o both) \o closed
    BY <1>3, <1>5, <2>1, HooksAssociate
  <2>3. hooks \o (both \o closed) \in Seq(HookKinds)
    BY <1>5, <2>1, ConcatProperties
  <2>4. hooks' = hooks \o (both \o closed)
    BY <1>6 DEF both
  <2>5. hooks' = (hooks \o both) \o closed
    BY <2>2, <2>4
  <2> QED
    BY <2>3, <2>4, <2>5 DEF both
<1>8. end \o pictured \in Endings
  <2>1. CASE saved
    <3>1. end \o pictured = <<"event-end", "event-picture">>
      BY <2>1, PictureFollows
    <3> QED
      BY <3>1 DEF Endings
  <2>2. CASE ~saved
    <3>1. end \o pictured = end
      BY <1>3, <2>2, ConcatEmptySeq
    <3> QED
      BY <3>1 DEF Endings
  <2> QED
    BY <1>2, <2>1, <2>2
<1>9. Complete'
  <2> DEFINE ending == end \o pictured
  <2>1. hooks' = Announced(withMovie) \o ending
                 \o (IF withMovie THEN <<"movie-end">> ELSE <<>>)
    BY <1>4, <1>7
  <2>2. ending \in Endings
    BY <1>8
  <2> HIDE DEF withMovie, ending, end, pictured
  <2> QED
    BY <1>4, <2>1, <2>2 DEF Complete
<1>10. NothingOpen'
  BY DEF finish_event, NothingOpen, NoPicture
<1> QED
  BY <1>7, <1>9, <1>10

(* Steps of the source thread that only move it.                           *)
LEMMA EventKept ==
  ASSUME IInv, UNCHANGED <<machine, recordVars>>,
         \/ pc' = pc
         \/ pc \in {"read", "expired", "observe", "closing"}
            /\ pc' \in {"read", "expired", "observe", "decide", "closing", "failed"}
         \/ pc = "open" /\ pc' \in {"read", "exited", "failed"}
         \/ pc = "closing" /\ pc' = "open" /\ ~machine.active
  PROVE  EventOK' /\ hooks' \in Seq(HookKinds)
<1>1. Resting' = Resting /\ Owned' = Owned /\ NothingOpen' = NothingOpen /\ Complete' = Complete
  BY DEF recordVars, Resting, Owned, NothingOpen, Complete
<1>2. ~machine.active /\ NothingOpen /\ Complete => Resting
  BY DEF Resting
<1>3. ~machine.active /\ Resting => NothingOpen /\ Complete
  BY DEF Resting
<1> QED
  BY <1>1, <1>2, <1>3 DEF IInv, EventOK, recordVars

LEMMA EventStep ==
  ASSUME IInv, [Next]_vars
  PROVE  EventOK' /\ hooks' \in Seq(HookKinds)
<1>1. CASE UNCHANGED <<pc, machine, recordVars>>
  BY <1>1, EventKept
<1>2. CASE Open
  BY <1>2, EventKept DEF Open
<1>3. CASE Leave
  <2>1. ~machine.active /\ NothingOpen /\ Complete
    BY <1>3 DEF Leave, IInv, EventOK
  <2>2. /\ pc' = "exited" /\ movie' = 0
        /\ UNCHANGED <<machine, recordLive, best, hooks>>
    BY <1>3 DEF Leave
  <2>3. ~machine'.active /\ NothingOpen' /\ Complete'
    BY <2>1, <2>2 DEF NothingOpen, Complete
  <2> QED
    BY <2>2, <2>3 DEF IInv, EventOK
<1>4. ASSUME NEW frame \in BOOLEAN, NEW local \in BOOLEAN, Read(frame, local)
      PROVE  EventOK' /\ hooks' \in Seq(HookKinds)
  <2>1. pc = "read" /\ pc' \in {"expired", "observe", "read"} /\ UNCHANGED <<machine, recordVars>>
    BY <1>4 DEF Read
  <2> QED
    BY <2>1, EventKept
<1>5. CASE PublishExpiry
  <2>1. /\ pc = "expired" /\ pc' \in {"observe", "read"} /\ UNCHANGED <<machine, recordVars>>
    BY <1>5 DEF PublishExpiry
  <2> QED
    BY <2>1, EventKept
<1>6. CASE MaskFails
  BY <1>6 DEF MaskFails, IInv, EventOK
<1>7. CASE Observe
  BY <1>7, EventKept DEF Observe
<1>8. CASE Decide
  <2> DEFINE o == Outcome
  <2>1. Decided(machine, o)
    BY OutcomeDecides DEF IInv
  <2>2. /\ machine' = o.machine
        /\ recordLive' = (o.record \/ (camera.allFrames /\ machine'.active))
        /\ pc' = IF o.started THEN "start" ELSE IF o.ended THEN "finish" ELSE "picture"
        /\ UNCHANGED <<movie, best, hooks>>
    BY <1>8 DEF Decide
  <2> HIDE DEF o
  <2>3. Resting /\ machine.number \in Nat /\ machine.active \in BOOLEAN
    BY <1>8 DEF Decide, IInv, EventOK, TypeOK
  <2>4. recordLive' => machine'.active
    BY <2>1, <2>2 DEF Decided
  <2>5. CASE o.started
    <3>1. pc' = "start" /\ ~machine.active /\ machine'.active /\ machine'.number # 0
      BY <2>1, <2>2, <2>3, <2>5 DEF Decided
    <3>2. movie' = 0 /\ best'.event = 0
      BY <2>2, <2>3, <3>1 DEF Resting, NothingOpen
    <3> QED
      BY <2>2, <3>1, <3>2 DEF IInv, EventOK
  <2>6. CASE ~o.started /\ o.ended
    <3>1. pc' = "finish" /\ machine.active /\ ~machine'.active /\ machine'.number = machine.number
      BY <2>1, <2>2, <2>6 DEF Decided
    <3>2. Owned'
      BY <2>2, <2>3, <3>1 DEF Resting, Owned
    <3> QED
      BY <2>2, <2>4, <3>1, <3>2 DEF IInv, EventOK
  <2>7. CASE ~o.started /\ ~o.ended
    <3>1. pc' = "picture" /\ machine'.active = machine.active /\ machine'.number = machine.number
      BY <2>1, <2>2, <2>7 DEF Decided
    <3>2. CASE machine.active
      <4>1. machine.number # 0 /\ Owned /\ best.event = machine.number
        BY <2>3, <3>2 DEF Resting
      <4>2. Owned'
        BY <2>2, <3>1, <4>1 DEF Owned
      <4> QED
        BY <2>2, <3>1, <3>2, <4>1, <4>2 DEF IInv, EventOK
    <3>3. CASE ~machine.active
      <4>1. NothingOpen /\ Complete
        BY <2>3, <3>3 DEF Resting
      <4>2. NothingOpen' /\ Complete'
        BY <2>2, <2>4, <3>1, <3>3, <4>1 DEF NothingOpen, Complete
      <4> QED
        BY <2>2, <3>1, <3>3, <4>2 DEF IInv, EventOK
    <3> QED
      BY <3>2, <3>3
  <2> QED
    BY <2>5, <2>6, <2>7
<1>9. CASE StartEvent
  <2>1. machine.active /\ machine.number # 0 /\ movie = 0 /\ best.event = 0
    BY <1>9 DEF StartEvent, IInv, EventOK
  <2>2. /\ UNCHANGED <<machine, recordLive, best>>
        /\ \/ /\ movie' = machine.number /\ hooks' = <<"event-start", "movie-start">>
              /\ pc' = "picture"
           \/ /\ movie' = 0 /\ hooks' = <<"event-start">> /\ pc' \in {"picture", "aborted"}
    BY <1>9, <2>1 DEF StartEvent
  <2>3. ASSUME movie' = machine.number, hooks' = <<"event-start", "movie-start">>
        PROVE  Owned' /\ hooks' \in Seq(HookKinds)
    <3>1. Announced(movie' # 0) = Announced(TRUE)
      BY <2>1, <2>3, AnnouncedBy
    <3>2. hooks' = Announced(movie' # 0)
      BY <2>3, <3>1, AnnouncedIs, Zenon
    <3>3. movie' \in {0, machine'.number} /\ hooks' \in Seq(HookKinds)
      BY <2>2, <2>3, AnnouncedIs
    <3> QED
      BY <3>2, <3>3, Zenon DEF Owned
  <2>4. ASSUME movie' = 0, hooks' = <<"event-start">>
        PROVE  Owned' /\ hooks' \in Seq(HookKinds)
    <3>1. Announced(movie' # 0) = Announced(FALSE)
      BY <2>4, AnnouncedBy
    <3>2. hooks' = Announced(movie' # 0)
      BY <2>4, <3>1, AnnouncedIs, Zenon
    <3>3. movie' \in {0, machine'.number} /\ hooks' \in Seq(HookKinds)
      BY <2>2, <2>4, AnnouncedIs
    <3> QED
      BY <3>2, <3>3, Zenon DEF Owned
  <2>5. Owned' /\ hooks' \in Seq(HookKinds)
    BY <2>2, <2>3, <2>4
  <2> QED
    BY <2>1, <2>2, <2>5 DEF EventOK
<1>10. CASE FinishEvent
  <2>1. ~machine.active /\ Owned /\ TypeOK
    BY <1>10 DEF FinishEvent, IInv, EventOK
  <2>2. finish_event /\ pc' = "picture" /\ machine' = machine
    BY <1>10 DEF FinishEvent
  <2>3. NothingOpen' /\ Complete' /\ hooks' \in Seq(HookKinds)
    BY <2>1, <2>2, FinishCompletes
  <2> QED
    BY <2>1, <2>2, <2>3 DEF EventOK
<1>11. CASE ChoosePicture
  <2>1. /\ pc = "picture" /\ pc' = "read" /\ UNCHANGED <<machine, movie, recordLive, hooks>>
        /\ \/ (machine.active => best.event # 0) /\ best' = best
           \/ machine.active /\ best'.event = machine.number
    BY <1>11 DEF ChoosePicture
  <2>2. CASE machine.active
    <3>1. machine.number # 0 /\ Owned /\ best.event \in {0, machine.number}
      BY <2>1, <2>2 DEF IInv, EventOK
    <3>2. Owned' /\ best'.event = machine.number
      BY <2>1, <2>2, <3>1 DEF Owned
    <3> QED
      BY <2>1, <2>2, <3>1, <3>2 DEF IInv, EventOK, Resting
  <2>3. CASE ~machine.active
    <3>1. NothingOpen /\ Complete
      BY <2>1, <2>3 DEF IInv, EventOK
    <3>2. NothingOpen' /\ Complete'
      BY <2>1, <2>3, <3>1 DEF NothingOpen, Complete
    <3> QED
      BY <2>1, <2>3, <3>2 DEF IInv, EventOK, Resting
  <2> QED
    BY <2>2, <2>3
<1>12. CASE Interrupted
  BY <1>12, EventKept DEF Interrupted
<1>13. CASE StopReading
  BY <1>13, EventKept DEF StopReading
<1>14. CASE CloseStream
  <2>1. pc = "closing" /\ pc' = "open" /\ Resting /\ TypeOK
    BY <1>14 DEF CloseStream, IInv, EventOK
  <2>2. CASE machine.active /\ machine' = Stop(machine).machine /\ finish_event
    <3>1. Owned /\ ~machine'.active
      BY <2>1, <2>2, StopIdles DEF Resting
    <3>2. NothingOpen' /\ Complete' /\ hooks' \in Seq(HookKinds)
      BY <2>1, <2>2, <3>1, FinishCompletes
    <3> QED
      BY <2>1, <3>1, <3>2 DEF EventOK
  <2>3. CASE ~machine.active /\ UNCHANGED <<machine, recordVars>>
    BY <2>1, <2>3, EventKept
  <2> QED
    BY <1>14, <2>2, <2>3 DEF CloseStream
<1> QED
  <2>1. CASE UNCHANGED vars \/ Tick \/ RequestStop \/ Onvif
    BY <2>1, <1>1 DEF vars, Tick, RequestStop, Onvif, Subscribe, LoseSubscription, Receive, Deliver,
       Report, Disconnect, ReportDown, sourceOwned, sourceVars, recordVars
  <2> QED
    BY <2>1, <1>2, <1>3, <1>4, <1>5, <1>6, <1>7, <1>8, <1>9, <1>10, <1>11, <1>12, <1>13, <1>14
       DEF Next, Source, Ended

-----------------------------------------------------------------------------
(* The ONVIF state, as each thread knows it.                               *)

LEMMA ExpiryHolds ==
  ASSUME NEW t, NEW clock, NEW renewable
  PROVE  LET e == Expired(t, clock, renewable)
         IN /\ Stale(t, clock) = {} => HasState(e) = HasState(t)
            /\ ~HasState(t) => ~HasState(e)
<1>1. DOMAIN Expired(t, clock, renewable).since = DOMAIN t.since \ Stale(t, clock)
  BY DEF Expired, Without, Restrict
<1> QED
  BY <1>1 DEF HasState

LEMMA RefusalHolds ==
  ASSUME NEW t, ~HasState(t), NEW k, NEW active \in BOOLEAN, NEW clock, NEW renewable \in BOOLEAN,
         ~active \/ ~Accepts(t, k, active, renewable)
  PROVE  ~HasState(Updated(t, k, active, clock, renewable))
<1>1. CASE ~active
  <2>1. Updated(t, k, active, clock, renewable).since = Without(t.since, {k})
    BY <1>1 DEF Updated
  <2>2. DOMAIN Without(t.since, {k}) = DOMAIN t.since \ {k}
    BY DEF Without, Restrict
  <2> QED
    BY <2>1, <2>2 DEF HasState
<1>2. CASE active /\ ~Accepts(t, k, active, renewable)
  <2>1. ~renewable
    BY <1>2 DEF Accepts
  <2>2. Updated(t, k, active, clock, renewable) = t
    BY <1>2, <2>1 DEF Updated
  <2> QED
    BY <2>2
<1> QED
  BY <1>1, <1>2

(* Steps that change no state.                                             *)
LEMMA OnvifKept ==
  ASSUME IInv, UNCHANGED <<camera, states, onvifMotion, triggers, statusMotion>>,
         \/ onvifPc' = onvifPc
         \/ /\ camera.events /\ onvifPc \notin {"report", "cleared"}
            /\ onvifPc' \in OnvifSteps \ {"cleared"},
         pc' = pc \/ pc # "expired",
         \/ sample'.edge = sample.edge
         \/ sample'.edge = FALSE
         \/ sample'.edge = (triggers # seenTrigger)
  PROVE  OnvifOK'
<1>1. HasState(states)' = HasState(states)
  BY DEF HasState
<1>2. StatusSettles'
  BY DEF IInv, OnvifOK, StatusSettles
<1>3. ~camera'.events => onvifPc' = "exited" /\ triggers' = 0 /\ ~sample'.edge
  BY DEF IInv, OnvifOK, TypeOK
<1> QED
  BY <1>1, <1>2, <1>3 DEF IInv, OnvifOK

LEMMA OnvifOKStep ==
  ASSUME IInv, [Next]_vars
  PROVE  OnvifOK'
<1> USE DEF othersVars, recordVars, seenVars, sharedVars, onvifVars
<1>1. CASE UNCHANGED <<camera, states, onvifMotion, triggers, statusMotion, onvifPc, pc, sample>>
  BY <1>1, OnvifKept
<1>2. CASE Open
  BY <1>2, OnvifKept DEF Open
<1>3. CASE Leave
  BY <1>3, OnvifKept DEF Leave
<1>4. ASSUME NEW frame \in BOOLEAN, NEW local \in BOOLEAN, Read(frame, local)
      PROVE  OnvifOK'
  <2> DEFINE t == Expired(states, now, camera.renewable)
  <2>1. /\ states' = t /\ onvifMotion' = HasState(t) /\ sample'.edge = FALSE
        /\ pc = "read" /\ (Stale(states, now) # {} => pc' = "expired")
        /\ UNCHANGED <<camera, triggers, statusMotion, onvifPc>>
    BY <1>4 DEF Read, NoSample
  <2>2. /\ Stale(states, now) = {} => HasState(t) = HasState(states)
        /\ ~HasState(states) => ~HasState(t)
    BY ExpiryHolds
  <2> HIDE DEF t
  <2>3. HasState(states)' = HasState(t)
    BY <2>1 DEF HasState
  <2>4. StatusSettles'
    BY <2>1, <2>2 DEF IInv, OnvifOK, StatusSettles
  <2> QED
    BY <2>1, <2>2, <2>3, <2>4 DEF IInv, OnvifOK
<1>5. CASE PublishExpiry
  <2>1. /\ pc = "expired" /\ pc' \in {"observe", "read"} /\ statusMotion' = onvifMotion
        /\ UNCHANGED <<camera, sample, states, onvifMotion, triggers, onvifPc>>
    BY <1>5 DEF PublishExpiry
  <2> QED
    BY <2>1 DEF IInv, OnvifOK, StatusSettles, HasState
<1>6. CASE MaskFails
  BY <1>6, OnvifKept DEF MaskFails
<1>7. CASE Observe
  <2>1. sample'.edge = (triggers # seenTrigger)
    BY <1>7 DEF Observe, IInv, TypeOK
  <2> QED
    BY <1>7, <2>1, OnvifKept DEF Observe
<1>8. CASE Decide
  <2>1. pc = "decide" /\ UNCHANGED <<sample, camera, states, onvifMotion, triggers, statusMotion, onvifPc>>
    BY <1>8 DEF Decide
  <2> QED
    BY <2>1, OnvifKept
<1>9. CASE StartEvent
  BY <1>9, OnvifKept DEF StartEvent
<1>10. CASE FinishEvent
  BY <1>10, OnvifKept DEF FinishEvent
<1>11. CASE ChoosePicture
  <2>1. /\ pc = "picture" /\ sample'.edge = FALSE
        /\ UNCHANGED <<camera, states, onvifMotion, triggers, statusMotion, onvifPc>>
    BY <1>11 DEF ChoosePicture, NoSample
  <2> QED
    BY <2>1, OnvifKept
<1>12. CASE Interrupted
  BY <1>12, OnvifKept DEF Interrupted
<1>13. CASE StopReading
  BY <1>13, OnvifKept DEF StopReading
<1>14. CASE CloseStream
  <2>1. /\ pc = "closing" /\ sample'.edge = FALSE
        /\ UNCHANGED <<camera, states, onvifMotion, triggers, statusMotion, onvifPc>>
    BY <1>14 DEF CloseStream, NoSample
  <2> QED
    BY <2>1, OnvifKept
<1>15. CASE Onvif
  <2> USE DEF sourceOwned, sourceVars, OnvifSteps
  <2>1. camera.events \/ onvifPc = "exited"
    BY DEF IInv, OnvifOK
  <2>2. CASE Subscribe
    BY <1>15, <2>1, <2>2 DEF Subscribe, IInv, OnvifOK, StatusSettles, HasState
  <2>3. CASE LoseSubscription
    BY <2>1, <2>3, OnvifKept DEF LoseSubscription
  <2>4. ASSUME NEW k \in Keys, NEW active \in BOOLEAN, Receive(k, active)
        PROVE  OnvifOK'
    BY <2>1, <2>4, OnvifKept DEF Receive
  <2>5. CASE Deliver
    <3> DEFINE t == IF Holds
                    THEN Updated(states, notice.key, notice.active, now, camera.renewable)
                    ELSE states
    <3>1. /\ states' = t /\ onvifMotion' = HasState(t) /\ onvifPc = "deliver"
          /\ onvifPc' = "report" /\ UNCHANGED camera
      BY <2>5 DEF Deliver
    <3> HIDE DEF t
    <3>2. HasState(states)' = HasState(t)
      BY <3>1 DEF HasState
    <3> QED
      BY <2>1, <3>1, <3>2 DEF OnvifOK, StatusSettles
  <2>6. CASE Report
    BY <2>1, <2>6 DEF Report, IInv, OnvifOK, StatusSettles, HasState
  <2>7. CASE Disconnect
    <3>1. /\ states' = NoStates /\ onvifMotion' = FALSE /\ onvifPc = "clearing"
          /\ onvifPc' = "cleared" /\ UNCHANGED camera
      BY <2>7 DEF Disconnect
    <3>2. HasState(states)' = FALSE
      BY <3>1 DEF HasState, NoStates
    <3> QED
      BY <2>1, <3>1, <3>2 DEF OnvifOK, StatusSettles
  <2>8. CASE ReportDown
    <3>1. /\ onvifPc = "cleared" /\ statusMotion' = FALSE /\ onvifPc' \in {"exited", "subscribing"}
          /\ UNCHANGED <<camera, states, onvifMotion>>
      BY <2>8 DEF ReportDown
    <3>2. HasState(states)' = HasState(states) /\ ~HasState(states) /\ onvifMotion = HasState(states)
      BY <3>1 DEF HasState, IInv, OnvifOK
    <3>3. statusMotion' = onvifMotion'
      BY <3>1, <3>2 DEF HasState
    <3> QED
      BY <2>1, <3>1, <3>2, <3>3 DEF OnvifOK, StatusSettles
  <2> QED
    BY <1>15, <2>2, <2>3, <2>4, <2>5, <2>6, <2>7, <2>8 DEF Onvif
<1> QED
  <2>1. CASE UNCHANGED vars \/ Tick \/ RequestStop
    BY <2>1, <1>1 DEF vars, Tick, RequestStop, sourceVars
  <2> QED
    BY <2>1, <1>2, <1>3, <1>4, <1>5, <1>6, <1>7, <1>8, <1>9, <1>10, <1>11, <1>12, <1>13, <1>14,
       <1>15 DEF Next, Source, Ended

-----------------------------------------------------------------------------
(* A lapse reaches the decision.                                           *)

LEMMA LapseKept ==
  ASSUME IInv, UNCHANGED <<states, lapsed, timeouts, seenTimeout>>,
         \/ pc' = pc /\ sample' = sample
         \/ pc \notin {"expired", "decide"} /\ pc' \notin {"expired", "decide"}
  PROVE  LapseOK'
<1>1. HasState(states)' = HasState(states)
  BY DEF HasState
<1> QED
  BY <1>1 DEF IInv, LapseOK

LEMMA LapseStep ==
  ASSUME IInv, [Next]_vars
  PROVE  LapseOK'
<1> USE DEF othersVars, recordVars, seenVars, sharedVars, onvifVars
<1>1. CASE UNCHANGED <<states, lapsed, timeouts, seenTimeout, pc, sample>>
  <2>1. pc' = pc /\ sample' = sample /\ UNCHANGED <<states, lapsed, timeouts, seenTimeout>>
    BY <1>1
  <2>2. HasState(states)' = HasState(states)
    BY <2>1 DEF HasState
  <2> QED
    BY <2>1, <2>2 DEF IInv, LapseOK
<1>2. CASE Open
  BY <1>2, LapseKept DEF Open
<1>3. CASE Leave
  BY <1>3, LapseKept DEF Leave
<1>4. ASSUME NEW frame \in BOOLEAN, NEW local \in BOOLEAN, Read(frame, local)
      PROVE  LapseOK'
  <2> DEFINE t == Expired(states, now, camera.renewable)
             lapse == Lapses(t)
  <2>1. /\ states' = t /\ pc = "read" /\ sample'.lapse = lapse
        /\ lapsed' = (lapsed \/ lapse)
        /\ pc' = IF Stale(states, now) # {} THEN "expired"
                 ELSE IF frame THEN "observe" ELSE "read"
        /\ UNCHANGED <<timeouts, seenTimeout>>
    BY <1>4 DEF Read, NoSample
  <2>2. /\ lapse => ~HasState(t) /\ Stale(states, now) # {}
        /\ ~HasState(states) => ~HasState(t)
    BY ExpiryHolds DEF Lapses
  <2> HIDE DEF t, lapse
  <2>3. HasState(states)' = HasState(t)
    BY <2>1 DEF HasState
  <2>4. lapsed => ~HasState(states) /\ timeouts # seenTimeout
    BY <2>1 DEF IInv, LapseOK
  <2>5. CASE lapse
    BY <2>1, <2>2, <2>3, <2>5 DEF LapseOK
  <2>6. CASE ~lapse
    BY <2>1, <2>2, <2>3, <2>4, <2>6 DEF LapseOK
  <2> QED
    BY <2>5, <2>6
<1>5. CASE PublishExpiry
  <2>1. /\ pc = "expired" /\ pc' \in {"observe", "read"}
        /\ timeouts' = IF sample.lapse THEN timeouts + 1 ELSE timeouts
        /\ UNCHANGED <<sample, states, lapsed, seenTimeout>>
    BY <1>5 DEF PublishExpiry
  <2>2. HasState(states)' = HasState(states)
    BY <2>1 DEF HasState
  <2>3. sample.lapse => timeouts' # seenTimeout
    BY <2>1 DEF IInv, TypeOK
  <2> QED
    BY <2>1, <2>2, <2>3 DEF IInv, LapseOK
<1>6. CASE MaskFails
  BY <1>6, LapseKept DEF MaskFails
<1>7. CASE Observe
  <2>1. /\ pc = "observe" /\ pc' = "decide" /\ UNCHANGED <<states, lapsed>>
        /\ sample'.timedOut = (timeouts # seenTimeout)
    BY <1>7 DEF Observe, IInv, TypeOK
  <2>2. HasState(states)' = HasState(states)
    BY <2>1 DEF HasState
  <2> QED
    BY <2>1, <2>2 DEF IInv, LapseOK
<1>8. CASE Decide
  BY <1>8 DEF Decide, LapseOK
<1>9. CASE StartEvent
  <2>1. /\ pc = "start" /\ pc' \in {"picture", "aborted"}
        /\ UNCHANGED <<states, lapsed, timeouts, seenTimeout>>
    BY <1>9 DEF StartEvent
  <2> QED
    BY <2>1, LapseKept
<1>10. CASE FinishEvent
  BY <1>10, LapseKept DEF FinishEvent
<1>11. CASE ChoosePicture
  BY <1>11, LapseKept DEF ChoosePicture
<1>12. CASE Interrupted
  BY <1>12, LapseKept DEF Interrupted
<1>13. CASE StopReading
  BY <1>13, LapseKept DEF StopReading
<1>14. CASE CloseStream
  BY <1>14, LapseKept DEF CloseStream
<1>15. CASE Onvif
  <2> USE DEF sourceOwned, sourceVars
  <2>1. CASE Deliver
    <3> DEFINE t == IF Holds
                    THEN Updated(states, notice.key, notice.active, now, camera.renewable)
                    ELSE states
    <3>1. /\ states' = t /\ lapsed' = (lapsed /\ ~Triggers)
          /\ UNCHANGED <<pc, sample, timeouts, seenTimeout>>
      BY <2>1 DEF Deliver
    <3>2. lapsed' => ~HasState(t)
      <4> SUFFICES ASSUME lapsed' PROVE ~HasState(t)
        OBVIOUS
      <4>1. ~HasState(states) /\ ~Triggers
        BY <3>1 DEF IInv, LapseOK
      <4>2. notice.active \in BOOLEAN /\ camera.renewable \in BOOLEAN
        BY WorkerAssumption DEF IInv, TypeOK, CameraType
      <4>3. CASE Holds
        <5>1. ~notice.active \/ ~Accepts(states, notice.key, notice.active, camera.renewable)
          BY <4>1, <4>3 DEF Triggers
        <5> QED
          BY <4>1, <4>2, <4>3, <5>1, RefusalHolds
      <4> QED
        BY <4>1, <4>3
    <3> HIDE DEF t
    <3>3. HasState(states)' = HasState(t)
      BY <3>1 DEF HasState
    <3> QED
      BY <3>1, <3>2, <3>3 DEF IInv, LapseOK
  <2>2. CASE Disconnect
    <3>1. states' = NoStates /\ UNCHANGED <<pc, sample, lapsed, timeouts, seenTimeout>>
      BY <2>2 DEF Disconnect
    <3>2. HasState(states)' = FALSE
      BY <3>1 DEF HasState, NoStates
    <3> QED
      BY <3>1, <3>2 DEF IInv, LapseOK
  <2> QED
    BY <1>15, <1>1, <2>1, <2>2 DEF Onvif, Subscribe, LoseSubscription, Receive, Report, ReportDown
<1> QED
  <2>1. CASE UNCHANGED vars \/ Tick \/ RequestStop
    BY <2>1, <1>1 DEF vars, Tick, RequestStop, sourceVars
  <2> QED
    BY <2>1, <1>2, <1>3, <1>4, <1>5, <1>6, <1>7, <1>8, <1>9, <1>10, <1>11, <1>12, <1>13, <1>14,
       <1>15 DEF Next, Source, Ended

LEMMA Inductive == Spec => []IInv
<1>1. IInv /\ [Next]_vars => IInv'
  BY TypeStep, EventStep, OnvifOKStep, LapseStep DEF IInv
<1> QED
  BY <1>1, InitIInv, PTL DEF Spec

-----------------------------------------------------------------------------
(* Every variable has its type, and no key is both held and expired.       *)
THEOREM TypeCorrect == Spec => []TypeOK
BY Inductive, PTL DEF IInv

(* However an event ends, its hooks are one start, one end and, exactly if *)
(* there was a movie, the movie's start and end around them.               *)
THEOREM HooksAreMatched == Spec => []HooksMatchEvent
<1>1. IInv => HooksMatchEvent
  BY DEF IInv, EventOK, Resting, Owned, Complete, HooksMatchEvent, AtRest
<1> QED
  BY <1>1, Inductive, PTL

(* Between samples, movie, live recording and best picture are those of    *)
(* the active event, and there are none without one.                       *)
THEOREM RecordingIsTheEvents == Spec => []RecordingMatchesEvent
<1>1. IInv => RecordingMatchesEvent
  BY DEF IInv, EventOK, TypeOK, Resting, Owned, NothingOpen, RecordingMatchesEvent, AtRest
<1> QED
  BY <1>1, Inductive, PTL

(* When no thread still has to publish, the status is the ONVIF motion.    *)
THEOREM StatusIsSettled == Spec => []StatusSettles
BY Inductive, PTL DEF IInv, OnvifOK

(* What changes the states and the triggers.                               *)
LEMMA StatesMove ==
  ASSUME [Next]_vars
  PROVE  /\ camera' = camera
         /\ \/ states' = states /\ triggers' = triggers
            \/ Deliver
            \/ Disconnect
            \/ \E frame, local \in BOOLEAN : Read(frame, local)
BY DEF vars, sourceVars, onvifVars, sharedVars, sourceOwned, othersVars, Next, Tick, RequestStop,
   Ended, Source, Onvif, Open, Leave, Read, PublishExpiry, MaskFails, Observe, Decide, StartEvent,
   FinishEvent, ChoosePicture, Interrupted, StopReading, CloseStream, Subscribe, LoseSubscription,
   Receive, Deliver, Report, Disconnect, ReportDown

(* Time only takes keys out of the states and, in legacy mode, remembers   *)
(* them.                                                                   *)
LEMMA ExpiryRemembers ==
  ASSUME ~camera.renewable, states' = Expired(states, now, camera.renewable)
  PROVE  /\ DOMAIN states'.since \subseteq DOMAIN states.since
         /\ \A k \in DOMAIN states'.since : states'.since[k] = states.since[k]
         /\ DOMAIN states.since \ DOMAIN states'.since \subseteq states'.expired
         /\ states.expired \subseteq states'.expired
         /\ states'.expired \subseteq states.expired \cup DOMAIN states.since
<1> DEFINE kept == DOMAIN states.since \ Stale(states, now)
<1>1. /\ states'.since = Restrict(states.since, kept)
      /\ states'.expired = states.expired \cup Stale(states, now)
  BY DEF Expired, Without
<1>2. Stale(states, now) \subseteq DOMAIN states.since
  BY DEF Stale
<1>3. DOMAIN states'.since = kept /\ \A k \in kept : states'.since[k] = states.since[k]
  <2>1. states'.since = [k \in DOMAIN states.since \cap kept |-> states.since[k]]
    BY <1>1 DEF Restrict
  <2> QED
    BY <2>1
<1> QED
  BY <1>1, <1>2, <1>3

(* A notification in legacy mode: a withdrawal forgets its key, an         *)
(* assertion of an expired key changes nothing, another adds its key.      *)
LEMMA DeliveryRemembers ==
  ASSUME ~camera.renewable,
         states' = Updated(states, notice.key, notice.active, now, camera.renewable)
  PROVE  /\ \A k \in DOMAIN states.since \cap DOMAIN states'.since :
              states'.since[k] = states.since[k]
         /\ ~notice.active => /\ states'.expired = states.expired \ {notice.key}
                              /\ DOMAIN states'.since = DOMAIN states.since \ {notice.key}
         /\ notice.active /\ notice.key \in states.expired => states' = states
         /\ notice.active /\ notice.key \notin states.expired =>
              /\ states'.expired = states.expired
              /\ DOMAIN states'.since = DOMAIN states.since \cup {notice.key}
<1>1. CASE ~notice.active
  <2>1. /\ states'.expired = states.expired \ {notice.key}
        /\ states'.since = Restrict(states.since, DOMAIN states.since \ {notice.key})
    BY <1>1 DEF Updated, Without
  <2>2. states'.since = [k \in DOMAIN states.since \cap (DOMAIN states.since \ {notice.key})
                           |-> states.since[k]]
    BY <2>1 DEF Restrict
  <2>3. /\ DOMAIN states'.since = DOMAIN states.since \ {notice.key}
        /\ \A k \in DOMAIN states'.since : states'.since[k] = states.since[k]
    BY <2>2
  <2> QED
    BY <1>1, <2>1, <2>3
<1>2. CASE notice.active /\ notice.key \in states.expired
  <2>1. states' = states
    BY <1>2 DEF Updated, Accepts
  <2> QED
    BY <1>2, <2>1
<1>3. CASE notice.active /\ notice.key \notin states.expired
  <2>1. /\ states'.expired = states.expired
        /\ states'.since = Asserted(states.since, notice.key, now)
    BY <1>3 DEF Updated, Accepts
  <2>2. /\ DOMAIN states'.since = DOMAIN states.since \cup {notice.key}
        /\ \A k \in DOMAIN states.since : states'.since[k] = states.since[k]
    BY <2>1 DEF Asserted
  <2> QED
    BY <1>3, <2>1, <2>2
<1> QED
  BY <1>1, <1>2, <1>3

(* In legacy mode only keys of topics that hold a state are ever tracked,  *)
(* so an assertion that skips the tracker is not of an expired key.        *)
Tracked == ~camera.renewable => DOMAIN states.since \cup states.expired \subseteq Holding

LEMMA OnlyHoldingTracked == Spec => []Tracked
<1>1. Init => Tracked
  BY DEF Init, NoStates, Tracked
<1>2. Tracked /\ IInv /\ [Next]_vars => Tracked'
  <2> SUFFICES ASSUME Tracked, IInv, [Next]_vars, ~camera.renewable
               PROVE  DOMAIN states'.since \cup states'.expired \subseteq Holding
    BY StatesMove DEF Tracked
  <2>1. DOMAIN states.since \cup states.expired \subseteq Holding
    BY DEF Tracked
  <2>2. CASE states' = states
    BY <2>1, <2>2
  <2>3. ASSUME NEW frame \in BOOLEAN, NEW local \in BOOLEAN, Read(frame, local)
        PROVE  DOMAIN states'.since \cup states'.expired \subseteq Holding
    <3>1. states' = Expired(states, now, camera.renewable)
      BY <2>3 DEF Read
    <3> QED
      BY <2>1, <3>1, ExpiryRemembers
  <2>4. CASE Deliver
    <3>1. CASE ~Holds
      BY <2>1, <2>4, <3>1 DEF Deliver
    <3>2. CASE Holds
      <4>1. /\ states' = Updated(states, notice.key, notice.active, now, camera.renewable)
            /\ notice.key \in Holding
        BY <2>4, <3>2 DEF Deliver, Holds
      <4> QED
        BY <2>1, <4>1, DeliveryRemembers
    <3> QED
      BY <3>1, <3>2
  <2>5. CASE Disconnect
    BY <2>5 DEF Disconnect, NoStates
  <2> QED
    BY <2>2, <2>3, <2>4, <2>5, StatesMove
<1> QED
  BY <1>1, <1>2, Inductive, PTL DEF Spec

(* In legacy mode no step prolongs a state, and a key whose lifetime ended *)
(* stays suppressed and triggers nothing until it is withdrawn or the      *)
(* subscription lost.                                                      *)
THEOREM LifetimesAreHard == Spec => HardLifetime
<1> DEFINE Kept == \A k \in DOMAIN states.since \cap DOMAIN states'.since :
                     states'.since[k] = states.since[k]
           Suppressed == \A k \in states.expired \cup (DOMAIN states.since \ DOMAIN states'.since) :
                           Withdraws(k) \/ k \in states'.expired \ DOMAIN states'.since
           Silent == triggers' # triggers => notice.key \notin states.expired
           Hard == ~camera.renewable => Kept /\ Suppressed /\ Silent
<1>1. IInv /\ Tracked /\ [Next]_vars => [Hard]_vars
  <2> SUFFICES ASSUME IInv, Tracked, [Next]_vars, ~camera.renewable
               PROVE  Kept /\ Suppressed /\ Silent
    OBVIOUS
  <2>1. DOMAIN states.since \cap states.expired = {}
    BY DEF IInv, TypeOK
  <2>2. CASE states' = states /\ triggers' = triggers
    BY <2>1, <2>2
  <2>3. ASSUME NEW frame \in BOOLEAN, NEW local \in BOOLEAN, Read(frame, local)
        PROVE  Kept /\ Suppressed /\ Silent
    <3>1. states' = Expired(states, now, camera.renewable) /\ triggers' = triggers
      BY <2>1, <2>3 DEF Read
    <3>2. /\ DOMAIN states'.since \subseteq DOMAIN states.since
          /\ \A k \in DOMAIN states'.since : states'.since[k] = states.since[k]
          /\ DOMAIN states.since \ DOMAIN states'.since \subseteq states'.expired
          /\ states.expired \subseteq states'.expired
      BY <3>1, ExpiryRemembers
    <3> QED
      BY <2>1, <3>1, <3>2
  <2>4. CASE Deliver
    <3>1. onvifPc = "deliver" /\ onvifPc' # onvifPc
      BY <2>4 DEF Deliver
    <3>2. CASE ~Holds
      <4>1. states' = states /\ notice.key \notin Holding
        BY <2>4, <3>2 DEF Deliver, Holds
      <4>2. notice.key \notin states.expired
        BY <4>1 DEF Tracked
      <4> QED
        BY <2>1, <4>1, <4>2
    <3>3. CASE Holds
      <4>1. states' = Updated(states, notice.key, notice.active, now, camera.renewable)
        BY <2>1, <2>4, <3>3 DEF Deliver
      <4>2. Kept
        BY <2>1, <4>1, DeliveryRemembers
      <4>3. CASE ~notice.active
        <5>1. triggers' = triggers
          BY <2>4, <4>3 DEF Deliver, Triggers
        <5>2. /\ states'.expired = states.expired \ {notice.key}
              /\ DOMAIN states'.since = DOMAIN states.since \ {notice.key}
          BY <2>1, <4>1, <4>3, DeliveryRemembers
        <5>3. Withdraws(notice.key)
          BY <3>1, <4>3 DEF Withdraws
        <5> QED
          BY <2>1, <4>2, <5>1, <5>2, <5>3
      <4>4. CASE notice.active /\ notice.key \in states.expired
        <5>1. states' = states
          BY <2>1, <4>1, <4>4, DeliveryRemembers
        <5>2. triggers' = triggers
          BY <2>1, <2>4, <3>3, <4>4 DEF Deliver, Triggers, Accepts
        <5> QED
          BY <2>1, <4>2, <5>1, <5>2
      <4>5. CASE notice.active /\ notice.key \notin states.expired
        <5>1. /\ states'.expired = states.expired
              /\ DOMAIN states'.since = DOMAIN states.since \cup {notice.key}
          BY <2>1, <4>1, <4>5, DeliveryRemembers
        <5> QED
          BY <2>1, <4>2, <4>5, <5>1
      <4> QED
        BY <4>3, <4>4, <4>5
    <3> QED
      BY <3>2, <3>3
  <2>5. CASE Disconnect
    <3>1. DOMAIN states'.since = {} /\ triggers' = triggers
      BY <2>5 DEF Disconnect, NoStates
    <3>2. \A k : Withdraws(k)
      BY <2>5 DEF Disconnect, Withdraws
    <3> QED
      BY <3>1, <3>2
  <2> QED
    BY <2>2, <2>3, <2>4, <2>5, StatesMove
<1> QED
  BY <1>1, Inductive, OnlyHoldingTracked, PTL DEF Spec, HardLifetime

(* After a lapse the next decision leaves no event without motion, and a   *)
(* new assertion one unless it is cut by its maximum duration.             *)
THEOREM OnvifRules == Spec => OnvifRulesEvent
<1> DEFINE Rules ==
      pc = "decide" /\ pc' # pc =>
        /\ lapsed /\ ~sample.local /\ ~sample.edge => ~machine'.active
        /\ sample.edge => machine'.active \/ Overdue(machine, now)
<1>1. IInv /\ [Next]_vars => [Rules]_vars
  <2> SUFFICES ASSUME IInv, [Next]_vars, pc = "decide", pc' # pc
               PROVE  /\ lapsed /\ ~sample.local /\ ~sample.edge => ~machine'.active
                      /\ sample.edge => machine'.active \/ Overdue(machine, now)
    OBVIOUS
  <2>1. Decide
    BY DEF vars, sourceVars, sourceOwned, Next, Tick, RequestStop, Ended, Source, Onvif, Open,
       Leave, Read, PublishExpiry, MaskFails, Observe, StartEvent, FinishEvent, ChoosePicture,
       Interrupted, StopReading, CloseStream, Subscribe, LoseSubscription, Receive, Deliver, Report,
       Disconnect, ReportDown
  <2>2. machine' = Outcome.machine
    BY <2>1 DEF Decide
  <2>3. /\ machine.active \in BOOLEAN /\ sample.local \in BOOLEAN /\ sample.edge \in BOOLEAN
        /\ onvifMotion \in BOOLEAN /\ camera.events \in BOOLEAN
    BY WorkerAssumption DEF IInv, TypeOK, CameraType
  <2> DEFINE motion == sample.local \/ (camera.events /\ (onvifMotion \/ sample.edge))
             force == camera.events /\ sample.edge
  <2>4. motion \in BOOLEAN /\ force \in BOOLEAN
    BY <2>3
  <2>5. ASSUME lapsed, ~sample.local, ~sample.edge
        PROVE  ~machine'.active
    <3>1. ~onvifMotion /\ sample.timedOut
      BY <2>5 DEF IInv, OnvifOK, LapseOK
    <3>2. CASE machine.active
      <4>1. Outcome = Stop(machine)
        BY <2>5, <3>1, <3>2 DEF Outcome
      <4> QED
        BY <2>2, <4>1, StopIdles
    <3>3. CASE ~machine.active
      <4>1. ~motion /\ Outcome = Update(machine, motion, now, force)
        BY <2>3, <2>5, <3>1, <3>3 DEF Outcome
      <4> HIDE DEF motion, force
      <4> QED
        BY <2>2, <2>3, <2>4, <3>3, <4>1, UpdateDecides
    <3> QED
      BY <3>2, <3>3
  <2>6. ASSUME sample.edge
        PROVE  machine'.active \/ Overdue(machine, now)
    <3>1. camera.events
      BY <2>6 DEF IInv, OnvifOK
    <3>2. Outcome = Update(machine, TRUE, now, TRUE)
      BY <2>3, <2>6, <3>1 DEF Outcome
    <3>3. ~Overdue(machine, now) => Update(machine, TRUE, now, TRUE).machine.active
      BY ForcedStarts
    <3> QED
      BY <2>2, <3>2, <3>3
  <2> QED
    BY <2>5, <2>6
<1> QED
  BY <1>1, Inductive, PTL DEF Spec, OnvifRulesEvent
=============================================================================
