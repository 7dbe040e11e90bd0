---------------------------- MODULE EventProofs ----------------------------
(***************************************************************************)
(* Proofs about what makes events and what handles them.  The event state  *)
(* machine, for every setting its constructor accepts and every sequence   *)
(* of frames: that an event is bounded, and that the grouping of the       *)
(* frames is the one EventGroups states.  And the event worker: that no    *)
(* event waits longer than it may.                                         *)
(***************************************************************************)
EXTENDS EventGroups, EventWorker, WellFoundedInduction, TLAPS

(* The machine as a record, so that its fields can be reasoned about.      *)
MachineType ==
  [active : BOOLEAN, consecutive : Nat, post : Nat,
   lastMotion : Int, startedAt : Int, number : Nat]

IInv == machine \in MachineType /\ TypeOK /\ EventIsBounded

(* Ending the event at any time leaves the machine idle and typed.         *)
LEMMA EndedIsIdle ==
  ASSUME IInv, NEW step \in Nat, now' = now + step, machine' = Ends(machine).machine
  PROVE  IInv'
<1>1. machine' = Idle(machine.number)
  BY DEF Ends
<1>2. machine.number \in Nat /\ now \in Nat
  BY DEF IInv, TypeOK
<1>3. machine' \in MachineType
  BY <1>1, <1>2 DEF Idle, MachineType, NoTime
<1>4. TypeOK'
  BY <1>1, <1>2, SettingsAssumption DEF TypeOK, Idle
<1>5. EventIsBounded'
  BY <1>1 DEF EventIsBounded, Idle
<1> QED
  BY <1>3, <1>4, <1>5 DEF IInv

(* A frame that is neither overdue nor quiet keeps the bounds.             *)
LEMMA ContinuedIsBounded ==
  ASSUME IInv, NEW step \in Nat, NEW motion \in BOOLEAN, NEW force \in BOOLEAN,
         now' = now + step,
         ~Overdue(machine, now + step), ~Quiet(machine, motion, now + step),
         machine' = Continued(machine, motion, now + step, force).machine
  PROVE  IInv'
<1> DEFINE confirmed == Confirmed(machine, motion, force)
           trailing == Trailing(machine, motion, force)
           run == MotionRun(machine, motion, force)
<1>1. /\ machine'.active = (machine.active \/ confirmed)
      /\ machine'.consecutive = run
      /\ machine'.post = IF confirmed THEN PostCapture
                         ELSE IF trailing THEN machine.post - 1 ELSE machine.post
      /\ machine'.lastMotion = IF confirmed \/ (machine.active /\ motion) THEN now + step
                               ELSE machine.lastMotion
      /\ machine'.startedAt = IF confirmed /\ ~machine.active THEN now + step
                              ELSE machine.startedAt
      /\ machine'.number = IF confirmed /\ ~machine.active THEN machine.number + 1
                           ELSE machine.number
      /\ machine' = [active |-> machine'.active, consecutive |-> machine'.consecutive,
                     post |-> machine'.post, lastMotion |-> machine'.lastMotion,
                     startedAt |-> machine'.startedAt, number |-> machine'.number]
  BY DEF Continued
<1>2. /\ machine.active \in BOOLEAN /\ machine.consecutive \in 0..MinimumMotionFrames
      /\ machine.post \in 0..PostCapture /\ machine.number \in Nat /\ now \in Nat
      /\ machine.lastMotion \in Int /\ machine.startedAt \in Int
      /\ machine.active => machine.startedAt \in 0..now
                           /\ machine.lastMotion \in machine.startedAt..now
      /\ ~machine.active => machine.startedAt = NoTime /\ machine.lastMotion = NoTime
  BY DEF IInv, TypeOK, MachineType
<1>3. confirmed \in BOOLEAN /\ (confirmed => motion)
  BY DEF Confirmed
<1>4. run \in 0..MinimumMotionFrames
  BY <1>2, SettingsAssumption DEF MotionRun
<1>5. trailing => machine.post > 0
  BY DEF Trailing
<1>6. machine.active =>
        /\ MaxEventDuration > 0 => now + step - machine.startedAt < MaxEventDuration
        /\ motion \/ now + step - machine.lastMotion < EventGap
  BY <1>2, SettingsAssumption DEF Overdue, Quiet
<1> HIDE DEF confirmed, trailing, run
<1>7. machine'.post \in 0..PostCapture
  BY <1>1, <1>2, <1>5, SettingsAssumption
<1>8. /\ machine'.active \in BOOLEAN /\ machine'.number \in Nat
      /\ machine'.lastMotion \in Int /\ machine'.startedAt \in Int
  BY <1>1, <1>2, <1>3
<1>9. machine' \in MachineType
  BY <1>1, <1>4, <1>7, <1>8, SettingsAssumption DEF MachineType
<1>10. IF machine'.active
       THEN /\ machine'.startedAt \in 0..(now + step)
            /\ machine'.lastMotion \in machine'.startedAt..(now + step)
       ELSE machine'.startedAt = NoTime /\ machine'.lastMotion = NoTime
  BY <1>1, <1>2, <1>3
<1>11. TypeOK'
  BY <1>1, <1>2, <1>4, <1>7, <1>8, <1>10 DEF TypeOK
<1>12. EventIsBounded'
  <2> SUFFICES ASSUME machine'.active
               PROVE  /\ MaxEventDuration > 0 =>
                           now' - machine'.startedAt < MaxEventDuration
                      /\ now' = machine'.lastMotion
                         \/ now' - machine'.lastMotion < EventGap
    BY DEF EventIsBounded
  <2>1. CASE machine.active
    BY <2>1, <1>1, <1>2, <1>3, <1>6
  <2>2. CASE ~machine.active
    BY <2>2, <1>1, <1>2, <1>3
  <2> QED
    BY <2>1, <2>2, <1>2
<1> QED
  BY <1>9, <1>11, <1>12 DEF IInv

(* The three facts of the invariant.                                       *)
LEMMA InitIInv == Init => IInv
BY SettingsAssumption
   DEF Init, IInv, MachineType, TypeOK, EventIsBounded, Idle, NoTime

LEMMA NextIInv == IInv /\ [Next]_vars => IInv'
<1> SUFFICES ASSUME IInv, [Next]_vars
             PROVE  IInv'
  OBVIOUS
<1>1. ASSUME NEW step \in 0..MaxStep, NEW motion \in BOOLEAN, NEW force \in BOOLEAN,
             Frame(step, motion, force)
      PROVE  IInv'
  <2>1. step \in Nat
    BY <1>1, FramesAssumption
  <2>2. now' = now + step /\ machine' = Update(machine, motion, now + step, force).machine
    BY <1>1 DEF Frame
  <2>3. CASE Overdue(machine, now + step) \/ Quiet(machine, motion, now + step)
    <3>1. machine' = Ends(machine).machine
      BY <2>2, <2>3 DEF Update
    <3> QED
      BY <3>1, <2>1, <2>2, EndedIsIdle
  <2>4. CASE ~Overdue(machine, now + step) /\ ~Quiet(machine, motion, now + step)
    <3>1. machine' = Continued(machine, motion, now + step, force).machine
      BY <2>2, <2>4 DEF Update
    <3> QED
      BY <3>1, <2>1, <2>2, <2>4, ContinuedIsBounded
  <2> QED
    BY <2>3, <2>4
<1>2. CASE UNCHANGED vars
  BY <1>2 DEF vars, IInv, MachineType, TypeOK, EventIsBounded
<1> QED
  BY <1>1, <1>2 DEF Next

(* The machine stays typed, and an active event younger than its maximum   *)
(* and never quiet for the gap, for every setting and every input.         *)
THEOREM EventsAreBounded == Spec => [](TypeOK /\ EventIsBounded)
<1>1. IInv => TypeOK /\ EventIsBounded
  BY DEF IInv
<1> QED
  BY <1>1, InitIInv, NextIInv, PTL DEF Spec

-----------------------------------------------------------------------------
(* How the machine remembers the frames                                    *)

FrameType == [at : Nat, motion : BOOLEAN, force : BOOLEAN]

Count == Len(frames)

(* The history is that of frames in time, an event starts where none ends. *)
HistoryInv ==
  /\ frames \in Seq(FrameType)
  /\ starts \subseteq Frames /\ ends \subseteq Frames /\ recorded \subseteq Frames
  /\ starts \cap ends = {}
  /\ \A i, j \in Frames : i <= j => frames[i].at <= frames[j].at
  /\ Count # 0 => now = frames[Count].at

(* consecutive_motion_ is the run of motion at the last frame, up to the   *)
(* length that counts; when it is shorter than that no frame of it was     *)
(* forced and it cannot be prolonged backwards.                            *)
RunIs(run, barrier, last) ==
  IF run >= MinimumMotionFrames
  THEN \E j \in (barrier + 1)..last :
         /\ \A k \in j..last : frames[k].motion
         /\ frames[j].force \/ last - j + 1 >= MinimumMotionFrames
  ELSE /\ run <= last - barrier
       /\ \A k \in (last - run + 1)..last : frames[k].motion /\ ~frames[k].force
       /\ last - run = barrier \/ ~frames[last - run].motion
RunInv == RunIs(machine.consecutive, Barrier(Count + 1), Count)

(* An active event knows when it started and when there was motion last,   *)
(* and post_capture_left_ counts down from the last frame that completed   *)
(* a run.                                                                  *)
ActiveIs(start, last) ==
  /\ machine.active <=> start # 0
  /\ machine.active =>
       /\ machine.startedAt = frames[start].at
       /\ \E k \in start..last :
            /\ frames[k].motion /\ machine.lastMotion = frames[k].at
            /\ \A j \in (k + 1)..last : ~frames[j].motion
       /\ \E c \in start..last :
            /\ Completes(c) /\ \A j \in (c + 1)..last : ~Completes(j)
            /\ machine.post = IF last - c <= PostCapture THEN PostCapture - (last - c) ELSE 0
ActiveInv == ActiveIs(EventOf(Count), Count)

-----------------------------------------------------------------------------
(* Any set of numbers has a least element, and a bounded one a greatest.   *)
LEMMA Least ==
  ASSUME NEW T \in SUBSET Nat, T # {}
  PROVE  \E x \in T : \A y \in T : x <= y
<1>1. PICK x \in T : \A y \in T : ~ (<<y, x>> \in OpToRel(<, Nat))
  BY NatLessThanWellFounded, WFMin
<1>2. \A y \in T : ~(y < x)
  BY <1>1 DEF OpToRel
<1> QED
  BY <1>2

LEMMA Greatest ==
  ASSUME NEW T \in SUBSET Nat, T # {}, NEW bound \in Nat, \A y \in T : y <= bound
  PROVE  Max(T) \in T /\ \A y \in T : y <= Max(T)
<1> DEFINE above == {u \in Nat : \A y \in T : y <= u}
<1>1. PICK x \in above : \A u \in above : x <= u
  BY Least
<1>2. x \in T
  <2> SUFFICES ASSUME x \notin T
               PROVE  FALSE
    OBVIOUS
  <2>1. \A y \in T : y <= x /\ y # x
    OBVIOUS
  <2>2. x # 0
    <3>1. PICK y \in T : TRUE
      OBVIOUS
    <3> QED
      BY <2>1, <3>1
  <2>3. x - 1 \in above
    BY <2>1, <2>2
  <2> QED
    BY <1>1, <2>3
<1>3. \A y \in T : x >= y
  OBVIOUS
<1> QED
  BY <1>2, <1>3 DEF Max

LEMMA GreatestIs ==
  ASSUME NEW T \in SUBSET Nat, NEW x \in T, \A y \in T : y <= x
  PROVE  Max(T) = x
<1>1. \A z \in T : (\A y \in T : z >= y) <=> z = x
  OBVIOUS
<1> QED
  BY <1>1 DEF Max

(* The last start not after i.                                             *)
StartOf(i) == Max({0} \cup {j \in starts : j <= i})

LEMMA BarrierIs ==
  ASSUME HistoryInv, NEW i \in Nat
  PROVE  /\ Barrier(i) = 0 \/ (Barrier(i) \in ends /\ Barrier(i) < i)
         /\ Barrier(i) \in 0..Count
         /\ \A e \in ends : e < i => e <= Barrier(i)
<1> DEFINE T == {0} \cup {e \in ends : e < i}
<1>1. Count \in Nat /\ ends \subseteq 1..Count
  BY DEF HistoryInv, Frames, Count
<1>2. 0 \in T /\ \A y \in T : y \in Nat /\ y <= Count
  BY <1>1
<1> HIDE DEF T
<1>3. Max(T) \in T /\ \A y \in T : y <= Max(T)
  <2>1. T \in SUBSET Nat /\ T # {}
    BY <1>2
  <2> QED
    BY <1>1, <1>2, <2>1, Greatest
<1>4. Barrier(i) = Max(T)
  BY DEF T, Barrier
<1>5. \A y : y \in T <=> y = 0 \/ (y \in ends /\ y < i)
  BY DEF T
<1> HIDE DEF Max
<1> QED
  BY <1>1, <1>2, <1>3, <1>4, <1>5

LEMMA StartIs ==
  ASSUME HistoryInv, NEW i \in Nat
  PROVE  /\ StartOf(i) = 0 \/ (StartOf(i) \in starts /\ StartOf(i) <= i)
         /\ StartOf(i) \in 0..Count
         /\ \A j \in starts : j <= i => j <= StartOf(i)
<1> DEFINE T == {0} \cup {j \in starts : j <= i}
<1>1. Count \in Nat /\ starts \subseteq 1..Count
  BY DEF HistoryInv, Frames, Count
<1>2. 0 \in T /\ \A y \in T : y \in Nat /\ y <= Count
  BY <1>1
<1> HIDE DEF T
<1>3. Max(T) \in T /\ \A y \in T : y <= Max(T)
  <2>1. T \in SUBSET Nat /\ T # {}
    BY <1>2
  <2> QED
    BY <1>1, <1>2, <2>1, Greatest
<1>4. StartOf(i) = Max(T)
  BY DEF T, StartOf
<1>5. \A y : y \in T <=> y = 0 \/ (y \in starts /\ y <= i)
  BY DEF T
<1> HIDE DEF Max
<1> QED
  BY <1>1, <1>2, <1>3, <1>4, <1>5

LEMMA EventIs ==
  ASSUME HistoryInv, NEW i \in Nat
  PROVE  /\ EventOf(i) = IF \E e \in ends : StartOf(i) < e /\ e <= i THEN 0 ELSE StartOf(i)
         /\ EventOf(i) # 0 => /\ EventOf(i) = StartOf(i) /\ EventOf(i) \in starts
                              /\ EventOf(i) \in 1..i /\ EventOf(i) \in Frames
                              /\ \A e \in ends : EventOf(i) < e => i < e
<1>1. EventOf(i) = IF \E e \in ends : StartOf(i) < e /\ e <= i THEN 0 ELSE StartOf(i)
  BY DEF EventOf, StartOf
<1>2. starts \subseteq 1..Count /\ ends \subseteq 1..Count /\ Count \in Nat
  BY DEF HistoryInv, Frames, Count
<1> QED
  BY <1>1, <1>2, StartIs DEF Frames, Count

(* The past does not change when a frame comes.                            *)
Extended(f) ==
  /\ f \in FrameType /\ frames' = Append(frames, f)
  /\ starts \subseteq starts' /\ starts' \subseteq starts \cup {Count + 1}
  /\ ends \subseteq ends' /\ ends' \subseteq ends \cup {Count + 1}

LEMMA ExtendedFrames ==
  ASSUME HistoryInv, NEW f, Extended(f)
  PROVE  /\ Count \in Nat /\ Count' = Count + 1 /\ Frames' = 1..(Count + 1) /\ Frames = 1..Count
         /\ \A i \in 1..Count : frames'[i] = frames[i] /\ frames[i] \in FrameType
         /\ frames'[Count + 1] = f
<1>1. frames \in Seq(FrameType) /\ frames' = Append(frames, f) /\ f \in FrameType
  BY DEF Extended, HistoryInv
<1> QED
  BY <1>1 DEF Count, Frames

LEMMA PastIsKept ==
  ASSUME HistoryInv, NEW f, Extended(f)
  PROVE  /\ \A i \in 0..(Count + 1) : Barrier(i)' = Barrier(i)
         /\ \A i \in 0..Count : EventOf(i)' = EventOf(i) /\ StartOf(i)' = StartOf(i)
         /\ \A i \in 1..Count : Completes(i)' <=> Completes(i)
         /\ \A i \in 1..Count : \A s \in 1..i : Terminates(s, i)' <=> Terminates(s, i)
<1>1. /\ Count \in Nat /\ \A i \in 1..Count : frames'[i] = frames[i]
      /\ starts \subseteq 1..Count /\ ends \subseteq 1..Count
      /\ \A j : j \in starts => j \in starts'
      /\ \A j : j \in starts' => j \in starts \/ j = Count + 1
      /\ \A j : j \in ends => j \in ends'
      /\ \A j : j \in ends' => j \in ends \/ j = Count + 1
  BY ExtendedFrames DEF HistoryInv, Frames, Count, Extended
<1>2. ASSUME NEW i \in 0..(Count + 1)
      PROVE  Barrier(i)' = Barrier(i)
  <2>1. {e \in ends' : e < i} = {e \in ends : e < i}
    BY <1>1
  <2> QED
    BY <2>1 DEF Barrier
<1>3. ASSUME NEW i \in 0..Count
      PROVE  EventOf(i)' = EventOf(i) /\ StartOf(i)' = StartOf(i)
  <2>1. {j \in starts' : j <= i} = {j \in starts : j <= i}
    BY <1>1
  <2>2. \A t : (\E e \in ends' : t < e /\ e <= i) <=> (\E e \in ends : t < e /\ e <= i)
    <3>1. \A e : (e \in ends' /\ e <= i) <=> (e \in ends /\ e <= i)
      BY <1>1
    <3> QED
      BY <3>1
  <2> QED
    BY <2>1, <2>2 DEF EventOf, StartOf
<1>4. ASSUME NEW i \in 1..Count
      PROVE  Completes(i)' <=> Completes(i)
  <2>1. Barrier(i)' = Barrier(i) /\ Barrier(i) \in Nat
    BY <1>1, <1>2, BarrierIs
  <2> QED
    BY <1>1, <2>1 DEF Completes
<1>5. ASSUME NEW i \in 1..Count, NEW s \in 1..i
      PROVE  Terminates(s, i)' <=> Terminates(s, i)
  BY <1>1 DEF Terminates
<1> QED
  BY <1>2, <1>3, <1>4, <1>5

-----------------------------------------------------------------------------
(* What update decides on a frame, said of the frames                      *)

(* The clock of a frame, and the order of the frames.                      *)
LEMMA HistoryNext ==
  ASSUME HistoryInv, IInv, NEW step \in 0..MaxStep, NEW motion \in BOOLEAN, NEW force \in BOOLEAN,
         Frame(step, motion, force)
  PROVE  /\ HistoryInv'
         /\ Extended([at |-> now + step, motion |-> motion, force |-> force])
<1> DEFINE f == [at |-> now + step, motion |-> motion, force |-> force]
           n == Count + 1
           outcome == Update(machine, motion, now + step, force)
<1>1. now \in Nat /\ step \in Nat /\ f \in FrameType
  BY FramesAssumption DEF IInv, TypeOK, FrameType
<1>2. /\ frames' = Append(frames, f) /\ now' = now + step
      /\ starts' = starts \cup {i \in {n} : outcome.started}
      /\ ends' = ends \cup {i \in {n} : outcome.ended}
      /\ recorded' = recorded \cup {i \in {n} : outcome.record}
  BY DEF Frame, Count
<1>3. ~(outcome.started /\ outcome.ended)
  BY DEF Update, Ends, Continued
<1> HIDE DEF outcome, f
<1>4. Extended(f)
  BY <1>1, <1>2 DEF Extended
<1>5. /\ Count \in Nat /\ Count' = Count + 1 /\ Frames' = 1..(Count + 1) /\ Frames = 1..Count
      /\ \A i \in 1..Count : frames'[i] = frames[i] /\ frames[i] \in FrameType
      /\ frames'[Count + 1] = f
  BY <1>4, ExtendedFrames
<1>6. f.at = now + step
  BY DEF f
<1>7. frames' \in Seq(FrameType)
  BY <1>1, <1>2 DEF HistoryInv
<1>8. /\ starts' \subseteq Frames' /\ ends' \subseteq Frames' /\ recorded' \subseteq Frames'
      /\ starts' \cap ends' = {}
  <2>1. n \notin starts /\ n \notin ends
    BY <1>5 DEF HistoryInv
  <2>2. starts' \subseteq Frames' /\ ends' \subseteq Frames' /\ recorded' \subseteq Frames'
    <3>1. n \in Frames' /\ Frames \subseteq Frames'
      BY <1>5
    <3>2. starts \subseteq Frames /\ ends \subseteq Frames /\ recorded \subseteq Frames
      BY DEF HistoryInv
    <3> HIDE DEF n
    <3> QED
      BY <1>2, <3>1, <3>2
  <2> QED
    BY <1>2, <1>3, <2>1, <2>2 DEF HistoryInv
<1>9. ASSUME NEW i \in Frames', NEW j \in Frames', i <= j
      PROVE  frames'[i].at <= frames'[j].at
  <2>1. \A k \in 1..Count : frames[k].at <= now /\ frames[k].at \in Nat
    <3> SUFFICES ASSUME NEW k \in 1..Count
                 PROVE  frames[k].at <= now /\ frames[k].at \in Nat
      OBVIOUS
    <3>1. Count \in Frames /\ k \in Frames /\ k <= Count /\ Count # 0
      BY <1>5
    <3>2. frames[k].at <= frames[Count].at /\ now = frames[Count].at
      BY <3>1 DEF HistoryInv
    <3>3. frames[k].at \in Nat
      BY <1>5 DEF FrameType
    <3> QED
      BY <3>2, <3>3
  <2>2. CASE j = n
    BY <1>1, <1>5, <1>6, <2>1, <2>2
  <2>3. CASE j # n
    BY <1>5, <1>9, <2>3 DEF HistoryInv
  <2> QED
    BY <2>2, <2>3
<1>10. now' = frames'[Count'].at
  BY <1>2, <1>5, <1>6
<1> QED
  BY <1>4, <1>7, <1>8, <1>9, <1>10 DEF HistoryInv, f

(* The frame that is due to end the event does so: the machine's two times *)
(* are those of the frames.                                                *)
LEMMA TerminatesIff ==
  ASSUME HistoryInv, IInv, ActiveInv, machine.active, NEW f, Extended(f), f.at >= now,
         NEW n, n = Count + 1, NEW s, s = EventOf(Count)
  PROVE  Terminates(s, n)'
           <=> Overdue(machine, f.at) \/ Quiet(machine, f.motion, f.at)
<1>1. /\ Count \in Nat /\ \A i \in 1..Count : frames'[i] = frames[i] /\ frames[i] \in FrameType
      /\ frames'[n] = f /\ f \in FrameType
  BY ExtendedFrames DEF Extended
<1>2. s # 0 /\ s \in 1..Count /\ machine.startedAt = frames[s].at
  BY <1>1, EventIs DEF ActiveInv, ActiveIs
<1>3. PICK k \in s..Count : /\ frames[k].motion /\ machine.lastMotion = frames[k].at
                            /\ \A j \in (k + 1)..Count : ~frames[j].motion
  BY DEF ActiveInv, ActiveIs
<1>4. Terminates(s, n)' <=>
        \/ MaxEventDuration > 0 /\ f.at - frames[s].at >= MaxEventDuration
        \/ \A j \in s..n : frames'[j].motion => j < n /\ f.at - frames'[j].at >= EventGap
  BY <1>1, <1>2 DEF Terminates
<1>5. (\A j \in s..n : frames'[j].motion => j < n /\ f.at - frames'[j].at >= EventGap)
        <=> ~f.motion /\ f.at - frames[k].at >= EventGap
  <2>1. \A j \in s..Count : frames[j].motion => frames[j].at <= frames[k].at
    BY <1>1, <1>2, <1>3 DEF HistoryInv, Frames, Count
  <2>2. \A j \in s..Count : frames[j].at \in Nat
    BY <1>1, <1>2 DEF FrameType
  <2>3. f.at \in Nat
    BY <1>1 DEF FrameType
  <2> QED
    BY <1>1, <1>2, <1>3, <2>1, <2>2, <2>3, SettingsAssumption
<1> QED
  BY <1>2, <1>3, <1>4, <1>5 DEF Overdue, Quiet

(* Motion is confirmed on the frames that complete a run.                  *)
LEMMA CompletesIff ==
  ASSUME HistoryInv, IInv, RunInv, NEW f, Extended(f), f.force => f.motion,
         NEW n, n = Count + 1
  PROVE  Completes(n)' <=> Confirmed(machine, f.motion, f.force)
<1> DEFINE b == Barrier(n)
           run == machine.consecutive
<1>1. /\ Count \in Nat /\ \A i \in 1..Count : frames'[i] = frames[i] /\ frames[i] \in FrameType
      /\ frames'[n] = f /\ f \in FrameType
  BY ExtendedFrames DEF Extended
<1>2. b' = b /\ b \in 0..Count
  BY <1>1, PastIsKept, BarrierIs
<1>3. run \in 0..MinimumMotionFrames /\ MinimumMotionFrames \in Nat \ {0}
  BY SettingsAssumption DEF IInv, TypeOK
<1>4. IF run >= MinimumMotionFrames
      THEN \E j \in (b + 1)..Count :
             /\ \A k \in j..Count : frames[k].motion
             /\ frames[j].force \/ Count - j + 1 >= MinimumMotionFrames
      ELSE /\ run <= Count - b
           /\ \A k \in (Count - run + 1)..Count : frames[k].motion /\ ~frames[k].force
           /\ Count - run = b \/ ~frames[Count - run].motion
  BY DEF RunInv, RunIs
<1>5. Confirmed(machine, f.motion, f.force)
        <=> f.motion /\ (f.force \/ run + 1 >= MinimumMotionFrames)
  BY <1>1, <1>3 DEF Confirmed, MotionRun, FrameType
<1> HIDE DEF b, run
<1>6. Completes(n)' <=> \E j \in (b + 1)..n :
                          /\ \A k \in j..n : frames'[k].motion
                          /\ frames'[j].force \/ n - j + 1 >= MinimumMotionFrames
  BY <1>1, <1>2 DEF Completes, b
<1>7. ASSUME f.motion, f.force \/ run + 1 >= MinimumMotionFrames
      PROVE  \E j \in (b + 1)..n :
               /\ \A k \in j..n : frames'[k].motion
               /\ frames'[j].force \/ n - j + 1 >= MinimumMotionFrames
  <2>1. CASE f.force
    <3>1. n \in (b + 1)..n /\ \A k \in n..n : frames'[k].motion
      BY <1>1, <1>2, <1>7
    <3> QED
      BY <1>1, <2>1, <3>1
  <2>2. CASE run >= MinimumMotionFrames
    <3>1. PICK j \in (b + 1)..Count :
             /\ \A k \in j..Count : frames[k].motion
             /\ frames[j].force \/ Count - j + 1 >= MinimumMotionFrames
      BY <1>4, <2>2
    <3>2. j \in (b + 1)..n /\ \A k \in j..n : frames'[k].motion
      BY <1>1, <1>2, <1>7, <3>1
    <3>3. frames'[j].force \/ n - j + 1 >= MinimumMotionFrames
      BY <1>1, <1>2, <1>3, <3>1
    <3> QED
      BY <3>2, <3>3
  <2>3. CASE run + 1 = MinimumMotionFrames
    <3> DEFINE j == n - run
    <3>1. j \in (b + 1)..n /\ n - j + 1 >= MinimumMotionFrames
      BY <1>1, <1>2, <1>3, <1>4, <2>3
    <3>2. \A k \in j..n : frames'[k].motion
      BY <1>1, <1>2, <1>3, <1>4, <1>7, <2>3
    <3> QED
      BY <3>1, <3>2
  <2> QED
    BY <1>3, <1>7, <2>1, <2>2, <2>3
<1>8. ASSUME NEW j \in (b + 1)..n, \A k \in j..n : frames'[k].motion,
             frames'[j].force \/ n - j + 1 >= MinimumMotionFrames
      PROVE  f.motion /\ (f.force \/ run + 1 >= MinimumMotionFrames)
  <2>1. f.motion
    BY <1>1, <1>2, <1>8
  <2>2. CASE j = n
    BY <1>1, <1>3, <1>8, <2>1, <2>2
  <2>3. CASE j # n /\ run < MinimumMotionFrames
    <3>1. j \in (b + 1)..Count /\ \A k \in j..Count : frames[k].motion
      BY <1>1, <1>2, <1>8, <2>3
    <3>2. j > Count - run
      BY <1>1, <1>2, <1>3, <1>4, <2>3, <3>1
    <3>3. ~frames[j].force
      BY <1>1, <1>2, <1>3, <1>4, <2>3, <3>1, <3>2
    <3>4. n - j + 1 >= MinimumMotionFrames
      <4>1. frames'[j] = frames[j]
        BY <1>1, <1>2, <3>1
      <4> QED
        BY <1>8, <3>3, <4>1
    <3> QED
      BY <1>1, <1>2, <1>3, <2>1, <3>1, <3>2, <3>4
  <2>4. CASE run >= MinimumMotionFrames
    BY <1>3, <2>1, <2>4
  <2> QED
    BY <1>3, <2>2, <2>3, <2>4
<1> QED
  BY <1>5, <1>6, <1>7, <1>8

-----------------------------------------------------------------------------
(* One frame                                                               *)

(* Where the machine stands after a frame.                                 *)
LEMMA Stands ==
  ASSUME NEW n, Count' = n, NEW b, Barrier(n + 1)' = b, NEW s, EventOf(n)' = s
  PROVE  /\ RunIs(machine.consecutive, b, n)' => RunInv'
         /\ ActiveIs(s, n)' => ActiveInv'
<1>1. Barrier(Count + 1)' = b
  BY DEF Barrier
<1>2. EventOf(Count)' = s
  BY DEF EventOf
<1>3. RunIs(machine.consecutive, b, n)' => RunInv'
  BY <1>1 DEF RunInv, RunIs
<1>4. ActiveIs(s, n)' => ActiveInv'
  BY <1>2 DEF ActiveInv, ActiveIs
<1> QED
  BY <1>3, <1>4

(* The event that the new frame falls in, and what bounds the next run.    *)
LEMMA NewEvent ==
  ASSUME HistoryInv, NEW f, Extended(f), HistoryInv', NEW n, n = Count + 1
  PROVE  /\ n \in ends' => EventOf(n)' = 0 /\ Barrier(n + 1)' = n
         /\ n \notin ends' => Barrier(n + 1)' = Barrier(n)
         /\ n \in starts' => EventOf(n)' = n
         /\ n \notin ends' /\ n \notin starts' => EventOf(n)' = EventOf(Count)
<1>1. /\ Count \in Nat /\ n \in Nat
      /\ \A j : j \in starts => j \in 1..Count
      /\ \A j : j \in ends => j \in 1..Count
  <2>1. Count \in Nat /\ Frames = 1..Count
    BY ExtendedFrames
  <2>2. starts \subseteq Frames /\ ends \subseteq Frames
    BY DEF HistoryInv
  <2>3. n \in Nat
    BY <2>1
  <2> QED
    BY <2>1, <2>2, <2>3
<1>2. /\ \A j : j \in starts' <=> j \in starts \/ (j = n /\ n \in starts')
      /\ \A j : j \in ends' <=> j \in ends \/ (j = n /\ n \in ends')
  BY <1>1 DEF Extended
<1>3. ~(n \in starts' /\ n \in ends')
  BY DEF HistoryInv
<1>4. /\ \A j : j \in starts' => j \in 1..n
      /\ \A j : j \in ends' => j \in 1..n
  BY <1>1, <1>2
<1>5. /\ StartOf(n)' \in Nat /\ StartOf(n)' <= n
      /\ StartOf(n)' = 0 \/ StartOf(n)' \in starts'
      /\ \A j \in starts' : j <= StartOf(n)'
  <2> DEFINE T == {0} \cup {j \in starts' : j <= n}
  <2>1. 0 \in T /\ \A y \in T : y \in Nat /\ y <= n
    BY <1>1, <1>4
  <2>2. \A y : y \in T <=> y = 0 \/ (y \in starts' /\ y <= n)
    OBVIOUS
  <2>3. StartOf(n)' = Max(T)
    BY DEF StartOf
  <2> HIDE DEF T
  <2>4. T \in SUBSET Nat /\ T # {}
    BY <2>1
  <2>5. Max(T) \in T /\ \A y \in T : y <= Max(T)
    BY <1>1, <2>1, <2>4, Greatest
  <2> DEFINE m == Max(T)
  <2> HIDE DEF m
  <2>6. m \in T /\ \A y \in T : y <= m
    BY <2>5 DEF m
  <2>7. StartOf(n)' = m
    BY <2>3 DEF m
  <2>8. m \in Nat /\ m <= n /\ (m = 0 \/ m \in starts') /\ \A j \in starts' : j <= m
    BY <1>4, <2>1, <2>2, <2>6
  <2> QED
    BY <2>7, <2>8
<1>6. /\ (\E e \in ends' : StartOf(n)' < e /\ e <= n) => EventOf(n)' = 0
      /\ ~(\E e \in ends' : StartOf(n)' < e /\ e <= n) => EventOf(n)' = StartOf(n)'
  BY DEF EventOf, StartOf
<1>7. ASSUME n \in ends'
      PROVE  EventOf(n)' = 0 /\ Barrier(n + 1)' = n
  <2>1. StartOf(n)' # n
    BY <1>1, <1>3, <1>5, <1>7
  <2>2. EventOf(n)' = 0
    <3>1. StartOf(n)' < n /\ n <= n
      BY <1>1, <1>5, <2>1
    <3> QED
      BY <1>6, <1>7, <3>1
  <2>3. Barrier(n + 1)' = n
    <3> DEFINE T == {0} \cup {e \in ends' : e < n + 1}
    <3>1. n \in T /\ \A y \in T : y \in Nat /\ y <= n
      BY <1>1, <1>4, <1>7
    <3>2. Barrier(n + 1)' = Max(T)
      BY DEF Barrier
    <3> HIDE DEF T, Max
    <3>3. T \in SUBSET Nat
      BY <3>1
    <3> QED
      BY <3>1, <3>2, <3>3, GreatestIs
  <2> QED
    BY <2>2, <2>3
<1>8. ASSUME n \notin ends'
      PROVE  Barrier(n + 1)' = Barrier(n)
  <2>1. \A e : (e \in ends' /\ e < n + 1) <=> (e \in ends /\ e < n)
    BY <1>1, <1>2, <1>8
  <2>2. {e \in ends' : e < n + 1} = {e \in ends : e < n}
    BY <2>1
  <2> QED
    BY <2>2 DEF Barrier
<1>9. ASSUME n \in starts'
      PROVE  EventOf(n)' = n
  <2>1. StartOf(n)' = n
    BY <1>1, <1>5, <1>9
  <2>2. ~(\E e \in ends' : n < e /\ e <= n)
    BY <1>1, <1>4
  <2> QED
    BY <1>6, <2>1, <2>2
<1>10. ASSUME n \notin ends', n \notin starts'
       PROVE  EventOf(n)' = EventOf(Count)
  <2>1. \A j : (j \in starts' /\ j <= n) <=> (j \in starts /\ j <= Count)
    BY <1>1, <1>2, <1>10
  <2>2. {j \in starts' : j <= n} = {j \in starts : j <= Count}
    BY <2>1
  <2>3. StartOf(n)' = StartOf(Count)
    BY <2>2 DEF StartOf
  <2>4. \A e : (e \in ends' /\ e <= n) <=> (e \in ends /\ e <= Count)
    BY <1>1, <1>2, <1>10
  <2>5. (\E e \in ends' : StartOf(n)' < e /\ e <= n)
          <=> (\E e \in ends : StartOf(Count) < e /\ e <= Count)
    BY <2>3, <2>4
  <2>6. EventOf(Count) = IF \E e \in ends : StartOf(Count) < e /\ e <= Count THEN 0 ELSE StartOf(Count)
    BY DEF EventOf, StartOf
  <2> QED
    BY <1>6, <2>3, <2>5, <2>6
<1> QED
  BY <1>7, <1>8, <1>9, <1>10

(* The run of motion after a frame that does not end the event.            *)
LEMMA RunNext ==
  ASSUME HistoryInv, IInv, RunInv, NEW f, Extended(f), f.force => f.motion,
         NEW n, n = Count + 1, NEW b, b = Barrier(n),
         machine'.consecutive = MotionRun(machine, f.motion, f.force)
  PROVE  RunIs(machine.consecutive, b, n)'
<1> DEFINE run == machine.consecutive
<1>1. /\ Count \in Nat /\ \A i \in 1..Count : frames'[i] = frames[i] /\ frames[i] \in FrameType
      /\ frames'[n] = f /\ f \in FrameType
  BY ExtendedFrames DEF Extended
<1>2. b \in 0..Count /\ Barrier(n)' = b
  BY <1>1, PastIsKept, BarrierIs
<1>3. run \in 0..MinimumMotionFrames /\ MinimumMotionFrames \in Nat \ {0}
  BY SettingsAssumption DEF IInv, TypeOK
<1>4. f.motion \in BOOLEAN /\ f.force \in BOOLEAN
  BY <1>1 DEF FrameType
<1>5. run < MinimumMotionFrames =>
        /\ run <= Count - b
        /\ \A k \in (Count - run + 1)..Count : frames[k].motion /\ ~frames[k].force
        /\ Count - run = b \/ ~frames[Count - run].motion
  <2>1. Barrier(Count + 1) = b
    OBVIOUS
  <2> QED
    BY <1>3, <2>1 DEF RunInv, RunIs
<1> HIDE DEF run
<1>6. CASE ~f.motion
  <2>1. machine'.consecutive = 0
    BY <1>6 DEF MotionRun
  <2> QED
    BY <1>1, <1>2, <1>3, <1>6, <2>1 DEF RunIs
<1>7. CASE f.motion /\ (f.force \/ run + 1 >= MinimumMotionFrames)
  <2>1. machine'.consecutive = MinimumMotionFrames
    BY <1>7 DEF MotionRun, run
  <2>2. Confirmed(machine, f.motion, f.force)
    BY <1>3, <1>7 DEF Confirmed, MotionRun, run
  <2>3. Completes(n)'
    BY <2>2, CompletesIff
  <2>4. \E j \in (b + 1)..n :
          /\ \A k \in j..n : frames'[k].motion
          /\ frames'[j].force \/ n - j + 1 >= MinimumMotionFrames
    BY <1>2, <2>3 DEF Completes
  <2> QED
    BY <1>3, <2>1, <2>4 DEF RunIs
<1>8. CASE f.motion /\ ~f.force /\ run + 1 < MinimumMotionFrames
  <2> DEFINE longer == run + 1
  <2>1. machine'.consecutive = longer
    BY <1>3, <1>8 DEF MotionRun, run
  <2>2. longer <= n - b /\ longer \in Nat /\ longer < MinimumMotionFrames
    BY <1>1, <1>2, <1>3, <1>5, <1>8
  <2>3. \A k \in (n - longer + 1)..n : frames'[k].motion /\ ~frames'[k].force
    BY <1>1, <1>2, <1>3, <1>5, <1>8
  <2>4. n - longer = b \/ ~frames'[n - longer].motion
    <3>1. n - longer = Count - run
      BY <1>1, <1>3
    <3>2. Count - run # b => Count - run \in 1..Count
      BY <1>1, <1>2, <1>3, <1>5, <1>8
    <3> QED
      BY <1>1, <1>3, <1>5, <1>8, <3>1, <3>2
  <2> HIDE DEF longer
  <2>5. ~(longer >= MinimumMotionFrames)
    BY <1>3, <2>2
  <2> QED
    BY <2>1, <2>2, <2>3, <2>4, <2>5 DEF RunIs
<1> QED
  BY <1>3, <1>4, <1>6, <1>7, <1>8

(* What the machine knows of its event after a frame that does not end it. *)
LEMMA ActiveNext ==
  ASSUME HistoryInv, IInv, RunInv, ActiveInv, NEW f, Extended(f), f.force => f.motion,
         f.at >= now, NEW n, n = Count + 1, NEW t,
         t = IF machine.active \/ ~Confirmed(machine, f.motion, f.force)
             THEN EventOf(Count) ELSE n,
         machine' = Continued(machine, f.motion, f.at, f.force).machine
  PROVE  ActiveIs(t, n)'
<1> DEFINE s == EventOf(Count)
           confirmed == Confirmed(machine, f.motion, f.force)
<1>1. /\ Count \in Nat /\ \A i \in 1..Count : frames'[i] = frames[i] /\ frames[i] \in FrameType
      /\ frames'[n] = f /\ f \in FrameType /\ n \in Nat
  <2>1. Count \in Nat /\ f \in FrameType /\ frames'[Count + 1] = f
    BY ExtendedFrames DEF Extended
  <2>2. \A i \in 1..Count : frames'[i] = frames[i] /\ frames[i] \in FrameType
    BY ExtendedFrames
  <2> QED
    BY <2>1, <2>2
<1>2. /\ machine'.active = (machine.active \/ confirmed)
      /\ machine'.post = IF confirmed THEN PostCapture
                         ELSE IF machine.active /\ machine.post > 0
                              THEN machine.post - 1 ELSE machine.post
      /\ machine'.lastMotion = IF confirmed \/ (machine.active /\ f.motion) THEN f.at
                               ELSE machine.lastMotion
      /\ machine'.startedAt = IF confirmed /\ ~machine.active THEN f.at
                              ELSE machine.startedAt
  BY DEF Continued, Trailing
<1>3. Completes(n)' <=> confirmed
  BY CompletesIff
<1>4. confirmed => f.motion
  BY DEF Confirmed
<1>5. \A i \in 1..Count : Completes(i)' <=> Completes(i)
  BY PastIsKept
<1>6. machine.active => s \in 1..Count /\ s # 0
  BY <1>1, EventIs DEF ActiveInv, ActiveIs
<1>7. ~machine.active => s = 0
  BY DEF ActiveInv, ActiveIs
<1>8. machine.post \in 0..PostCapture /\ PostCapture \in Nat /\ machine.active \in BOOLEAN
  BY SettingsAssumption DEF IInv, TypeOK
<1> HIDE DEF s, confirmed
<1>9. t = IF machine.active \/ ~confirmed THEN s ELSE n
  BY DEF s, confirmed
<1>10. machine'.active <=> t # 0
  <2>1. machine'.active <=> machine.active \/ confirmed
    BY <1>2
  <2>2. n # 0
    BY <1>1
  <2> QED
    BY <1>6, <1>7, <1>9, <2>1, <2>2
<1>11. CASE ~machine.active /\ confirmed
  <2>1. t = n /\ n \in n..n
    BY <1>1, <1>9, <1>11
  <2>2. machine'.startedAt = frames'[n].at /\ machine'.lastMotion = frames'[n].at
    BY <1>1, <1>2, <1>11
  <2>3. frames'[n].motion /\ \A j \in (n + 1)..n : ~frames'[j].motion
    BY <1>1, <1>4, <1>11
  <2>4. Completes(n)' /\ \A j \in (n + 1)..n : ~Completes(j)'
    BY <1>1, <1>3, <1>11
  <2>5. machine'.post = IF n - n <= PostCapture THEN PostCapture - (n - n) ELSE 0
    BY <1>1, <1>2, <1>8, <1>11
  <2> QED
    BY <1>10, <2>1, <2>2, <2>3, <2>4, <2>5 DEF ActiveIs
<1>12. CASE machine.active
  <2>1. t = s /\ s \in 1..Count
    BY <1>6, <1>9, <1>12
  <2>2. machine'.startedAt = frames'[s].at
    BY <1>1, <1>2, <1>12, <2>1 DEF ActiveInv, ActiveIs, s
  <2>3. \E k \in s..n : /\ frames'[k].motion /\ machine'.lastMotion = frames'[k].at
                        /\ \A j \in (k + 1)..n : ~frames'[j].motion
    <3>1. CASE f.motion
      <4>1. n \in s..n /\ frames'[n].motion /\ machine'.lastMotion = frames'[n].at
        BY <1>1, <1>2, <1>12, <2>1, <3>1
      <4>2. \A j \in (n + 1)..n : ~frames'[j].motion
        BY <1>1
      <4> QED
        BY <4>1, <4>2
    <3>2. CASE ~f.motion
      <4>1. PICK k \in s..Count : /\ frames[k].motion /\ machine.lastMotion = frames[k].at
                                  /\ \A j \in (k + 1)..Count : ~frames[j].motion
        BY <1>12 DEF ActiveInv, ActiveIs, s
      <4>2. machine'.lastMotion = machine.lastMotion
        BY <1>2, <1>4, <3>2
      <4>3. k \in s..n /\ frames'[k] = frames[k]
        BY <1>1, <2>1
      <4>4. \A j \in (k + 1)..n : ~frames'[j].motion
        BY <1>1, <2>1, <3>2, <4>1
      <4> QED
        BY <4>1, <4>2, <4>3, <4>4
    <3> QED
      BY <3>1, <3>2
  <2>4. \E c \in s..n :
          /\ Completes(c)' /\ \A j \in (c + 1)..n : ~Completes(j)'
          /\ machine'.post = IF n - c <= PostCapture THEN PostCapture - (n - c) ELSE 0
    <3>1. CASE confirmed
      <4>1. n \in s..n /\ Completes(n)' /\ \A j \in (n + 1)..n : ~Completes(j)'
        BY <1>1, <1>3, <2>1, <3>1
      <4>2. machine'.post = IF n - n <= PostCapture THEN PostCapture - (n - n) ELSE 0
        BY <1>1, <1>2, <1>8, <3>1
      <4> QED
        BY <4>1, <4>2
    <3>2. CASE ~confirmed
      <4>1. PICK c \in s..Count :
               /\ Completes(c) /\ \A j \in (c + 1)..Count : ~Completes(j)
               /\ machine.post = IF Count - c <= PostCapture
                                 THEN PostCapture - (Count - c) ELSE 0
        BY <1>12 DEF ActiveInv, ActiveIs, s
      <4>2. c \in s..n /\ c \in 1..Count
        BY <1>1, <2>1
      <4>3. \A j \in (c + 1)..n : ~Completes(j)'
        <5>1. \A j \in (c + 1)..n : j = n \/ j \in (c + 1)..Count
          BY <1>1, <4>2
        <5>2. \A j \in (c + 1)..Count : ~Completes(j)' /\ j \in 1..Count
          BY <1>1, <1>5, <4>1, <4>2
        <5> QED
          BY <1>3, <3>2, <5>1, <5>2
      <4>4. machine'.post = IF n - c <= PostCapture THEN PostCapture - (n - c) ELSE 0
        BY <1>1, <1>2, <1>8, <1>12, <3>2, <4>1, <4>2
      <4>5. Completes(c)'
        BY <1>5, <4>1, <4>2
      <4> QED
        BY <4>2, <4>3, <4>4, <4>5
    <3> QED
      BY <3>1, <3>2
  <2> QED
    BY <1>10, <2>1, <2>2, <2>3, <2>4 DEF ActiveIs
<1>13. CASE ~machine.active /\ ~confirmed
  BY <1>2, <1>10, <1>13 DEF ActiveIs
<1> QED
  BY <1>8, <1>11, <1>12, <1>13

(* What one call of update decides on the new frame.                       *)
LEMMA Decides ==
  ASSUME IInv, NEW step \in 0..MaxStep, NEW motion \in BOOLEAN, NEW force \in BOOLEAN,
         Frame(step, motion, force), HistoryInv, NEW f,
         f = [at |-> now + step, motion |-> motion, force |-> force],
         NEW n, n = Count + 1, NEW over,
         over = (Overdue(machine, f.at) \/ Quiet(machine, f.motion, f.at)),
         NEW confirmed, confirmed = Confirmed(machine, f.motion, f.force)
  PROVE  /\ over => machine.active
         /\ machine' = IF over THEN Idle(machine.number)
                       ELSE Continued(machine, f.motion, f.at, f.force).machine
         /\ n \in starts' <=> ~over /\ confirmed /\ ~machine.active
         /\ n \in ends' <=> over
         /\ n \in recorded' <=>
              ~over /\ (confirmed \/ (machine.active /\ machine.post > 0))
         /\ f.force => f.motion
         /\ f.at >= now
<1> DEFINE outcome == Update(machine, motion, now + step, force)
<1>1. f.at = now + step /\ f.motion = motion /\ f.force = force
  OBVIOUS
<1>2. n = Len(frames) + 1
  BY DEF Count
<1>3. n \notin starts /\ n \notin ends /\ n \notin recorded
  <2>1. Len(frames) \in Nat
    BY DEF HistoryInv
  <2>2. n \notin Frames
    BY <1>2, <2>1 DEF Frames
  <2> QED
    BY <2>2 DEF HistoryInv
<1>4. /\ machine' = outcome.machine /\ (force => motion)
      /\ starts' = starts \cup {i \in {n} : outcome.started}
      /\ ends' = ends \cup {i \in {n} : outcome.ended}
      /\ recorded' = recorded \cup {i \in {n} : outcome.record}
  BY <1>2 DEF Frame
<1>5. over => machine.active
  BY DEF Overdue, Quiet
<1>6. CASE over
  <2>1. /\ outcome.machine = Idle(machine.number)
        /\ outcome.started = FALSE /\ outcome.ended = machine.active /\ outcome.record = FALSE
    BY <1>1, <1>6 DEF Update, Ends
  <2> HIDE DEF outcome
  <2>2. f.at >= now
    BY <1>1, FramesAssumption DEF IInv, TypeOK
  <2> QED
    BY <1>1, <1>3, <1>4, <1>5, <1>6, <2>1, <2>2
<1>7. CASE ~over
  <2>1. /\ outcome = Continued(machine, f.motion, f.at, f.force)
        /\ outcome.started = (confirmed /\ ~machine.active) /\ outcome.ended = FALSE
        /\ outcome.record = (confirmed \/ (machine.active /\ machine.post > 0))
    <3>1. outcome = Continued(machine, f.motion, f.at, f.force)
      BY <1>1, <1>7 DEF Update
    <3> QED
      BY <3>1 DEF Continued, Trailing
  <2> HIDE DEF outcome
  <2>2. f.at >= now
    BY <1>1, FramesAssumption DEF IInv, TypeOK
  <2> QED
    BY <1>1, <1>3, <1>4, <1>5, <1>7, <2>1, <2>2
<1> QED
  BY <1>6, <1>7

(* GroupsFrames, said of one frame.                                        *)
Grouped(i) ==
  LET before == IF i = 1 THEN 0 ELSE EventOf(i - 1)
  IN /\ i \in starts <=> before = 0 /\ Completes(i)
     /\ i \in ends <=> before # 0 /\ Terminates(before, i)
     /\ i \in recorded <=>
          /\ EventOf(i) # 0
          /\ \E c \in EventOf(i)..i : Completes(c) /\ i - c <= PostCapture

(* The frames before the new one are grouped as they were.                 *)
LEMMA PastStaysGrouped ==
  ASSUME HistoryInv, NEW f, Extended(f),
         recorded \subseteq recorded', recorded' \subseteq recorded \cup {Count + 1},
         NEW i \in Frames, Grouped(i)
  PROVE  Grouped(i)'
<1>1. Count \in Nat /\ i \in 1..Count
  BY ExtendedFrames
<1>2. /\ i \in starts' <=> i \in starts
      /\ i \in ends' <=> i \in ends
      /\ i \in recorded' <=> i \in recorded
  BY <1>1 DEF Extended
<1>3. EventOf(i)' = EventOf(i) /\ EventOf(i - 1)' = EventOf(i - 1)
  <2>1. i \in 0..Count /\ i - 1 \in 0..Count
    BY <1>1
  <2> QED
    BY <2>1, PastIsKept
<1>4. \A c \in 1..Count : Completes(c)' <=> Completes(c)
  BY PastIsKept
<1>5. EventOf(i - 1) # 0 => EventOf(i - 1) \in 1..i
  <2>1. i - 1 \in Nat
    BY <1>1
  <2> QED
    BY <1>1, <2>1, EventIs
<1>6. EventOf(i) # 0 => EventOf(i) \in 1..i
  BY <1>1, EventIs
<1> DEFINE before == IF i = 1 THEN 0 ELSE EventOf(i - 1)
<1>7. before' = before /\ (before # 0 => before \in 1..i)
  BY <1>3, <1>5
<1>8. ASSUME before # 0
      PROVE  Terminates(before, i)' <=> Terminates(before, i)
  <2>1. PICK s : s = before
    OBVIOUS
  <2>2. Terminates(s, i)' <=> Terminates(s, i)
    BY <1>1, <1>7, <1>8, <2>1, PastIsKept
  <2>3. s = before'
    BY <1>7, <2>1
  <2>4. Terminates(before, i)' <=> Terminates(s, i)'
    BY <2>3 DEF Terminates
  <2> QED
    BY <2>1, <2>2, <2>4
<1>9. EventOf(i) # 0 =>
        ((\E c \in EventOf(i)..i : Completes(c)' /\ i - c <= PostCapture)
         <=> (\E c \in EventOf(i)..i : Completes(c) /\ i - c <= PostCapture))
  BY <1>1, <1>4, <1>6
<1>10. /\ i \in starts <=> before = 0 /\ Completes(i)
       /\ i \in ends <=> before # 0 /\ Terminates(before, i)
       /\ i \in recorded <=>
            /\ EventOf(i) # 0
            /\ \E c \in EventOf(i)..i : Completes(c) /\ i - c <= PostCapture
  BY DEF Grouped
<1>11. /\ i \in starts' <=> before' = 0 /\ Completes(i)'
       /\ i \in ends' <=> before' # 0 /\ Terminates(before, i)'
       /\ i \in recorded' <=>
            /\ EventOf(i)' # 0
            /\ \E c \in EventOf(i)'..i : Completes(c)' /\ i - c <= PostCapture
  <2> HIDE DEF before
  <2> QED
    BY <1>1, <1>2, <1>3, <1>4, <1>7, <1>8, <1>9, <1>10
<1> QED
  BY <1>11 DEF Grouped

GroupingInv == IInv /\ HistoryInv /\ RunInv /\ ActiveInv /\ GroupsFrames

(* One call of update groups its frame, and its machine stands for the     *)
(* frames as they then are.                                                *)
LEMMA FrameIsGrouped ==
  ASSUME GroupingInv, NEW step \in 0..MaxStep, NEW motion \in BOOLEAN, NEW force \in BOOLEAN,
         Frame(step, motion, force)
  PROVE  HistoryInv' /\ RunInv' /\ ActiveInv' /\ GroupsFrames'
<1>1. IInv /\ HistoryInv /\ RunInv /\ ActiveInv /\ GroupsFrames
  BY DEF GroupingInv
<1>2. PICK f : f = [at |-> now + step, motion |-> motion, force |-> force]
  OBVIOUS
<1>3. PICK n : n = Count + 1
  OBVIOUS
<1>4. PICK over : over = (Overdue(machine, f.at) \/ Quiet(machine, f.motion, f.at))
  OBVIOUS
<1>5. PICK confirmed : confirmed = Confirmed(machine, f.motion, f.force)
  OBVIOUS
<1>6. PICK s : s = EventOf(Count)
  OBVIOUS
<1>7. PICK b : b = Barrier(n)
  OBVIOUS
<1>8. HistoryInv' /\ Extended(f)
  BY <1>1, <1>2, HistoryNext
<1>9. /\ over => machine.active
      /\ machine' = IF over THEN Idle(machine.number)
                    ELSE Continued(machine, f.motion, f.at, f.force).machine
      /\ n \in starts' <=> ~over /\ confirmed /\ ~machine.active
      /\ n \in ends' <=> over
      /\ n \in recorded' <=>
           ~over /\ (confirmed \/ (machine.active /\ machine.post > 0))
      /\ f.force => f.motion
      /\ f.at >= now
  BY <1>1, <1>2, <1>3, <1>4, <1>5, Decides
<1>10. /\ Count \in Nat /\ n \in Nat /\ Count' = n /\ n >= 1
       /\ Frames' = 1..n /\ Frames = 1..Count
  <2>1. Count \in Nat /\ Count' = Count + 1 /\ Frames' = 1..(Count + 1) /\ Frames = 1..Count
    BY <1>1, <1>8, ExtendedFrames
  <2> QED
    BY <1>3, <2>1
<1>11. /\ n \in ends' => EventOf(n)' = 0 /\ Barrier(n + 1)' = n
       /\ n \notin ends' => Barrier(n + 1)' = b
       /\ n \in starts' => EventOf(n)' = n
       /\ n \notin ends' /\ n \notin starts' => EventOf(n)' = s
  BY <1>1, <1>3, <1>6, <1>7, <1>8, NewEvent
<1>12. /\ machine.active <=> s # 0
       /\ machine.active => s \in 1..Count
  BY <1>1, <1>6, <1>10, EventIs DEF ActiveInv, ActiveIs
<1>13. machine.active => (Terminates(s, n)' <=> over)
  BY <1>1, <1>3, <1>4, <1>6, <1>8, <1>9, TerminatesIff
<1>14. Completes(n)' <=> confirmed
  BY <1>1, <1>3, <1>5, <1>8, <1>9, CompletesIff
<1>15. EventOf(n - 1)' = s
  <2>1. n - 1 = Count /\ n - 1 \in 0..Count
    BY <1>3, <1>10
  <2>2. EventOf(n - 1)' = EventOf(n - 1)
    BY <1>1, <1>8, <2>1, PastIsKept
  <2> QED
    BY <1>6, <2>1, <2>2
<1>16. n = 1 => s = 0
  BY <1>3, <1>1, <1>6, <1>10, EventIs
<1>17. ASSUME over
       PROVE  RunInv' /\ ActiveInv' /\ Grouped(n)'
  <2>1. machine' = Idle(machine.number) /\ EventOf(n)' = 0 /\ Barrier(n + 1)' = n
    BY <1>9, <1>11, <1>17
  <2>2. machine'.active = FALSE /\ machine'.consecutive = 0
    BY <2>1 DEF Idle
  <2>3. RunIs(machine.consecutive, n, n)'
    <3>1. ~(0 >= MinimumMotionFrames) /\ 0 <= n - n /\ n - 0 = n
          /\ \A k \in (n - 0 + 1)..n : FALSE
      BY <1>10, SettingsAssumption
    <3> QED
      BY <2>2, <3>1 DEF RunIs
  <2>4. ActiveIs(0, n)'
    BY <2>2 DEF ActiveIs
  <2>5. RunInv' /\ ActiveInv'
    BY <1>10, <2>1, <2>3, <2>4, Stands
  <2>6. Grouped(n)'
    BY <1>9, <1>12, <1>13, <1>15, <1>16, <1>17, <2>1 DEF Grouped
  <2> QED
    BY <2>5, <2>6
<1>18. ASSUME ~over
       PROVE  RunInv' /\ ActiveInv' /\ Grouped(n)'
  <2>1. machine' = Continued(machine, f.motion, f.at, f.force).machine
    BY <1>9, <1>18
  <2>2. PICK t : t = IF machine.active \/ ~confirmed THEN s ELSE n
    OBVIOUS
  <2>3. EventOf(n)' = t
    BY <1>9, <1>11, <1>12, <1>18, <2>2
  <2>4. Barrier(n + 1)' = b
    BY <1>9, <1>11, <1>18
  <2>5. RunIs(machine.consecutive, b, n)'
    <3>1. machine'.consecutive = MotionRun(machine, f.motion, f.force)
      BY <2>1 DEF Continued
    <3> QED
      BY <1>1, <1>3, <1>7, <1>8, <1>9, <3>1, RunNext
  <2>6. ActiveIs(t, n)'
    BY <1>1, <1>3, <1>5, <1>6, <1>8, <1>9, <2>1, <2>2, ActiveNext
  <2>7. RunInv' /\ ActiveInv'
    BY <1>10, <2>3, <2>4, <2>5, <2>6, Stands
  <2>8. n \in recorded' <=>
          /\ t # 0
          /\ \E c \in t..n : Completes(c)' /\ n - c <= PostCapture
    <3>1. PostCapture \in Nat
      BY SettingsAssumption
    <3>2. CASE confirmed
      <4>1. n \in recorded'
        BY <1>9, <1>18, <3>2
      <4>2. t # 0 /\ n \in t..n /\ n - n <= PostCapture
        <5>1. (t = s /\ s \in 1..Count) \/ t = n
          BY <1>12, <2>2, <3>2
        <5>2. t \in 1..n
          BY <1>3, <1>10, <5>1
        <5> QED
          BY <1>10, <3>1, <5>2
      <4> QED
        BY <1>14, <3>2, <4>1, <4>2
    <3>3. CASE ~confirmed /\ ~machine.active
      BY <1>9, <1>12, <2>2, <3>3
    <3>4. CASE ~confirmed /\ machine.active
      <4>1. t = s /\ s \in 1..Count
        BY <1>12, <2>2, <3>4
      <4>2. PICK c \in s..Count :
               /\ Completes(c) /\ \A j \in (c + 1)..Count : ~Completes(j)
               /\ machine.post = IF Count - c <= PostCapture
                                 THEN PostCapture - (Count - c) ELSE 0
        BY <1>1, <1>6, <3>4 DEF ActiveInv, ActiveIs
      <4>3. c \in 1..Count /\ c \in t..n /\ n = Count + 1
        BY <1>3, <1>10, <4>1
      <4>4. Completes(c)'
        BY <1>1, <1>8, <4>2, <4>3, PastIsKept
      <4>5. n \in recorded' <=> n - c <= PostCapture
        BY <1>9, <1>10, <1>18, <3>1, <3>4, <4>2, <4>3
      <4>6. ASSUME NEW d \in t..n, Completes(d)', n - d <= PostCapture
            PROVE  n - c <= PostCapture
        <5>1. d # n /\ d \in 1..Count
          BY <1>10, <1>14, <3>4, <4>1, <4>3, <4>6
        <5>2. Completes(d)
          BY <1>1, <1>8, <4>6, <5>1, PastIsKept
        <5>3. d <= c
          BY <1>10, <4>2, <4>3, <5>1, <5>2
        <5> QED
          BY <1>10, <3>1, <4>3, <4>6, <5>1, <5>3
      <4> QED
        BY <4>1, <4>3, <4>4, <4>5, <4>6
    <3> QED
      BY <3>2, <3>3, <3>4
  <2>9. Grouped(n)'
    <3>1. n \in starts' <=> s = 0 /\ Completes(n)'
      BY <1>9, <1>12, <1>14, <1>18
    <3>2. n \in ends' <=> s # 0 /\ Terminates(s, n)'
      BY <1>9, <1>12, <1>13, <1>18
    <3> QED
      BY <1>15, <1>16, <2>3, <2>8, <3>1, <3>2 DEF Grouped
  <2> QED
    BY <2>7, <2>9
<1>19. ASSUME NEW i \in Frames
       PROVE  Grouped(i)'
  <2>1. Grouped(i)
    BY <1>1 DEF GroupsFrames, Grouped
  <2>2. recorded \subseteq recorded' /\ recorded' \subseteq recorded \cup {Count + 1}
    BY DEF Frame, Count
  <2> QED
    BY <1>1, <1>8, <2>1, <2>2, PastStaysGrouped
<1>20. GroupsFrames'
  <2>1. \A i \in 1..n : Grouped(i)'
    BY <1>3, <1>10, <1>17, <1>18, <1>19
  <2> QED
    BY <1>10, <2>1 DEF GroupsFrames, Grouped
<1> QED
  BY <1>8, <1>17, <1>18, <1>20

(* Nothing has come yet.                                                   *)
LEMMA InitGrouping == Init => GroupingInv
<1> SUFFICES ASSUME Init
             PROVE  GroupingInv
  OBVIOUS
<1>1. Count = 0 /\ Frames = {} /\ frames = <<>> /\ starts = {} /\ ends = {} /\ recorded = {}
  BY DEF Init, Count, Frames
<1>2. HistoryInv
  BY <1>1 DEF HistoryInv
<1>3. machine.active = FALSE /\ machine.consecutive = 0
  BY DEF Init, Idle
<1>4. Barrier(1) = 0 /\ EventOf(0) = 0
  <2>1. Barrier(1) \in 0..0
    BY <1>1, <1>2, BarrierIs
  <2>2. EventOf(0) = 0
    BY <1>2, EventIs
  <2> QED
    BY <2>1, <2>2
<1>5. RunInv
  BY <1>1, <1>3, <1>4, SettingsAssumption DEF RunInv, RunIs
<1>6. ActiveInv
  BY <1>1, <1>3, <1>4 DEF ActiveInv, ActiveIs
<1>7. GroupsFrames
  BY <1>1 DEF GroupsFrames
<1> QED
  BY <1>2, <1>5, <1>6, <1>7, InitIInv DEF GroupingInv

LEMMA NextGrouping == GroupingInv /\ [Next]_vars => GroupingInv'
<1> SUFFICES ASSUME GroupingInv, [Next]_vars
             PROVE  GroupingInv'
  OBVIOUS
<1>1. IInv'
  BY NextIInv DEF GroupingInv
<1>2. CASE Next
  <2>1. PICK step \in 0..MaxStep, motion \in BOOLEAN, force \in BOOLEAN : Frame(step, motion, force)
    BY <1>2 DEF Next
  <2> QED
    BY <1>1, <2>1, FrameIsGrouped DEF GroupingInv
<1>3. CASE UNCHANGED vars
  <2>1. HistoryInv'
    BY <1>3 DEF vars, GroupingInv, HistoryInv, Frames, Count
  <2>2. RunInv'
    BY <1>3 DEF vars, GroupingInv, RunInv, RunIs, Barrier, Count
  <2>3. ActiveInv'
    BY <1>3 DEF vars, GroupingInv, ActiveInv, ActiveIs, EventOf, Completes, Barrier, Count
  <2>4. GroupsFrames'
    <3>1. frames' = frames /\ starts' = starts /\ ends' = ends /\ recorded' = recorded
      BY <1>3 DEF vars
    <3>2. ASSUME NEW i \in Frames
          PROVE  Grouped(i)'
      <4>1. Grouped(i)
        BY DEF GroupingInv, GroupsFrames, Grouped
      <4> QED
        BY <3>1, <4>1 DEF Grouped, EventOf, Completes, Terminates, Barrier
    <3>3. Frames' = Frames
      BY <3>1 DEF Frames
    <3> QED
      BY <3>2, <3>3 DEF GroupsFrames, Grouped
  <2> QED
    BY <1>1, <2>1, <2>2, <2>3, <2>4 DEF GroupingInv
<1> QED
  BY <1>2, <1>3

(* Events start, end and record exactly the frames that the grouping,      *)
(* stated on the frames alone, says (EventStateMachine::update): for every *)
(* setting the constructor accepts, and any number of frames at any times. *)
THEOREM GroupingIsExact == Spec => []GroupsFrames
<1>1. GroupingInv => GroupsFrames
  BY DEF GroupingInv
<1> QED
  BY <1>1, InitGrouping, NextGrouping, PTL DEF Spec

-----------------------------------------------------------------------------
(* The event worker, for any delays, time-outs and grace, and any number   *)
(* of events.                                                              *)

JobType == [here : BOOLEAN, looked : BOOLEAN, took : BOOLEAN, exited : BOOLEAN, ok : BOOLEAN,
            processed : BOOLEAN, output : BOOLEAN, age : 0..JobTimeout]

WorkerTypeOK ==
  /\ queue \in 0..MaxQueue /\ finishing \in BOOLEAN /\ fifo \in BOOLEAN
  /\ pc \in {"turn", "select", "killing", "closing", "ending", "stopped"}
  /\ stopping \in BOOLEAN
  /\ job \in JobType /\ periodic \in {"none", "running", "exited"}
  /\ nextJob \in 0..IdleDelay /\ nextPeriodic \in -Grace - 1 .. PeriodicInterval
  /\ patience \in 0..Grace
  /\ waiting \in 0..(Bound + 1) /\ neglected \in 0..(IdleDelay + 1) /\ woken \in BOOLEAN

(* A handler takes no time before it has looked into the queue, and only   *)
(* one that has looked can end or be beyond its time-out.                  *)
JobInv ==
  /\ ~job.here => job = NoJob
  /\ ~job.looked => job.age = 0 /\ ~job.exited
  /\ pc = "killing" => job.here /\ job.looked
  /\ pc \in {"closing", "ending", "stopped"} => stopping
  /\ pc \in {"ending", "stopped"} => job = NoJob
  /\ pc = "stopped" => periodic = "none"

(* What has been waited for, and what was not taken, is nothing unless     *)
(* events are queued.                                                      *)
NothingQueued == queue = 0 => waiting = 0 /\ neglected = 0 /\ ~woken

(* What has been waited is what the handler at work has run, what a        *)
(* termination has taken, or what has passed of the idle delay.            *)
WaitInv ==
  ~stopping =>
    IF ~job.here THEN waiting <= JobTimeout + Grace + IdleDelay - nextJob
    ELSE IF pc = "killing" THEN waiting <= JobTimeout + Grace - patience
    ELSE IF job.looked THEN waiting <= job.age
    ELSE waiting <= Bound

(* A handler that has looked leaves no event neglected and no wake-up      *)
(* unanswered; without one the next is due in time.                        *)
NeglectInv ==
  ~stopping =>
    /\ ~job.here => /\ neglected <= IdleDelay - nextJob
                    /\ woken => pc = "turn" /\ nextJob = 0
    /\ job.here => neglected <= IdleDelay
    /\ job.here /\ job.looked => neglected = 0 /\ ~woken

(* Only a termination keeps the worker from the periodic handler.          *)
PeriodicInv ==
  ~stopping /\ periodic = "none" =>
    nextPeriodic >= IF pc = "killing" THEN patience - Grace ELSE 0

WorkerInv == WorkerTypeOK /\ JobInv /\ NothingQueued /\ WaitInv /\ NeglectInv /\ PeriodicInv

LEMMA Maximum ==
  ASSUME NEW a \in Int, NEW b \in Int
  PROVE  Max({a, b}) = IF a >= b THEN a ELSE b
<1>1. \A x \in {a, b} : (\A y \in {a, b} : x >= y) <=> x = (IF a >= b THEN a ELSE b)
  OBVIOUS
<1>2. (IF a >= b THEN a ELSE b) \in {a, b}
  OBVIOUS
<1> QED
  BY <1>1, <1>2 DEF Max

LEMMA Minimum ==
  ASSUME NEW a \in Int, NEW b \in Int
  PROVE  Min({a, b}) = IF a <= b THEN a ELSE b
<1>1. \A x \in {a, b} : (\A y \in {a, b} : x <= y) <=> x = (IF a <= b THEN a ELSE b)
  OBVIOUS
<1>2. (IF a <= b THEN a ELSE b) \in {a, b}
  OBVIOUS
<1> QED
  BY <1>1, <1>2 DEF Min

LEMMA Jobs ==
  /\ NoJob \in JobType /\ ~NoJob.here /\ ~NoJob.looked /\ ~NoJob.exited /\ NoJob.age = 0
  /\ NewJob \in JobType /\ NewJob.here /\ ~NewJob.looked /\ ~NewJob.exited /\ NewJob.age = 0
<1>1. 0 \in 0..JobTimeout
  BY WorkerAssumption
<1> QED
  BY <1>1 DEF NoJob, NewJob, JobType

(* How a turn ends: with the handler that is left, with a new one, or with *)
(* none, and then the next is to come; with no periodic handler only if    *)
(* none is due.                                                            *)
LEMMA RestStep ==
  ASSUME WorkerTypeOK, NEW left \in JobType, NEW delay \in 0..IdleDelay, Rest(left, delay)
  PROVE  /\ pc' = "select" /\ job' \in JobType /\ nextJob' \in 0..IdleDelay
         /\ periodic' \in {"none", "running"}
         /\ nextPeriodic' \in -Grace - 1 .. PeriodicInterval
         /\ \/ job' = left /\ left.here /\ ~Polled(left)
            \/ job' = NewJob /\ (~left.here \/ Polled(left))
            \/ /\ job' = NoJob /\ (~left.here \/ Polled(left))
               /\ nextJob' > 0 /\ (nextJob' = delay \/ Polled(left))
         /\ periodic' = "none" => nextPeriodic' > 0
<1> DEFINE done == Polled(left)
           soon == IF periodic = "exited" THEN 0
                   ELSE IF done THEN DelayAfter(left) ELSE delay
           free == periodic # "running"
           begins == free /\ nextPeriodic <= 0
<1>1. /\ periodic' = IF begins THEN "running" ELSE IF free THEN "none" ELSE periodic
      /\ nextPeriodic' = IF begins THEN PeriodicInterval ELSE nextPeriodic
      /\ job' = IF (done \/ ~left.here) /\ soon <= 0 THEN NewJob
                ELSE IF done \/ ~left.here THEN NoJob ELSE left
      /\ nextJob' = soon
      /\ pc' = "select"
  BY DEF Rest
<1>2. soon \in 0..IdleDelay /\ (soon > 0 => soon = delay \/ done)
  BY WorkerAssumption DEF DelayAfter
<1> HIDE DEF soon, done
<1>3. job' \in JobType
  BY <1>1, Jobs
<1>4. \/ job' = left /\ left.here /\ ~done
      \/ job' = NewJob /\ (~left.here \/ done)
      \/ job' = NoJob /\ (~left.here \/ done) /\ soon > 0
  BY <1>1, <1>2
<1>5. /\ periodic' \in {"none", "running"}
      /\ nextPeriodic' \in -Grace - 1 .. PeriodicInterval
      /\ periodic' = "none" => nextPeriodic' > 0
  BY <1>1, WorkerAssumption DEF WorkerTypeOK
<1> QED
  BY <1>1, <1>2, <1>3, <1>4, <1>5 DEF done

LEMMA WorkerStarts ==
  ASSUME WorkerInit
  PROVE  WorkerInv
<1> USE WorkerAssumption, Jobs DEF WorkerInit
<1>1. WorkerTypeOK
  <2>1. /\ 0 \in 0..IdleDelay /\ 0 \in -Grace - 1 .. PeriodicInterval /\ 0 \in 0..Grace
        /\ 0 \in 0..(Bound + 1) /\ 0 \in 0..(IdleDelay + 1)
    BY DEF Bound
  <2> QED
    BY <2>1 DEF WorkerTypeOK
<1>2. JobInv /\ NothingQueued /\ PeriodicInv
  BY DEF JobInv, NothingQueued, PeriodicInv
<1>3. WaitInv /\ NeglectInv
  BY DEF WaitInv, NeglectInv
<1> QED
  BY <1>1, <1>2, <1>3 DEF WorkerInv

(* A turn with the job that is left over.                                  *)
LEMMA TurnStep ==
  ASSUME WorkerInv, Turn
  PROVE  WorkerInv'
<1> USE WorkerAssumption, Jobs
<1>1. /\ job \in JobType /\ nextJob \in 0..IdleDelay /\ Rest(job, nextJob)
      /\ pc = "turn" /\ ~stopping /\ ~stopping' /\ ~TimedOut(job)
      /\ UNCHANGED <<queue, finishing, fifo, stopping, patience, waiting, neglected, woken>>
  BY DEF WorkerInv, WorkerTypeOK, Turn, history
<1>2. WorkerTypeOK
  BY DEF WorkerInv
<1>3. /\ pc' = "select" /\ job' \in JobType /\ nextJob' \in 0..IdleDelay
      /\ periodic' \in {"none", "running"}
      /\ nextPeriodic' \in -Grace - 1 .. PeriodicInterval
      /\ \/ job' = job /\ job.here /\ ~Polled(job)
         \/ job' = NewJob /\ (~job.here \/ Polled(job))
         \/ /\ job' = NoJob /\ (~job.here \/ Polled(job))
            /\ nextJob' > 0 /\ (nextJob' = nextJob \/ Polled(job))
      /\ periodic' = "none" => nextPeriodic' > 0
  BY <1>1, <1>2, RestStep
<1>4. Polled(job) => job.here /\ job.looked
  BY <1>1 DEF Polled, WorkerInv, JobInv
<1>5. WorkerTypeOK'
  BY <1>1, <1>3 DEF WorkerInv, WorkerTypeOK, Bound
<1>6. JobInv' /\ NothingQueued' /\ PeriodicInv'
  BY <1>1, <1>3 DEF WorkerInv, JobInv, NothingQueued, PeriodicInv
<1>7. WaitInv'
  BY <1>1, <1>3, <1>4 DEF WorkerInv, WorkerTypeOK, WaitInv, Bound, JobType
<1>8. NeglectInv'
  BY <1>1, <1>3, <1>4 DEF WorkerInv, WorkerTypeOK, NeglectInv
<1> QED
  BY <1>5, <1>6, <1>7, <1>8 DEF WorkerInv

(* The turn goes on without the job that was terminated.                   *)
LEMMA KilledStep ==
  ASSUME WorkerInv, Killed
  PROVE  WorkerInv'
<1> USE WorkerAssumption, Jobs
<1> DEFINE delay == IF job.processed THEN 0 ELSE IdleDelay
<1>1. /\ delay \in 0..IdleDelay /\ Rest(NoJob, delay) /\ pc = "killing"
      /\ UNCHANGED <<queue, finishing, fifo, stopping, patience, waiting, neglected, woken>>
  BY DEF WorkerInv, WorkerTypeOK, Killed, history
<1>2. WorkerTypeOK /\ ~Polled(NoJob)
  BY DEF WorkerInv, Polled
<1> HIDE DEF delay
<1>3. /\ pc' = "select" /\ job' \in JobType /\ nextJob' \in 0..IdleDelay
      /\ periodic' \in {"none", "running"}
      /\ nextPeriodic' \in -Grace - 1 .. PeriodicInterval
      /\ job' = NewJob \/ job' = NoJob
      /\ periodic' = "none" => nextPeriodic' > 0
  BY <1>1, <1>2, RestStep
<1>4. job.here /\ job.looked
  BY <1>1 DEF WorkerInv, JobInv
<1>5. WorkerTypeOK'
  BY <1>1, <1>3 DEF WorkerInv, WorkerTypeOK, Bound
<1>6. JobInv' /\ NothingQueued' /\ PeriodicInv'
  BY <1>1, <1>3 DEF WorkerInv, JobInv, NothingQueued, PeriodicInv
<1>7. WaitInv'
  BY <1>1, <1>3, <1>4 DEF WorkerInv, WorkerTypeOK, WaitInv, Bound
<1>8. NeglectInv'
  BY <1>1, <1>3, <1>4 DEF WorkerInv, WorkerTypeOK, NeglectInv
<1> QED
  BY <1>5, <1>6, <1>7, <1>8 DEF WorkerInv

(* Time passes.                                                            *)
LEMMA TickStep ==
  ASSUME WorkerInv, Tick
  PROVE  WorkerInv'
<1> USE WorkerAssumption, Jobs
<1>1. WorkerTypeOK /\ JobInv /\ Bound \in Nat
  BY DEF WorkerInv, Bound
<1>2. UNCHANGED <<queue, finishing, fifo, pc, stopping, periodic, woken>>
  BY DEF Tick
<1>3. nextJob' = IF nextJob > 0 THEN nextJob - 1 ELSE 0
  <2>1. nextJob' = Max({nextJob - 1, 0}) /\ nextJob - 1 \in Int
    BY <1>1 DEF Tick, WorkerTypeOK
  <2> QED
    BY <1>1, <2>1, Maximum DEF WorkerTypeOK
<1>4. patience' = IF patience > 0 THEN patience - 1 ELSE 0
  <2>1. patience' = Max({patience - 1, 0}) /\ patience - 1 \in Int
    BY <1>1 DEF Tick, WorkerTypeOK
  <2> QED
    BY <1>1, <2>1, Maximum DEF WorkerTypeOK
<1>5. nextPeriodic' = IF nextPeriodic > -Grace - 1 THEN nextPeriodic - 1 ELSE -Grace - 1
  <2>1. /\ nextPeriodic' = Max({nextPeriodic - 1, -Grace - 1})
        /\ nextPeriodic - 1 \in Int /\ -Grace - 1 \in Int
    BY <1>1 DEF Tick, WorkerTypeOK
  <2> QED
    BY <1>1, <2>1, Maximum DEF WorkerTypeOK
<1>6. waiting' = IF queue = 0 THEN 0 ELSE IF waiting <= Bound THEN waiting + 1 ELSE Bound + 1
  <2>1. waiting' = IF queue > 0 THEN Min({waiting + 1, Bound + 1}) ELSE 0
    BY DEF Tick
  <2>2. waiting + 1 \in Int /\ Bound + 1 \in Int
    BY <1>1 DEF WorkerTypeOK
  <2>3. Min({waiting + 1, Bound + 1}) = IF waiting <= Bound THEN waiting + 1 ELSE Bound + 1
    BY <1>1, <2>2, Minimum DEF WorkerTypeOK
  <2> QED
    BY <1>1, <2>1, <2>3 DEF WorkerTypeOK
<1>7. neglected' = IF queue = 0 \/ job.here THEN neglected
                   ELSE IF neglected <= IdleDelay THEN neglected + 1 ELSE IdleDelay + 1
  <2>1. neglected' = IF queue > 0 /\ ~job.here THEN Min({neglected + 1, IdleDelay + 1})
                     ELSE neglected
    BY DEF Tick
  <2>2. neglected + 1 \in Int /\ IdleDelay + 1 \in Int
    BY <1>1 DEF WorkerTypeOK
  <2>3. Min({neglected + 1, IdleDelay + 1})
          = IF neglected <= IdleDelay THEN neglected + 1 ELSE IdleDelay + 1
    BY <1>1, <2>2, Minimum DEF WorkerTypeOK
  <2> QED
    BY <1>1, <2>1, <2>3 DEF WorkerTypeOK
<1>8. /\ job' \in JobType
      /\ job.here => /\ job' = [job EXCEPT !.age = job'.age] /\ job.looked
                     /\ job'.age = IF job.age < JobTimeout THEN job.age + 1 ELSE JobTimeout
      /\ ~job.here => job' = job
  <2>1. CASE job.here
    <3>1. job' = [job EXCEPT !.age = Min({job.age + 1, JobTimeout})] /\ job.looked
      BY <2>1 DEF Tick
    <3>2. job \in JobType /\ job.age + 1 \in Int /\ JobTimeout \in Int /\ job.age \in 0..JobTimeout
      BY <1>1 DEF WorkerTypeOK, JobType
    <3>3. Min({job.age + 1, JobTimeout})
            = IF job.age < JobTimeout THEN job.age + 1 ELSE JobTimeout
      BY <3>2, Minimum
    <3> HIDE DEF Min
    <3>4. Min({job.age + 1, JobTimeout}) \in 0..JobTimeout
      BY <3>2, <3>3
    <3> QED
      BY <2>1, <3>1, <3>2, <3>3, <3>4 DEF JobType
  <2>2. CASE ~job.here
    BY <1>1, <2>2 DEF Tick, WorkerTypeOK
  <2> QED
    BY <2>1, <2>2
<1>9. job' # job => /\ job'.here = job.here /\ job'.looked = job.looked
                    /\ job'.exited = job.exited
  BY <1>1, <1>8 DEF WorkerTypeOK, JobType
<1>10. WorkerTypeOK'
  BY <1>1, <1>2, <1>3, <1>4, <1>5, <1>6, <1>7, <1>8 DEF WorkerTypeOK
<1>11. JobInv' /\ NothingQueued'
  BY <1>1, <1>2, <1>6, <1>7, <1>8, <1>9 DEF WorkerInv, JobInv, NothingQueued,
    WorkerTypeOK, Tick
<1>12. ~stopping => \/ pc = "select" /\ ~Due
                    \/ pc = "killing" /\ ~Gone
  BY <1>1 DEF Tick, JobInv
<1>13. ~stopping /\ pc = "killing" => patience > 0
  BY <1>1, <1>12 DEF Gone, WorkerTypeOK
<1>14. ~stopping /\ pc # "killing" => /\ pc = "select"
                                      /\ ~job.here => nextJob > 0
                                      /\ job.here => job.age < JobTimeout
                                      /\ periodic = "none" => nextPeriodic > 0
  BY <1>1, <1>12 DEF Due, TimedOut, WorkerTypeOK, JobType
<1>15. WaitInv'
  BY <1>1, <1>2, <1>3, <1>4, <1>6, <1>8, <1>9, <1>13, <1>14
     DEF WorkerInv, WaitInv, WorkerTypeOK, JobType, Bound, JobInv
<1>16. NeglectInv'
  BY <1>1, <1>2, <1>3, <1>7, <1>8, <1>9, <1>13, <1>14 DEF WorkerInv, NeglectInv,
    WorkerTypeOK, JobInv
<1>17. PeriodicInv'
  BY <1>1, <1>2, <1>4, <1>5, <1>13, <1>14 DEF WorkerInv, PeriodicInv, WorkerTypeOK
<1> QED
  BY <1>10, <1>11, <1>15, <1>16, <1>17 DEF WorkerInv

(* What hooks, handlers and the daemon do to the queue and the job.        *)
LEMMA OutsideStep ==
  ASSUME WorkerInv, \/ \E local \in BOOLEAN : Queue(local)
               \/ Wake \/ Handlers \/ RequestStop
  PROVE  WorkerInv'
<1> USE WorkerAssumption
<1>1. WorkerTypeOK /\ Bound \in Nat
  BY DEF WorkerInv, Bound
<1>2. ASSUME NEW local \in BOOLEAN, Queue(local)
      PROVE  WorkerInv'
  BY <1>1, <1>2 DEF Queue, WorkerInv, WorkerTypeOK, JobInv, NothingQueued, WaitInv,
    NeglectInv, PeriodicInv, worker, history
<1>3. CASE Wake
  BY <1>1, <1>3 DEF Wake, WorkerInv, WorkerTypeOK, JobInv, NothingQueued, WaitInv,
    NeglectInv, PeriodicInv, worker, history
<1>4. CASE RequestStop
  BY <1>1, <1>4 DEF RequestStop, WorkerInv, WorkerTypeOK, JobInv, NothingQueued, WaitInv,
    NeglectInv, PeriodicInv, history
<1>5. CASE PeriodicExits
  BY <1>1, <1>5 DEF PeriodicExits, WorkerInv, WorkerTypeOK, JobInv, NothingQueued,
    WaitInv, NeglectInv, PeriodicInv, history
<1>6. CASE Look
  <2>1. queue' = IF queue > 0 THEN queue - 1 ELSE 0
    <3>1. queue' = Max({queue - 1, 0}) /\ queue - 1 \in Int
      BY <1>1, <1>6 DEF Look, WorkerTypeOK
    <3> QED
      BY <1>1, <3>1, Maximum DEF WorkerTypeOK
  <2>2. /\ job' \in JobType /\ job'.here /\ job'.looked /\ ~job'.exited /\ job'.age = 0
        /\ job.here /\ ~job.looked /\ job.age = 0
    <3>1. job.here /\ ~job.looked /\ job.age = 0 /\ ~job.exited /\ job \in JobType
      BY <1>1, <1>6 DEF Look, WorkerTypeOK, WorkerInv, JobInv
    <3>2. job' = [job EXCEPT !.looked = TRUE, !.took = queue > 0] /\ (queue > 0) \in BOOLEAN
      BY <1>6 DEF Look
    <3> QED
      BY <3>1, <3>2 DEF JobType
  <2>3. UNCHANGED <<finishing, fifo, pc, stopping, periodic, nextJob, nextPeriodic, patience>>
    BY <1>6 DEF Look
  <2>4. waiting' = 0 /\ neglected' = 0 /\ woken' = FALSE
    <3>1. CASE queue > 0
      BY <1>6, <3>1 DEF Look
    <3>2. CASE ~(queue > 0)
      <4>1. UNCHANGED <<waiting, neglected, woken>>
        BY <1>6, <3>2 DEF Look, history
      <4>2. waiting = 0 /\ neglected = 0 /\ ~woken
        BY <1>1, <3>2 DEF WorkerInv, NothingQueued, WorkerTypeOK
      <4> QED
        BY <1>1, <4>1, <4>2 DEF WorkerTypeOK
    <3> QED
      BY <3>1, <3>2
  <2>5. WorkerTypeOK'
    <3>1. woken' \in BOOLEAN
      BY <2>4
    <3>2. waiting' \in 0..(Bound + 1) /\ neglected' \in 0..(IdleDelay + 1)
      BY <1>1, <2>4
    <3>3. queue' \in 0..MaxQueue
      BY <1>1, <2>1 DEF WorkerTypeOK
    <3> QED
      BY <1>1, <2>2, <2>3, <3>1, <3>2, <3>3 DEF WorkerTypeOK
  <2>6. pc # "killing" /\ pc \notin {"ending", "stopped"}
    BY <1>6, <2>2, Jobs DEF WorkerInv, JobInv
  <2>7. JobInv' /\ NothingQueued' /\ PeriodicInv'
    BY <2>2, <2>3, <2>4, <2>6 DEF WorkerInv, JobInv, NothingQueued, PeriodicInv
  <2>8. WaitInv' /\ NeglectInv'
    BY <1>1, <2>2, <2>3, <2>4, <2>6 DEF WaitInv, NeglectInv, WorkerTypeOK
  <2> QED
    BY <2>5, <2>7, <2>8 DEF WorkerInv
<1>7. ASSUME job' \in JobType,
             job'.here = job.here, job'.looked = job.looked, job'.age = job.age,
             job.here, job.exited' => job.looked,
             UNCHANGED <<queue, finishing, fifo, pc, stopping, periodic, nextJob, nextPeriodic,
                         patience, history>>
      PROVE  WorkerInv'
  <2>1. pc \notin {"ending", "stopped"}
    BY <1>7, Jobs DEF WorkerInv, JobInv
  <2> QED
    BY <1>1, <1>7, <2>1 DEF WorkerInv, WorkerTypeOK, JobInv, NothingQueued, WaitInv,
      NeglectInv, PeriodicInv, history
<1>8. CASE Report
  <2>1. job.here
    BY <1>1, <1>8, Jobs DEF Report, WorkerInv, JobInv, NoJob
  <2> QED
    BY <1>1, <1>7, <1>8, <2>1 DEF Report, WorkerTypeOK, JobType
<1>9. ASSUME NEW ok \in BOOLEAN, NEW output \in BOOLEAN, JobExits(ok, output)
      PROVE  WorkerInv'
  BY <1>1, <1>7, <1>9 DEF JobExits, WorkerTypeOK, JobType
<1>10. CASE OutputCloses
  <2>1. job.here /\ job.looked
    BY <1>1, <1>10, Jobs DEF OutputCloses, WorkerInv, JobInv
  <2> QED
    BY <1>1, <1>7, <1>10, <2>1 DEF OutputCloses, WorkerTypeOK, JobType
<1> QED
  BY <1>2, <1>3, <1>4, <1>5, <1>6, <1>8, <1>9, <1>10 DEF Handlers

(* The steps of the loop that start or end no handler, the stop and the    *)
(* restart.                                                                *)
LEMMA LoopStep ==
  ASSUME WorkerInv, Terminate \/ Select \/ Close \/ JobClosed \/ Stopped \/ Start
  PROVE  WorkerInv'
<1> USE WorkerAssumption
<1>1. WorkerTypeOK /\ Bound \in Nat
  BY DEF WorkerInv, Bound
<1>2. CASE Terminate
  <2>1. job.here /\ job.looked /\ job.age = JobTimeout /\ pc = "turn"
    BY <1>1, <1>2 DEF Terminate, TimedOut, WorkerInv, JobInv, WorkerTypeOK, JobType
  <2>2. /\ pc' = "killing" /\ patience' = Grace
        /\ UNCHANGED <<queue, finishing, fifo, stopping, job, periodic, nextJob, nextPeriodic,
                       waiting, neglected, woken>>
    BY <1>2 DEF Terminate, history
  <2>3. WorkerTypeOK' /\ JobInv' /\ NothingQueued'
    BY <1>1, <2>1, <2>2 DEF WorkerInv, WorkerTypeOK, JobInv, NothingQueued
  <2>4. WaitInv' /\ NeglectInv' /\ PeriodicInv'
    BY <1>1, <2>1, <2>2 DEF WorkerInv, WorkerTypeOK, WaitInv, NeglectInv, PeriodicInv
  <2> QED
    BY <2>3, <2>4 DEF WorkerInv
<1>3. CASE Select
  <2>1. WorkerTypeOK'
    <3>1. nextJob' \in 0..IdleDelay /\ woken' \in BOOLEAN
      BY <1>1, <1>3 DEF Select, WorkerTypeOK
    <3> QED
      BY <1>1, <1>3, <3>1 DEF Select, WorkerTypeOK
  <2>2. JobInv'
    BY <1>3 DEF Select, WorkerInv, JobInv
  <2>3. NothingQueued' /\ PeriodicInv'
    BY <1>1, <1>3 DEF Select, WorkerInv, WorkerTypeOK, NothingQueued, PeriodicInv
  <2>4. WaitInv' /\ NeglectInv'
    BY <1>1, <1>3 DEF Select, WorkerInv, WorkerTypeOK, WaitInv, NeglectInv
  <2> QED
    BY <2>1, <2>2, <2>3, <2>4 DEF WorkerInv
<1>4. CASE Close \/ JobClosed \/ Stopped
  <2>1. stopping /\ stopping'
    BY <1>4 DEF Close, JobClosed, Stopped, WorkerInv, JobInv
  <2>2. WorkerTypeOK'
    <3>1. Grace \in 0..Grace
      OBVIOUS
    <3>2. CASE Close
      BY <1>1, <3>1, <3>2 DEF Close, WorkerTypeOK, history
    <3>3. CASE JobClosed
      BY <1>1, <3>1, <3>3, Jobs DEF JobClosed, WorkerTypeOK, history
    <3>4. CASE Stopped
      BY <1>1, <3>4 DEF Stopped, WorkerTypeOK, history
    <3> QED
      BY <1>4, <3>2, <3>3, <3>4
  <2>3. JobInv' /\ NothingQueued'
    <3>1. CASE Close
      BY <2>1, <3>1 DEF Close, WorkerInv, JobInv, NothingQueued, history
    <3>2. CASE JobClosed
      BY <2>1, <3>2, Jobs DEF JobClosed, WorkerInv, JobInv, NothingQueued, history
    <3>3. CASE Stopped
      BY <2>1, <3>3 DEF Stopped, WorkerInv, JobInv, NothingQueued, history
    <3> QED
      BY <1>4, <3>1, <3>2, <3>3
  <2> QED
    BY <2>1, <2>2, <2>3 DEF WorkerInv, WaitInv, NeglectInv, PeriodicInv
<1>5. CASE Start
  <2>1. job = NoJob /\ periodic = "none"
    BY <1>5 DEF Start, WorkerInv, JobInv
  <2>2. WorkerTypeOK'
    <3>1. /\ 0 \in 0..IdleDelay /\ 0 \in -Grace - 1 .. PeriodicInterval /\ 0 \in 0..Grace
          /\ 0 \in 0..(Bound + 1) /\ 0 \in 0..(IdleDelay + 1)
      BY <1>1
    <3> QED
      BY <1>1, <1>5, <3>1 DEF Start, WorkerTypeOK
  <2>3. JobInv' /\ NothingQueued'
    BY <1>5, <2>1, Jobs DEF Start, JobInv, NothingQueued
  <2>4. WaitInv' /\ NeglectInv' /\ PeriodicInv'
    BY <1>1, <1>5, <2>1, Jobs DEF Start, WorkerTypeOK, WaitInv, NeglectInv, PeriodicInv
  <2> QED
    BY <2>2, <2>3, <2>4 DEF WorkerInv
<1> QED
  BY <1>2, <1>3, <1>4, <1>5

(* WorkerInv is an invariant of the worker.                                *)
THEOREM WorkerInvariance == WorkerSpec => []WorkerInv
<1>1. WorkerInit => WorkerInv
  BY WorkerStarts
<1>2. WorkerInv /\ [WorkerNext]_workerVars => WorkerInv'
  <2> SUFFICES ASSUME WorkerInv, [WorkerNext]_workerVars
               PROVE  WorkerInv'
    OBVIOUS
  <2>1. CASE WorkerNext
    BY <2>1, OutsideStep, LoopStep, TurnStep, KilledStep, TickStep DEF WorkerNext, Loop
  <2>2. CASE UNCHANGED workerVars
    BY <2>2 DEF workerVars, worker, history, WorkerInv, WorkerTypeOK, JobInv,
      NothingQueued, WaitInv, NeglectInv, PeriodicInv
  <2> QED
    BY <2>1, <2>2
<1> QED
  BY <1>1, <1>2, PTL DEF WorkerSpec

(* An event waits no longer than one time-out with its grace and one idle  *)
(* delay, no longer than the idle delay without a handler at work and not  *)
(* at all after its wake-up was read; the periodic handler is late by no   *)
(* more than a termination.                                                *)
THEOREM AlwaysPunctual == WorkerSpec => []Punctual
<1>1. ASSUME WorkerInv
      PROVE  Punctual
  <2> SUFFICES ASSUME ~stopping, pc # "stopped"
               PROVE  /\ waiting <= Bound
                      /\ neglected <= IdleDelay
                      /\ woken /\ pc = "select" => job.here
                      /\ periodic = "none" => nextPeriodic >= -Grace
    BY DEF Punctual
  <2>1. waiting <= Bound
    BY <1>1, WorkerAssumption DEF WorkerInv, WorkerTypeOK, JobType, WaitInv, Bound
  <2>2. neglected <= IdleDelay /\ (woken /\ pc = "select" => job.here)
    BY <1>1, WorkerAssumption DEF WorkerInv, WorkerTypeOK, NeglectInv
  <2>3. periodic = "none" => nextPeriodic >= -Grace
    BY <1>1, WorkerAssumption DEF WorkerInv, WorkerTypeOK, PeriodicInv
  <2> QED
    BY <2>1, <2>2, <2>3
<1> QED
  BY <1>1, WorkerInvariance, PTL
=============================================================================
