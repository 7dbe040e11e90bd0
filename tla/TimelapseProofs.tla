-------------------------- MODULE TimelapseProofs ---------------------------
(***************************************************************************)
(* Proofs about Timelapse, for any cameras, days, recordings, crashes and  *)
(* aborts: a valid marker is the truth, the archive holds finished         *)
(* recordings only, and none is lost or truncated.                         *)
(***************************************************************************)
EXTENDS Timelapse, TLAPS

(* The steps in which a camera holds a recording of its own, and those in  *)
(* which the job holds one.                                                *)
Holding == {"writing", "flushing", "publishing", "sealing"}
Copying == {"copying", "checking", "moving", "removing"}

(* No file is the only one without an author.                              *)
FilesOK == \A p \in Paths : disk[p].id = 0 => disk[p] = NoFile

(* What a camera holds is a recording no valid marker has announced; what  *)
(* it is about to announce is whole; and what it is about to open belongs  *)
(* to the present day.                                                     *)
Fits(w, files, marks, today) ==
  /\ w.step \in Holding =>
       /\ w.path \in Paths
       /\ files[w.path] # NoFile
       /\ marks[w.path] = IF w.step = "sealing" THEN "empty" ELSE "none"
       /\ w.step \in {"publishing", "sealing"} => Whole(files[w.path])
       /\ w.step # "writing" /\ w.next = "choosing" => w.period = today
  /\ w.step \in {"choosing", "opening"} => w.period = today
  /\ w.step = "opening" => w.path \in Paths /\ w.path[1] = today
  /\ w.step \in {"idle", "choosing", "off"} => w.path = NoPath
WriterOK(w) == Fits(w, disk, marker, day)
WritersOK ==
  /\ \A c \in Cameras : WriterOK(writer[c])
  /\ \A c, d \in Cameras :
       c # d /\ writer[c].step \in Holding /\ writer[d].step \in Holding =>
         writer[c].path # writer[d].path

(* The job works on recordings of past days whose markers are valid, and   *)
(* removes one only when the archive has it.                               *)
JobOK ==
  /\ \A p \in job.list : p[1] < day
  /\ job.step \in Copying \union {"unmarking"} =>
       job.path \in Paths /\ job.path[1] < day /\ marker[job.path] = "valid"
  /\ job.step \in Copying => disk[job.path] # NoFile /\ job.seen = disk[job.path]
  /\ job.step = "moving" => partial[job.path] = job.seen
  /\ job.step = "removing" => remote[job.path] = disk[job.path]
  /\ job.step = "unmarking" => disk[job.path] = NoFile

(* A valid marker beside a recording says that it is whole and announced,  *)
(* and an announced recording is beside its marker or at the archive.      *)
MarkersOK ==
  \A p \in Paths : marker[p] = "valid" /\ disk[p] # NoFile =>
    Whole(disk[p]) /\ disk[p].id \in finished
Kept ==
  \A id \in finished :
    \E p \in Paths :
      \/ disk[p].id = id /\ Whole(disk[p]) /\ marker[p] = "valid"
      \/ remote[p].id = id /\ Whole(remote[p])

IInv ==
  TypeOK /\ FilesOK /\ WritersOK /\ JobOK /\ MarkersOK /\ Kept /\ ArchiveIsFinished

-----------------------------------------------------------------------------
LEMMA InitIInv == Init => IInv
<1> SUFFICES ASSUME Init PROVE IInv
  OBVIOUS
<1> USE BoundsAssumption
<1>1. TypeOK
  <2>1. day \in 1..MaxDay
    BY DEF Init
  <2> QED
    BY <2>1 DEF Paths, Init, TypeOK, Content, NoFile, Markers, Asleep, NoJob, WriterSteps, JobSteps
<1>2. FilesOK /\ MarkersOK /\ Kept /\ ArchiveIsFinished
  BY DEF Init, FilesOK, MarkersOK, Kept, ArchiveIsFinished
<1>3. WritersOK
  BY DEF Init, WritersOK, WriterOK, Fits, Asleep, Holding
<1>4. JobOK
  BY DEF Init, JobOK, NoJob, Copying
<1> QED
  BY <1>1, <1>2, <1>3, <1>4 DEF IInv

-----------------------------------------------------------------------------
(* The writers.                                                            *)

WriterType == [step: WriterSteps, path: Paths \union {NoPath}, period: 0..MaxDay,
               next: {"idle", "choosing", "off"}]

(* What the job and the archive have is not touched by a camera: a step of *)
(* a camera changes neither a recording with a valid marker nor its marker. *)
Untouched == \A p \in Paths : marker[p] = "valid" => disk'[p] = disk[p] /\ marker'[p] = "valid"
LEMMA UntouchedKeeps ==
  ASSUME IInv, Untouched, UNCHANGED <<day, archive, job>>, finished \subseteq finished'
  PROVE  JobOK' /\ ArchiveIsFinished'
<1>1. JobOK'
  BY DEF IInv, JobOK, Copying, Untouched, archive
<1>2. ArchiveIsFinished'
  BY DEF IInv, ArchiveIsFinished, Untouched, archive
<1> QED
  BY <1>1, <1>2

(* A camera does something with the recording it holds.                    *)
LEMMA HolderStep ==
  ASSUME IInv, NEW c \in Cameras, writer[c].step \in Holding,
         NEW file \in Content, NEW mark \in Markers, NEW v \in WriterType,
         disk' = [disk EXCEPT ![writer[c].path] = file],
         marker' = [marker EXCEPT ![writer[c].path] = mark],
         writer' = [writer EXCEPT ![c] = v],
         UNCHANGED <<day, archive, job, created, bounds>>,
         file.id = disk[writer[c].path].id,
         Fits(v, disk', marker', day),
         v.step \in Holding => v.path = writer[c].path,
         mark = "valid" => Whole(file),
         finished' = IF mark = "valid" THEN finished \union {file.id} ELSE finished
  PROVE  IInv'
<1> DEFINE path == writer[c].path
<1>1. /\ path \in Paths /\ disk[path] # NoFile /\ marker[path] # "valid"
      /\ WriterOK(writer[c])
  BY DEF IInv, WritersOK, WriterOK, Fits
<1>2. disk \in [Paths -> Content] /\ marker \in [Paths -> Markers]
      /\ writer \in [Cameras -> WriterType]
  BY DEF IInv, TypeOK, WriterType
<1>3. file # NoFile /\ file.id # 0 /\ file.id \in 1..MaxRecordings
  <2>1. file.id # 0
    BY <1>1 DEF IInv, FilesOK
  <2> QED
    BY <2>1, BoundsAssumption DEF NoFile, Content
<1>4. \A p \in Paths : p # path => disk'[p] = disk[p] /\ marker'[p] = marker[p]
  BY <1>2
<1>5. disk'[path] = file /\ marker'[path] = mark
  BY <1>1, <1>2
<1>6. \A d \in Cameras : d # c => writer'[d] = writer[d]
  BY <1>2
<1>7. writer'[c] = v
  BY <1>2
<1> HIDE DEF path
<1>8. Untouched
  BY <1>1, <1>4 DEF Untouched
<1>9. finished \subseteq finished' /\ finished' \subseteq 1..MaxRecordings
  BY <1>3 DEF IInv, TypeOK
<1>10. JobOK' /\ ArchiveIsFinished'
  BY <1>8, <1>9, UntouchedKeeps
<1>11. TypeOK'
  <2>1. disk' \in [Paths -> Content] /\ marker' \in [Paths -> Markers]
        /\ writer' \in [Cameras -> WriterType]
    BY <1>2
  <2> QED
    BY <2>1, <1>9 DEF IInv, TypeOK, WriterType, archive, bounds
<1>12. FilesOK'
  BY <1>3, <1>4, <1>5 DEF IInv, FilesOK
<1>13. WritersOK'
  <2>1. ASSUME NEW d \in Cameras
        PROVE  WriterOK(writer[d])'
    <3>1. CASE d = c
      BY <3>1, <1>7 DEF WriterOK
    <3>2. CASE d # c
      <4>1. writer'[d] = writer[d] /\ WriterOK(writer[d])
        BY <3>2, <1>6 DEF IInv, WritersOK
      <4>2. writer[d].step \in Holding => writer[d].path \in Paths /\ writer[d].path # path
        BY <3>2, <4>1 DEF IInv, WritersOK, WriterOK, Fits, path
      <4> QED
        BY <4>1, <4>2, <1>4 DEF WriterOK, Fits
    <3> QED
      BY <3>1, <3>2
  <2>2. ASSUME NEW d \in Cameras, NEW e \in Cameras, d # e,
               writer'[d].step \in Holding, writer'[e].step \in Holding
        PROVE  writer'[d].path # writer'[e].path
    BY <2>2, <1>6, <1>7 DEF IInv, WritersOK
  <2> QED
    BY <2>1, <2>2 DEF WritersOK
<1>14. MarkersOK'
  BY <1>4, <1>5, <1>9 DEF IInv, MarkersOK
<1>15. Kept'
  <2>1. ASSUME NEW id \in finished
        PROVE  \E p \in Paths :
                 \/ disk'[p].id = id /\ Whole(disk'[p]) /\ marker'[p] = "valid"
                 \/ remote'[p].id = id /\ Whole(remote'[p])
    BY <2>1, <1>8 DEF IInv, Kept, Untouched, archive
  <2>2. mark = "valid" =>
          disk'[path].id = file.id /\ Whole(disk'[path]) /\ marker'[path] = "valid"
    BY <1>5
  <2> QED
    BY <2>1, <2>2, <1>1 DEF Kept
<1> QED
  BY <1>10, <1>11, <1>12, <1>13, <1>14, <1>15 DEF IInv

(* A camera without a recording goes on without one.                       *)
LEMMA EmptyStep ==
  ASSUME IInv, NEW c \in Cameras, writer[c].step \notin Holding, NEW v \in WriterType,
         writer' = [writer EXCEPT ![c] = v],
         UNCHANGED <<day, disks, archive, job, finished, created, bounds>>,
         v.step \notin Holding, Fits(v, disk, marker, day)
  PROVE  IInv'
<1>1. writer \in [Cameras -> WriterType]
  BY DEF IInv, TypeOK, WriterType
<1>2. /\ writer' \in [Cameras -> WriterType] /\ writer'[c] = v
      /\ \A d \in Cameras : d # c => writer'[d] = writer[d]
  BY <1>1
<1>3. disk' = disk /\ marker' = marker /\ day' = day /\ remote' = remote /\ partial' = partial
      /\ job' = job /\ finished' = finished /\ created' = created
      /\ crashes' = crashes /\ aborts' = aborts
  BY DEF disks, archive, bounds
<1>4. TypeOK'
  BY <1>2, <1>3 DEF IInv, TypeOK, WriterType
<1>5. WritersOK'
  <2>1. ASSUME NEW d \in Cameras
        PROVE  WriterOK(writer[d])'
    BY <1>2, <1>3 DEF IInv, WritersOK, WriterOK
  <2>2. ASSUME NEW d \in Cameras, NEW e \in Cameras, d # e,
               writer'[d].step \in Holding, writer'[e].step \in Holding
        PROVE  writer'[d].path # writer'[e].path
    BY <2>2, <1>2 DEF IInv, WritersOK
  <2> QED
    BY <2>1, <2>2 DEF WritersOK
<1>6. FilesOK' /\ JobOK' /\ MarkersOK' /\ Kept' /\ ArchiveIsFinished'
  BY <1>3 DEF IInv, FilesOK, JobOK, MarkersOK, Kept, ArchiveIsFinished
<1> QED
  BY <1>4, <1>5, <1>6 DEF IInv

-----------------------------------------------------------------------------
(* The record of a writer.                                                 *)
LEMMA WriterShape ==
  ASSUME IInv, NEW c \in Cameras
  PROVE  /\ writer[c] \in WriterType
         /\ WriterOK(writer[c])
         /\ day \in 1..MaxDay
         /\ disk \in [Paths -> Content] /\ marker \in [Paths -> Markers]
BY DEF IInv, TypeOK, WriterType, WritersOK

(* The recording a camera holds.                                           *)
LEMMA HeldFile ==
  ASSUME IInv, NEW c \in Cameras, writer[c].step \in Holding
  PROVE  /\ writer[c].path \in Paths
         /\ disk[writer[c].path] \in Content /\ disk[writer[c].path] # NoFile
         /\ marker[writer[c].path] \in Markers /\ marker[writer[c].path] # "valid"
         /\ disk = [disk EXCEPT ![writer[c].path] = disk[writer[c].path]]
         /\ marker = [marker EXCEPT ![writer[c].path] = marker[writer[c].path]]
<1>1. /\ writer[c].path \in Paths /\ disk[writer[c].path] # NoFile
      /\ marker[writer[c].path] # "valid"
  BY WriterShape DEF WriterOK, Fits
<1> QED
  BY <1>1, WriterShape

(* A camera only changes its mind about the recording it holds.            *)
LEMMA HolderPauses ==
  ASSUME IInv, NEW c \in Cameras, writer[c].step \in Holding, NEW v \in WriterType,
         writer' = [writer EXCEPT ![c] = v],
         UNCHANGED <<day, disks, archive, job, finished, created, bounds>>,
         Fits(v, disk, marker, day),
         v.step \in Holding => v.path = writer[c].path
  PROVE  IInv'
<1> DEFINE path == writer[c].path
           file == disk[path]
           mark == marker[path]
<1>1. /\ file \in Content /\ mark \in Markers /\ mark # "valid"
      /\ disk' = [disk EXCEPT ![path] = file] /\ marker' = [marker EXCEPT ![path] = mark]
  BY HeldFile DEF disks
<1>2. /\ Fits(v, disk', marker', day) /\ file.id = disk[path].id
      /\ finished' = IF mark = "valid" THEN finished \union {file.id} ELSE finished
  BY <1>1 DEF disks
<1>3. mark = "valid" => Whole(file)
  BY <1>1
<1>4. UNCHANGED <<day, archive, job, created, bounds>>
  OBVIOUS
<1> HIDE DEF file, mark
<1> QED
  BY <1>1, <1>2, <1>3, <1>4, HolderStep

LEMMA RotateStep ==
  ASSUME IInv, NEW c \in Cameras, Rotate(c)
  PROVE  IInv'
<1> DEFINE w == writer[c]
           step == IF w.step = "writing" THEN "flushing" ELSE "choosing"
           v == [w EXCEPT !.step = step, !.period = day, !.next = "choosing"]
<1>1. w.step \in {"idle", "writing"} /\ w \in WriterType /\ WriterOK(w) /\ day \in 1..MaxDay
  BY WriterShape DEF Rotate
<1>2. step \in WriterSteps /\ day \in 0..MaxDay
  BY <1>1, BoundsAssumption DEF WriterSteps
<1>3. writer' = [writer EXCEPT ![c] = v]
      /\ UNCHANGED <<day, disks, archive, job, finished, created, bounds>>
  BY DEF Rotate
<1> HIDE DEF step
<1>4. v \in WriterType /\ v.step = step /\ v.path = w.path /\ v.period = day /\ v.next = "choosing"
  BY <1>1, <1>2 DEF WriterType
<1> HIDE DEF v
<1>5. CASE w.step = "writing"
  <2>1. w.step \in Holding /\ v.step \in Holding /\ Fits(v, disk, marker, day)
    BY <1>1, <1>4, <1>5 DEF WriterOK, Fits, Holding, step
  <2> QED
    BY <1>3, <1>4, <2>1, HolderPauses
<1>6. CASE w.step = "idle"
  <2>1. w.step \notin Holding /\ v.step \notin Holding /\ Fits(v, disk, marker, day)
    BY <1>1, <1>4, <1>6 DEF WriterOK, Fits, Holding, step
  <2> QED
    BY <1>3, <1>4, <2>1, EmptyStep
<1> QED
  BY <1>1, <1>5, <1>6

LEMMA EndStep ==
  ASSUME IInv, NEW c \in Cameras, End(c)
  PROVE  IInv'
<1> DEFINE w == writer[c]
           step == IF w.step = "writing" THEN "flushing" ELSE "off"
           v == [w EXCEPT !.step = step, !.next = "off"]
<1>1. w.step \in {"idle", "writing"} /\ w \in WriterType /\ WriterOK(w)
  BY WriterShape DEF End
<1>2. step \in WriterSteps
  BY DEF WriterSteps
<1>3. writer' = [writer EXCEPT ![c] = v]
      /\ UNCHANGED <<day, disks, archive, job, finished, created, bounds>>
  BY DEF End
<1> HIDE DEF step
<1>4. v \in WriterType /\ v.step = step /\ v.path = w.path /\ v.next = "off"
  BY <1>1, <1>2 DEF WriterType
<1> HIDE DEF v
<1>5. CASE w.step = "writing"
  <2>1. w.step \in Holding /\ v.step \in Holding /\ Fits(v, disk, marker, day)
    BY <1>1, <1>4, <1>5 DEF WriterOK, Fits, Holding, step
  <2> QED
    BY <1>3, <1>4, <2>1, HolderPauses
<1>6. CASE w.step = "idle"
  <2>1. w.step \notin Holding /\ v.step \notin Holding /\ Fits(v, disk, marker, day)
    BY <1>1, <1>4, <1>6 DEF WriterOK, Fits, Holding, step
  <2> QED
    BY <1>3, <1>4, <2>1, EmptyStep
<1> QED
  BY <1>1, <1>5, <1>6

LEMMA RestartStep ==
  ASSUME IInv, NEW c \in Cameras, Restart(c)
  PROVE  IInv'
<1>1. Asleep \in WriterType /\ Asleep.step \notin Holding
      /\ Fits(Asleep, disk, marker, day) /\ writer[c].step \notin Holding
  BY BoundsAssumption DEF Asleep, WriterType, WriterSteps, Holding, Fits, Restart
<1>2. writer' = [writer EXCEPT ![c] = Asleep]
      /\ UNCHANGED <<day, disks, archive, job, finished, created, bounds>>
  BY DEF Restart
<1> QED
  BY <1>1, <1>2, EmptyStep

LEMMA WriteStep ==
  ASSUME IInv, NEW c \in Cameras, Write(c)
  PROVE  IInv'
<1> DEFINE w == writer[c]
           file == disk[w.path]
           mark == marker[w.path]
<1>1. w.step = "writing" /\ w.step \in Holding /\ w \in WriterType /\ WriterOK(w)
      /\ disk \in [Paths -> Content]
  BY WriterShape DEF Write, Holding
<1>2. /\ w.path \in Paths /\ file \in Content /\ file # NoFile
      /\ mark \in Markers /\ mark # "valid" /\ mark = "none"
      /\ marker = [marker EXCEPT ![w.path] = mark]
  BY <1>1, HeldFile DEF WriterOK, Fits
<1>3. /\ writer = [writer EXCEPT ![c] = w]
      /\ UNCHANGED <<day, archive, job, created, bounds>>
      /\ writer' = writer /\ marker' = marker /\ finished' = finished
  BY DEF Write, IInv, TypeOK
<1>4. PICK new \in Content : disk' = [disk EXCEPT ![w.path] = new] /\ new.id = file.id
  <2>1. CASE file.frames < MaxFrames /\ disk' = [disk EXCEPT ![w.path].frames = @ + 1]
    <3> DEFINE new == [file EXCEPT !.frames = @ + 1]
    <3>1. new \in Content /\ new.id = file.id
      BY <1>2, <2>1, BoundsAssumption DEF Content
    <3>2. disk' = [disk EXCEPT ![w.path] = new]
      BY <1>1, <1>2, <2>1
    <3> QED
      BY <3>1, <3>2
  <2>2. CASE disk' = [disk EXCEPT ![w.path].torn = TRUE]
    <3> DEFINE new == [file EXCEPT !.torn = TRUE]
    <3>1. new \in Content /\ new.id = file.id
      BY <1>2 DEF Content
    <3>2. disk' = [disk EXCEPT ![w.path] = new]
      BY <1>1, <1>2, <2>2
    <3> QED
      BY <3>1, <3>2
  <2> QED
    BY <2>1, <2>2 DEF Write
<1>5. disk'[w.path] # NoFile /\ disk'[w.path] = new
  <2>1. file.id # 0
    BY <1>2 DEF IInv, FilesOK
  <2> QED
    BY <2>1, <1>1, <1>2, <1>4 DEF NoFile
<1>6. Fits(w, disk', marker', day)
  BY <1>1, <1>2, <1>3, <1>5 DEF WriterOK, Fits, Holding
<1>7. /\ writer' = [writer EXCEPT ![c] = w] /\ marker' = [marker EXCEPT ![w.path] = mark]
      /\ finished' = IF mark = "valid" THEN finished \union {new.id} ELSE finished
      /\ mark = "valid" => Whole(new)
  BY <1>2, <1>3
<1> HIDE DEF mark
<1> QED
  BY <1>1, <1>2, <1>3, <1>4, <1>6, <1>7, HolderStep

LEMMA FlushStep ==
  ASSUME IInv, NEW c \in Cameras, Flush(c)
  PROVE  IInv'
<1> DEFINE w == writer[c]
           file == disk[w.path]
           mark == marker[w.path]
<1>1. w.step = "flushing" /\ w.step \in Holding /\ w \in WriterType /\ WriterOK(w)
      /\ disk \in [Paths -> Content]
  BY WriterShape DEF Flush, Holding
<1>2. /\ w.path \in Paths /\ file \in Content /\ file # NoFile
      /\ mark \in Markers /\ mark # "valid" /\ mark = "none"
      /\ marker = [marker EXCEPT ![w.path] = mark]
  BY <1>1, HeldFile DEF WriterOK, Fits
<1>3. UNCHANGED <<day, archive, job, created, bounds>> /\ marker' = marker
      /\ finished' = finished
  BY DEF Flush
<1>4. PICK torn \in {file.torn, TRUE} :
        /\ disk' = [disk EXCEPT ![w.path].ended = ~torn, ![w.path].torn = torn]
        /\ writer' = [writer EXCEPT ![c] =
             [@ EXCEPT !.step = IF torn THEN w.next ELSE "publishing",
                       !.path = IF torn THEN NoPath ELSE w.path]]
  BY DEF Flush
<1> DEFINE new == [file EXCEPT !.ended = ~torn, !.torn = torn]
           step == IF torn THEN w.next ELSE "publishing"
           path == IF torn THEN NoPath ELSE w.path
           v == [w EXCEPT !.step = step, !.path = path]
<1>5. torn \in BOOLEAN
  BY <1>2, <1>4 DEF Content
<1>6. new \in Content /\ new.id = file.id /\ new.torn = torn /\ new.ended = ~torn
  BY <1>2, <1>5 DEF Content
<1>7. disk' = [disk EXCEPT ![w.path] = new]
  BY <1>1, <1>2, <1>4, <1>6 DEF Content
<1>8. writer' = [writer EXCEPT ![c] = v]
  BY <1>4
<1>9. step \in WriterSteps /\ path \in Paths \union {NoPath}
  BY <1>1, <1>2 DEF WriterType, WriterSteps
<1>10. disk'[w.path] = new /\ new # NoFile
  <2>1. file.id # 0
    BY <1>2 DEF IInv, FilesOK
  <2> QED
    BY <2>1, <1>1, <1>2, <1>6, <1>7 DEF NoFile
<1>11. ~torn => Whole(new)
  BY <1>6, <1>10 DEF Whole
<1>12. step \in Holding => path = w.path /\ step = "publishing" /\ ~torn
  BY <1>1, <1>5 DEF Holding, WriterType
<1>13. step \in {"idle", "choosing", "off", "publishing"}
       /\ (step # "publishing" => path = NoPath /\ step = w.next)
  BY <1>1, <1>5 DEF WriterType
<1> HIDE DEF step, path, new
<1>14. v \in WriterType /\ v.step = step /\ v.path = path /\ v.period = w.period /\ v.next = w.next
  BY <1>1, <1>9 DEF WriterType
<1> HIDE DEF v
<1>15. Fits(v, disk', marker', day)
  BY <1>1, <1>2, <1>3, <1>10, <1>11, <1>12, <1>13, <1>14 DEF WriterOK, Fits, Holding
<1>16. /\ marker' = [marker EXCEPT ![w.path] = mark]
       /\ finished' = IF mark = "valid" THEN finished \union {new.id} ELSE finished
       /\ mark = "valid" => Whole(new)
       /\ v.step \in Holding => v.path = w.path
  BY <1>2, <1>3, <1>12, <1>14
<1> HIDE DEF mark
<1> QED
  BY <1>1, <1>2, <1>3, <1>6, <1>7, <1>8, <1>14, <1>15, <1>16, HolderStep

(* A recording is let go: its writer goes on to what follows the closing.  *)
LEMMA LetGo ==
  ASSUME IInv, NEW c \in Cameras, writer[c].step \in Holding \ {"writing"}
  PROVE  LET w == writer[c]
             v == [w EXCEPT !.step = w.next, !.path = NoPath]
         IN /\ v \in WriterType /\ v.step \notin Holding
            /\ \A files, marks : Fits(v, files, marks, day)
<1> DEFINE w == writer[c]
           v == [w EXCEPT !.step = w.next, !.path = NoPath]
<1>1. w \in WriterType /\ (w.next = "choosing" => w.period = day)
  BY WriterShape DEF WriterOK, Fits, Holding
<1>2. v \in WriterType /\ v.step = w.next /\ v.path = NoPath /\ v.period = w.period
  BY <1>1 DEF WriterType, WriterSteps
<1>3. w.next \in {"idle", "choosing", "off"}
  BY <1>1 DEF WriterType
<1> HIDE DEF v, w
<1>4. v.step \notin Holding /\ \A files, marks : Fits(v, files, marks, day)
  BY <1>1, <1>2, <1>3 DEF Fits, Holding
<1> QED
  BY <1>2, <1>4 DEF v, w

LEMMA PublishStep ==
  ASSUME IInv, NEW c \in Cameras, Publish(c)
  PROVE  IInv'
<1> DEFINE w == writer[c]
           file == disk[w.path]
<1>1. w.step = "publishing" /\ w.step \in Holding /\ w \in WriterType /\ WriterOK(w)
  BY WriterShape DEF Publish, Holding
<1>2. /\ w.path \in Paths /\ file \in Content /\ file # NoFile /\ Whole(file)
      /\ disk = [disk EXCEPT ![w.path] = file]
  BY <1>1, HeldFile DEF WriterOK, Fits
<1>3. /\ UNCHANGED <<day, archive, job, created, bounds>>
      /\ disk' = disk /\ finished' = finished
  BY DEF Publish
<1>4. CASE /\ marker[w.path] = "none"
           /\ marker' = [marker EXCEPT ![w.path] = "empty"]
           /\ writer' = [writer EXCEPT ![c].step = "sealing"]
  <2> DEFINE v == [w EXCEPT !.step = "sealing"]
  <2>1. v \in WriterType /\ v.step = "sealing" /\ v.path = w.path /\ v.period = w.period
        /\ v.next = w.next
    BY <1>1 DEF WriterType, WriterSteps
  <2>2. writer' = [writer EXCEPT ![c] = v]
    BY <1>4
  <2> HIDE DEF v
  <2>3. marker'[w.path] = "empty"
    BY <1>2, <1>4, WriterShape
  <2>4. Fits(v, disk', marker', day)
    BY <1>1, <1>2, <1>3, <2>1, <2>3 DEF WriterOK, Fits, Holding
  <2>5. /\ disk' = [disk EXCEPT ![w.path] = file] /\ "empty" \in Markers
        /\ finished' = IF "empty" = "valid" THEN finished \union {file.id} ELSE finished
    BY <1>2, <1>3 DEF Markers
  <2> QED
    BY <1>1, <1>2, <1>3, <1>4, <2>1, <2>2, <2>4, <2>5, HolderStep
<1>5. CASE /\ writer' = [writer EXCEPT ![c] = [@ EXCEPT !.step = w.next, !.path = NoPath]]
           /\ UNCHANGED marker
  <2> DEFINE v == [w EXCEPT !.step = w.next, !.path = NoPath]
  <2>1. v \in WriterType /\ v.step \notin Holding /\ Fits(v, disk, marker, day)
    BY <1>1, LetGo
  <2>2. writer' = [writer EXCEPT ![c] = v]
        /\ UNCHANGED <<day, disks, archive, job, finished, created, bounds>>
    BY <1>3, <1>5 DEF disks
  <2> HIDE DEF v
  <2> QED
    BY <1>1, <2>1, <2>2, HolderPauses
<1> QED
  BY <1>4, <1>5 DEF Publish

LEMMA SealStep ==
  ASSUME IInv, NEW c \in Cameras, Seal(c)
  PROVE  IInv'
<1> DEFINE w == writer[c]
           file == disk[w.path]
           v == [w EXCEPT !.step = w.next, !.path = NoPath]
<1>1. w.step = "sealing" /\ w.step \in Holding /\ w.step \in Holding \ {"writing"}
      /\ w \in WriterType /\ WriterOK(w)
  BY WriterShape DEF Seal, Holding
<1>2. /\ w.path \in Paths /\ file \in Content /\ file # NoFile /\ Whole(file)
      /\ disk = [disk EXCEPT ![w.path] = file]
  BY <1>1, HeldFile DEF WriterOK, Fits
<1>3. /\ UNCHANGED <<day, archive, job, created, bounds>>
      /\ disk' = [disk EXCEPT ![w.path] = file]
      /\ writer' = [writer EXCEPT ![c] = v]
  BY <1>2 DEF Seal
<1>4. v \in WriterType /\ v.step \notin Holding /\ Fits(v, disk', marker', day)
  BY <1>1, LetGo
<1>5. PICK mark \in Markers :
        /\ marker' = [marker EXCEPT ![w.path] = mark]
        /\ finished' = IF mark = "valid" THEN finished \union {file.id} ELSE finished
  BY DEF Seal, Markers
<1> HIDE DEF v
<1> QED
  BY <1>1, <1>2, <1>3, <1>4, <1>5, HolderStep

LEMMA ChooseStep ==
  ASSUME IInv, NEW c \in Cameras, Choose(c)
  PROVE  IInv'
<1> DEFINE w == writer[c]
<1>1. w.step = "choosing" /\ w.step \notin Holding /\ w \in WriterType /\ WriterOK(w)
      /\ day \in 1..MaxDay
  BY WriterShape DEF Choose, Holding
<1>2. UNCHANGED <<day, disks, archive, job, finished, created, bounds>>
  BY DEF Choose
<1>3. PICK part \in 0..MaxRecordings :
        writer' = [writer EXCEPT ![c] =
          [@ EXCEPT !.step = "opening", !.path = <<w.period, part>>, !.next = "idle"]]
  BY DEF Choose
<1> DEFINE path == <<w.period, part>>
           v == [w EXCEPT !.step = "opening", !.path = path, !.next = "idle"]
<1>4. w.period = day /\ path \in Paths /\ path[1] = day
  BY <1>1 DEF WriterOK, Fits, Paths
<1> HIDE DEF path
<1>5. v \in WriterType /\ v.step = "opening" /\ v.path = path /\ v.period = w.period
  BY <1>1, <1>4 DEF WriterType, WriterSteps
<1>6. writer' = [writer EXCEPT ![c] = v]
  BY <1>3 DEF path
<1> HIDE DEF v
<1>7. v.step \notin Holding /\ Fits(v, disk, marker, day)
  BY <1>4, <1>5 DEF Fits, Holding
<1> QED
  BY <1>1, <1>2, <1>5, <1>6, <1>7, EmptyStep

LEMMA OpenStep ==
  ASSUME IInv, NEW c \in Cameras, Open(c)
  PROVE  IInv'
<1> DEFINE w == writer[c]
           path == w.path
           file == [id |-> created + 1, frames |-> 0, ended |-> FALSE, torn |-> FALSE]
           failed == [w EXCEPT !.step = "idle", !.path = NoPath]
           begun == [w EXCEPT !.step = "writing"]
<1>1. /\ w.step = "opening" /\ w.step \notin Holding /\ w \in WriterType /\ WriterOK(w)
      /\ day \in 1..MaxDay /\ path \in Paths
      /\ disk \in [Paths -> Content] /\ marker \in [Paths -> Markers]
      /\ writer \in [Cameras -> WriterType]
  BY WriterShape DEF Open, Holding, WriterOK, Fits, IInv, TypeOK, WriterType
<1>2. UNCHANGED <<day, marker, archive, job, finished, bounds>>
  BY DEF Open
<1>3. /\ failed \in WriterType /\ failed.step = "idle" /\ failed.path = NoPath
      /\ failed.period = w.period
      /\ begun \in WriterType /\ begun.step = "writing" /\ begun.path = path
      /\ begun.period = w.period
  BY <1>1 DEF WriterType, WriterSteps
<1>4. /\ \/ /\ writer' = [writer EXCEPT ![c] = failed]
            /\ UNCHANGED <<disk, created>>
         \/ /\ disk[path] = NoFile /\ marker[path] = "none"
            /\ created < MaxRecordings
            /\ disk' = [disk EXCEPT ![path] = file]
            /\ created' = created + 1
            /\ \/ writer' = [writer EXCEPT ![c] = failed]
               \/ writer' = [writer EXCEPT ![c] = begun]
  BY DEF Open, Free
<1> HIDE DEF failed, begun, path
<1>5. CASE /\ writer' = [writer EXCEPT ![c] = failed]
           /\ UNCHANGED <<disk, created>>
  <2>1. failed.step \notin Holding /\ Fits(failed, disk, marker, day)
    BY <1>3 DEF Fits, Holding
  <2>2. UNCHANGED <<day, disks, archive, job, finished, created, bounds>>
    BY <1>2, <1>5 DEF disks
  <2> QED
    BY <1>1, <1>3, <1>5, <2>1, <2>2, EmptyStep
<1>6. ASSUME disk[path] = NoFile, marker[path] = "none", created < MaxRecordings,
             disk' = [disk EXCEPT ![path] = file], created' = created + 1,
             NEW v \in {failed, begun}, writer' = [writer EXCEPT ![c] = v]
      PROVE  IInv'
  <2>1. created \in Nat /\ file \in Content /\ file # NoFile /\ file.id # 0
        /\ created' \in 0..MaxRecordings
    BY <1>6, BoundsAssumption DEF IInv, TypeOK, Content, NoFile
  <2> HIDE DEF file
  <2>2. /\ disk' \in [Paths -> Content] /\ disk'[path] = file
        /\ \A p \in Paths : p # path => disk'[p] = disk[p]
    BY <1>1, <1>6, <2>1 DEF path
  <2>3. /\ writer' \in [Cameras -> WriterType] /\ writer'[c] = v
        /\ \A d \in Cameras : d # c => writer'[d] = writer[d]
    BY <1>1, <1>3, <1>6
  <2>4. marker' = marker /\ finished' = finished /\ day' = day /\ job' = job
        /\ remote' = remote /\ partial' = partial
    BY <1>2 DEF archive
  <2>5. Untouched
    BY <1>6, <2>2, <2>4 DEF Untouched
  <2>6. JobOK' /\ ArchiveIsFinished'
    BY <1>2, <2>4, <2>5, UntouchedKeeps
  <2>7. TypeOK'
    BY <1>2, <2>1, <2>2, <2>3 DEF IInv, TypeOK, WriterType, archive, bounds
  <2>8. FilesOK'
    BY <2>1, <2>2 DEF IInv, FilesOK
  <2>9. WritersOK'
    <3>1. v.step \in Holding => v.step = "writing" /\ v.path = path
      BY <1>3, <1>6 DEF Holding
    <3>2. Fits(v, disk', marker', day)
      <4>1. path \in Paths
        BY <1>1 DEF path
      <4> QED
        BY <1>3, <1>6, <2>1, <2>2, <2>4, <4>1 DEF Fits, Holding
    <3>3. \A d \in Cameras : d # c /\ writer[d].step \in Holding =>
            writer[d].path \in Paths /\ writer[d].path # path
      BY <1>6 DEF IInv, WritersOK, WriterOK, Fits
    <3>4. ASSUME NEW d \in Cameras
          PROVE  WriterOK(writer[d])'
      <4>1. CASE d = c
        BY <4>1, <2>3, <2>4, <3>2 DEF WriterOK
      <4>2. CASE d # c
        <5>1. writer'[d] = writer[d] /\ WriterOK(writer[d])
          BY <4>2, <2>3 DEF IInv, WritersOK
        <5> QED
          BY <4>2, <5>1, <3>3, <2>2, <2>4 DEF WriterOK, Fits
      <4> QED
        BY <4>1, <4>2
    <3>5. ASSUME NEW d \in Cameras, NEW e \in Cameras, d # e,
                 writer'[d].step \in Holding, writer'[e].step \in Holding
          PROVE  writer'[d].path # writer'[e].path
      BY <3>5, <3>1, <3>3, <2>3 DEF IInv, WritersOK
    <3> QED
      BY <3>4, <3>5 DEF WritersOK
  <2>10. MarkersOK'
    BY <1>6, <2>2, <2>4 DEF IInv, MarkersOK
  <2>11. Kept'
    BY <2>4, <2>5 DEF IInv, Kept, Untouched
  <2> QED
    BY <2>6, <2>7, <2>8, <2>9, <2>10, <2>11 DEF IInv
<1> QED
  BY <1>4, <1>5, <1>6

LEMMA CameraStep ==
  ASSUME IInv, NEW c \in Cameras, Camera(c)
  PROVE  IInv'
BY RotateStep, EndStep, WriteStep, FlushStep, PublishStep, SealStep, ChooseStep, OpenStep,
   RestartStep DEF Camera

(* The daemon dies: no camera holds anything any more.                     *)
LEMMA CrashStep ==
  ASSUME IInv, Crash
  PROVE  IInv'
<1>1. writer' = [c \in Cameras |-> Asleep] /\ crashes' = crashes + 1 /\ crashes < MaxCrashes
      /\ UNCHANGED <<day, disk, marker, remote, partial, job, finished, created, aborts>>
  BY DEF Crash, disks, archive
<1>2. TypeOK'
  <2>1. crashes' \in 0..MaxCrashes
    BY <1>1, BoundsAssumption DEF IInv, TypeOK
  <2>2. Asleep \in WriterType
    BY BoundsAssumption DEF Asleep, WriterType, WriterSteps
  <2> QED
    BY <1>1, <2>1, <2>2 DEF IInv, TypeOK, WriterType
<1>3. WritersOK'
  BY <1>1 DEF WritersOK, WriterOK, Fits, Asleep, Holding
<1>4. FilesOK' /\ JobOK' /\ MarkersOK' /\ Kept' /\ ArchiveIsFinished'
  BY <1>1 DEF IInv, FilesOK, JobOK, MarkersOK, Kept, ArchiveIsFinished
<1> QED
  BY <1>2, <1>3, <1>4 DEF IInv

(* Midnight comes when no rotation is under way.                           *)
LEMMA MidnightStep ==
  ASSUME IInv, Midnight
  PROVE  IInv'
<1>1. /\ day' = day + 1 /\ day < MaxDay /\ \A c \in Cameras : ~Rotating(c)
      /\ UNCHANGED <<disk, marker, remote, partial, writer, job, finished, created, crashes, aborts>>
  BY DEF Midnight, disks, archive, bounds
<1>2. TypeOK' /\ day \in Nat
  <2>1. day' \in 1..MaxDay /\ day \in Nat
    BY <1>1, BoundsAssumption DEF IInv, TypeOK
  <2> QED
    BY <1>1, <2>1 DEF IInv, TypeOK
<1>3. WritersOK'
  <2>1. ASSUME NEW c \in Cameras
        PROVE  WriterOK(writer[c])'
    BY <1>1 DEF IInv, WritersOK, WriterOK, Fits, Rotating, Holding
  <2> QED
    BY <1>1, <2>1 DEF IInv, WritersOK
<1>4. JobOK'
  <2>1. \A p \in Paths : p[1] \in Nat
    BY DEF Paths
  <2>2. job.list \subseteq Paths
    BY DEF IInv, TypeOK
  <2>3. \A n \in Nat : n < day => n < day'
    BY <1>1, <1>2
  <2> QED
    BY <1>1, <2>1, <2>2, <2>3 DEF IInv, JobOK
<1>5. FilesOK' /\ MarkersOK' /\ Kept' /\ ArchiveIsFinished'
  BY <1>1 DEF IInv, FilesOK, MarkersOK, Kept, ArchiveIsFinished
<1> QED
  BY <1>2, <1>3, <1>4, <1>5 DEF IInv

-----------------------------------------------------------------------------
(* The archive job.                                                        *)

JobType == [step: JobSteps, list: SUBSET Paths, path: Paths \union {NoPath}, seen: Content]

LEMMA JobShape ==
  ASSUME IInv
  PROVE  /\ job \in JobType /\ job.step \in JobSteps /\ job.list \subseteq Paths
         /\ job.seen \in Content
         /\ disk \in [Paths -> Content] /\ marker \in [Paths -> Markers]
         /\ remote \in [Paths -> Content] /\ partial \in [Paths -> Content]
         /\ NoFile \in Content /\ NoJob \in JobType
<1>1. job \in JobType
  BY DEF IInv, TypeOK, JobType
<1>2. NoFile \in Content
  BY BoundsAssumption DEF NoFile, Content
<1>3. NoJob \in JobType
  BY <1>2 DEF NoJob, JobType, JobSteps
<1> QED
  BY <1>1, <1>2, <1>3 DEF IInv, TypeOK, JobType

(* A step of the job that touches neither a disk nor the archive, and      *)
(* leaves it in order.                                                     *)
LEMMA JobOnly ==
  ASSUME IInv, job' \in JobType, JobOK', aborts' \in 0..MaxAborts,
         partial' \in [Paths -> Content],
         UNCHANGED <<day, disks, remote, writer, finished, created, crashes>>
  PROVE  IInv'
<1>1. UNCHANGED <<day, disk, marker, remote, writer, finished, created, crashes>>
  BY DEF disks
<1>2. TypeOK'
  BY <1>1 DEF IInv, TypeOK, JobType
<1>3. WritersOK'
  BY <1>1 DEF IInv, WritersOK, WriterOK
<1>4. FilesOK' /\ MarkersOK' /\ Kept' /\ ArchiveIsFinished'
  BY <1>1 DEF IInv, FilesOK, MarkersOK, Kept, ArchiveIsFinished
<1> QED
  BY <1>2, <1>3, <1>4 DEF IInv

(* A run that ends leaves nothing to be kept in order.                     *)
LEMMA NoJobOK == ASSUME job' = NoJob PROVE JobOK'
BY DEF JobOK, NoJob, Copying

LEMMA Ends ==
  ASSUME IInv, job' = NoJob, aborts' \in 0..MaxAborts, partial' \in [Paths -> Content],
         UNCHANGED <<day, disks, remote, writer, finished, created, crashes>>
  PROVE  IInv'
BY JobShape, NoJobOK, JobOnly

LEMMA SelectFilesStep ==
  ASSUME IInv, SelectFiles
  PROVE  IInv'
<1> DEFINE list == {p \in Paths : Selectable(p)}
           next == [NoJob EXCEPT !.step = "next", !.list = list]
<1>1. job' = next /\ UNCHANGED <<day, disks, archive, writer, finished, created, bounds>>
  BY DEF SelectFiles
<1>2. list \subseteq Paths /\ \A p \in list : p[1] < day
  BY DEF Selectable
<1> HIDE DEF list
<1>3. next \in JobType /\ next.step = "next" /\ next.list = list
  BY <1>2, JobShape DEF JobType, JobSteps
<1> HIDE DEF next
<1>4. JobOK'
  BY <1>1, <1>2, <1>3 DEF JobOK, Copying
<1>5. aborts' \in 0..MaxAborts /\ partial' \in [Paths -> Content]
      /\ UNCHANGED <<day, disks, remote, writer, finished, created, crashes>>
  BY <1>1 DEF archive, bounds, IInv, TypeOK
<1> QED
  BY <1>1, <1>3, <1>4, <1>5, JobOnly

LEMMA NextFileStep ==
  ASSUME IInv, NextFile
  PROVE  IInv'
<1>1. UNCHANGED <<day, disks, archive, writer, finished, created, bounds>> /\ job.step = "next"
  BY DEF NextFile
<1>2. aborts' \in 0..MaxAborts /\ partial' \in [Paths -> Content]
      /\ UNCHANGED <<day, disk, marker, remote>>
      /\ UNCHANGED <<day, disks, remote, writer, finished, created, crashes>>
  BY <1>1 DEF archive, bounds, disks, IInv, TypeOK
<1>3. CASE Fails
  BY <1>2, <1>3, Ends DEF Fails
<1>4. ASSUME NEW path \in job.list, NEW step \in {"copying", "removing"},
             WriterCompleted(path), disk[path] # NoFile,
             step = "removing" => remote[path] = disk[path],
             job' = [[job EXCEPT !.list = @ \ {path}, !.path = path, !.seen = disk[path]]
                       EXCEPT !.step = step]
      PROVE  IInv'
  <2> DEFINE taken == [job EXCEPT !.list = @ \ {path}, !.path = path, !.seen = disk[path]]
             next == [taken EXCEPT !.step = step]
  <2>1. path \in Paths /\ path[1] < day /\ marker[path] = "valid" /\ disk[path] \in Content
    BY <1>4, JobShape DEF IInv, JobOK, WriterCompleted
  <2>2. taken \in JobType /\ taken.list = job.list \ {path} /\ taken.path = path
        /\ taken.seen = disk[path]
    BY <2>1, JobShape DEF JobType
  <2> HIDE DEF taken
  <2>3. next \in JobType /\ next.step = step /\ next.list = job.list \ {path}
        /\ next.path = path /\ next.seen = disk[path]
    BY <1>4, <2>2 DEF JobType, JobSteps
  <2>4. job' = next
    BY <1>4 DEF taken
  <2> HIDE DEF next
  <2>5. JobOK'
    BY <1>2, <1>4, <2>1, <2>3, <2>4 DEF JobOK, Copying, IInv
  <2> QED
    BY <1>2, <2>3, <2>4, <2>5, JobOnly
<1> QED
  BY <1>3, <1>4 DEF NextFile

LEMMA CopyFileStep ==
  ASSUME IInv, CopyFile
  PROVE  IInv'
<1> DEFINE next == [job EXCEPT !.step = "checking"]
<1>1. /\ job.step = "copying" /\ partial' = [partial EXCEPT ![job.path] = disk[job.path]]
      /\ job' = next /\ UNCHANGED <<day, disks, remote, writer, finished, created, bounds>>
  BY DEF CopyFile
<1>2. job.path \in Paths /\ disk[job.path] \in Content
  BY <1>1, JobShape DEF IInv, JobOK, Copying
<1>3. next \in JobType /\ next.step = "checking" /\ next.path = job.path
      /\ next.list = job.list /\ next.seen = job.seen
  BY JobShape DEF JobType, JobSteps
<1> HIDE DEF next
<1>4. aborts' \in 0..MaxAborts /\ partial' \in [Paths -> Content]
      /\ UNCHANGED <<day, disk, marker, remote>>
      /\ UNCHANGED <<day, disks, remote, writer, finished, created, crashes>>
  BY <1>1, <1>2, JobShape DEF bounds, disks, IInv, TypeOK
<1>5. JobOK'
  BY <1>1, <1>3, <1>4 DEF JobOK, Copying, IInv
<1> QED
  BY <1>1, <1>3, <1>4, <1>5, JobOnly

LEMMA CheckCopyStep ==
  ASSUME IInv, CheckCopy
  PROVE  IInv'
<1> DEFINE next == [job EXCEPT !.step = "moving"]
<1>1. job.step = "checking" /\ UNCHANGED <<day, disks, remote, writer, finished, created, bounds>>
  BY DEF CheckCopy
<1>2. job.path \in Paths /\ NoFile \in Content
  BY <1>1, JobShape DEF IInv, JobOK, Copying
<1>3. partial' \in [Paths -> Content]
  BY <1>2, JobShape DEF CheckCopy
<1>4. aborts' \in 0..MaxAborts /\ UNCHANGED <<day, disk, marker, remote>>
      /\ UNCHANGED <<day, disks, remote, writer, finished, created, crashes>>
  BY <1>1 DEF bounds, disks, IInv, TypeOK
<1>5. CASE job' = NoJob
  BY <1>3, <1>4, <1>5, Ends
<1>6. CASE job' = next /\ partial' = partial /\ partial[job.path] = job.seen
  <2>1. next \in JobType /\ next.step = "moving" /\ next.path = job.path
        /\ next.list = job.list /\ next.seen = job.seen
    BY JobShape DEF JobType, JobSteps
  <2> HIDE DEF next
  <2>2. JobOK'
    BY <1>1, <1>4, <1>6, <2>1 DEF JobOK, Copying, IInv
  <2> QED
    BY <1>3, <1>4, <1>6, <2>1, <2>2, JobOnly
<1> QED
  BY <1>5, <1>6 DEF CheckCopy, Fails

LEMMA MoveCopyStep ==
  ASSUME IInv, MoveCopy
  PROVE  IInv'
<1> DEFINE path == job.path
           next == [job EXCEPT !.step = "removing"]
<1>1. /\ job.step = "moving" /\ path \in Paths /\ marker[path] = "valid"
      /\ disk[path] # NoFile /\ job.seen = disk[path] /\ partial[path] = disk[path]
      /\ Whole(disk[path]) /\ disk[path].id \in finished
  BY DEF MoveCopy, IInv, JobOK, MarkersOK, Copying
<1>2. aborts' \in 0..MaxAborts
      /\ UNCHANGED <<day, disk, marker, writer, finished, created, crashes, aborts>>
      /\ UNCHANGED <<day, disks, writer, finished, created, crashes>>
  BY DEF MoveCopy, disks, bounds, IInv, TypeOK
<1>3. CASE remote[path] # NoFile
  <2>1. job' = NoJob /\ partial' = partial /\ remote' = remote
    BY <1>3 DEF MoveCopy, Fails, archive
  <2> QED
    BY <1>2, <2>1, JobShape, Ends
<1>4. CASE remote[path] = NoFile
  <2>1. /\ remote' = [remote EXCEPT ![path] = disk[path]]
        /\ partial' = [partial EXCEPT ![path] = NoFile]
        /\ job' = next
    BY <1>1, <1>4 DEF MoveCopy
  <2>2. next \in JobType /\ next.step = "removing" /\ next.path = path
        /\ next.list = job.list /\ next.seen = job.seen
    BY JobShape DEF JobType, JobSteps
  <2> HIDE DEF next
  <2>3. /\ remote' \in [Paths -> Content] /\ partial' \in [Paths -> Content]
        /\ remote'[path] = disk[path]
        /\ \A p \in Paths : p # path => remote'[p] = remote[p]
    BY <1>1, <2>1, JobShape
  <2>4. TypeOK'
    BY <1>2, <2>1, <2>2, <2>3 DEF IInv, TypeOK, JobType
  <2>5. FilesOK' /\ WritersOK' /\ MarkersOK'
    BY <1>2 DEF IInv, FilesOK, WritersOK, WriterOK, MarkersOK
  <2>6. JobOK'
    BY <1>1, <1>2, <2>1, <2>2, <2>3 DEF IInv, JobOK, Copying
  <2>7. Kept'
    <3>1. \A p \in Paths : Whole(remote[p]) => remote'[p] = remote[p]
      BY <1>4, <2>3 DEF Whole
    <3> QED
      BY <1>2, <3>1 DEF IInv, Kept
  <2>8. ArchiveIsFinished'
    BY <1>1, <1>2, <2>3 DEF IInv, ArchiveIsFinished
  <2> QED
    BY <2>4, <2>5, <2>6, <2>7, <2>8 DEF IInv
<1> QED
  BY <1>3, <1>4

LEMMA RemoveSourceStep ==
  ASSUME IInv, RemoveSource
  PROVE  IInv'
<1> DEFINE path == job.path
           next == [job EXCEPT !.step = "unmarking"]
<1>1. /\ job.step = "removing" /\ path \in Paths /\ marker[path] = "valid"
      /\ disk[path] # NoFile /\ remote[path] = disk[path]
  BY DEF RemoveSource, IInv, JobOK, Copying
<1>2. /\ disk' = [disk EXCEPT ![path] = NoFile] /\ job' = next
      /\ UNCHANGED <<day, marker, remote, partial, writer, finished, created, crashes, aborts>>
  BY DEF RemoveSource, archive, bounds
<1>3. next \in JobType /\ next.step = "unmarking" /\ next.path = path
      /\ next.list = job.list /\ next.seen = job.seen
  BY JobShape DEF JobType, JobSteps
<1> HIDE DEF next
<1>4. /\ disk' \in [Paths -> Content] /\ disk'[path] = NoFile
      /\ \A p \in Paths : p # path => disk'[p] = disk[p]
  BY <1>1, <1>2, JobShape
<1>5. TypeOK'
  BY <1>2, <1>3, <1>4 DEF IInv, TypeOK, JobType
<1>6. FilesOK'
  BY <1>4 DEF IInv, FilesOK
<1>7. WritersOK'
  <2>1. ASSUME NEW c \in Cameras
        PROVE  WriterOK(writer[c])'
    BY <1>1, <1>2, <1>4 DEF IInv, WritersOK, WriterOK, Fits
  <2> QED
    BY <1>2, <2>1 DEF IInv, WritersOK
<1>8. JobOK'
  BY <1>1, <1>2, <1>3, <1>4 DEF IInv, JobOK, Copying
<1>9. MarkersOK' /\ ArchiveIsFinished'
  BY <1>2, <1>4 DEF IInv, MarkersOK, ArchiveIsFinished
<1>10. Kept'
  <2>1. ASSUME NEW id \in finished
        PROVE  \E p \in Paths :
                 \/ disk'[p].id = id /\ Whole(disk'[p]) /\ marker[p] = "valid"
                 \/ remote[p].id = id /\ Whole(remote[p])
    BY <2>1, <1>1, <1>4 DEF IInv, Kept
  <2> QED
    BY <1>2, <2>1 DEF Kept
<1> QED
  BY <1>5, <1>6, <1>7, <1>8, <1>9, <1>10 DEF IInv

LEMMA RemoveMarkerStep ==
  ASSUME IInv, RemoveMarker
  PROVE  IInv'
<1> DEFINE path == job.path
           next == [job EXCEPT !.step = "next", !.path = NoPath, !.seen = NoFile]
<1>1. job.step = "unmarking" /\ path \in Paths /\ marker[path] = "valid" /\ disk[path] = NoFile
  BY DEF RemoveMarker, IInv, JobOK, Copying
<1>2. /\ marker' = [marker EXCEPT ![path] = "none"] /\ job' = next
      /\ UNCHANGED <<day, disk, remote, partial, writer, finished, created, crashes, aborts>>
  BY DEF RemoveMarker, archive, bounds
<1>3. next \in JobType /\ next.step = "next" /\ next.list = job.list
  BY JobShape DEF JobType, JobSteps
<1> HIDE DEF next
<1>4. /\ marker' \in [Paths -> Markers] /\ marker'[path] = "none"
      /\ \A p \in Paths : p # path => marker'[p] = marker[p]
  <2>1. "none" \in Markers
    BY DEF Markers
  <2> QED
    BY <1>1, <1>2, <2>1, JobShape
<1>5. TypeOK'
  BY <1>2, <1>3, <1>4 DEF IInv, TypeOK, JobType
<1>6. WritersOK'
  <2>1. ASSUME NEW c \in Cameras
        PROVE  WriterOK(writer[c])'
    BY <1>1, <1>2, <1>4 DEF IInv, WritersOK, WriterOK, Fits
  <2> QED
    BY <1>2, <2>1 DEF IInv, WritersOK
<1>7. JobOK'
  BY <1>2, <1>3 DEF IInv, JobOK, Copying
<1>8. FilesOK' /\ MarkersOK' /\ ArchiveIsFinished'
  BY <1>2, <1>4 DEF IInv, FilesOK, MarkersOK, ArchiveIsFinished
<1>9. Kept'
  <2>1. ASSUME NEW id \in finished
        PROVE  \E p \in Paths :
                 \/ disk[p].id = id /\ Whole(disk[p]) /\ marker'[p] = "valid"
                 \/ remote[p].id = id /\ Whole(remote[p])
    BY <2>1, <1>1, <1>4 DEF IInv, Kept, Whole
  <2> QED
    BY <1>2, <2>1 DEF Kept
<1> QED
  BY <1>5, <1>6, <1>7, <1>8, <1>9 DEF IInv

LEMMA EndRunStep ==
  ASSUME IInv, EndRun
  PROVE  IInv'
<1>1. job' = NoJob /\ aborts' \in 0..MaxAborts /\ partial' \in [Paths -> Content]
      /\ UNCHANGED <<day, disks, remote, writer, finished, created, crashes>>
  BY DEF EndRun, archive, bounds, IInv, TypeOK
<1> QED
  BY <1>1, Ends

LEMMA AbortStep ==
  ASSUME IInv, Abort
  PROVE  IInv'
<1>1. job' = NoJob /\ UNCHANGED <<day, disks, remote, writer, finished, created, crashes>>
  BY DEF Abort
<1>2. aborts' \in 0..MaxAborts
  BY BoundsAssumption DEF Abort, IInv, TypeOK
<1>3. partial' \in [Paths -> Content]
  <2>1. job.step = "copying" => job.path \in Paths
    BY DEF IInv, JobOK, Copying
  <2>2. [job.seen EXCEPT !.torn = TRUE] \in Content
    BY JobShape DEF Content
  <2> QED
    BY <2>1, <2>2, JobShape DEF Abort
<1> QED
  BY <1>1, <1>2, <1>3, Ends

-----------------------------------------------------------------------------
(* IInv is an inductive invariant of the specification.                    *)
LEMMA IInvStep == IInv /\ [Next]_vars => IInv'
<1> SUFFICES ASSUME IInv, [Next]_vars PROVE IInv'
  OBVIOUS
<1>1. CASE UNCHANGED vars
  <2>1. UNCHANGED <<day, disk, marker, remote, partial, writer, job, finished, created,
                    crashes, aborts>>
    BY <1>1 DEF vars, disks, archive, bounds
  <2>2. TypeOK'
    BY <2>1 DEF IInv, TypeOK
  <2>3. WritersOK'
    BY <2>1 DEF IInv, WritersOK, WriterOK
  <2>4. FilesOK' /\ JobOK' /\ MarkersOK' /\ Kept' /\ ArchiveIsFinished'
    BY <2>1 DEF IInv, FilesOK, JobOK, MarkersOK, Kept, ArchiveIsFinished
  <2> QED
    BY <2>2, <2>3, <2>4 DEF IInv
<1>2. CASE \E c \in Cameras : Camera(c)
  BY <1>2, CameraStep
<1>3. CASE Job
  BY <1>3, SelectFilesStep, NextFileStep, CopyFileStep, CheckCopyStep, MoveCopyStep,
     RemoveSourceStep, RemoveMarkerStep, EndRunStep DEF Job
<1>4. CASE Crash
  BY <1>4, CrashStep
<1>5. CASE Abort
  BY <1>5, AbortStep
<1>6. CASE Midnight
  BY <1>6, MidnightStep
<1> QED
  BY <1>1, <1>2, <1>3, <1>4, <1>5, <1>6 DEF Next

LEMMA IInvHolds == Spec => []IInv
BY InitIInv, IInvStep, PTL DEF Spec

(* Every variable has its type, however often daemon and job die.          *)
THEOREM TypeCorrect == Spec => []TypeOK
<1>1. IInv => TypeOK
  BY DEF IInv
<1> QED
  BY <1>1, IInvHolds, PTL

(* A valid marker tells the truth about the recording beside it            *)
(* (TimelapseWriter::Impl::close publishes it last), in whatever order     *)
(* cameras, job, crashes and midnights come.                               *)
THEOREM MarkersAreTrue == Spec => []MarkerIsTrue
<1>1. IInv => MarkerIsTrue
  <2> SUFFICES ASSUME IInv, NEW p \in Paths, marker[p] = "valid", disk[p] # NoFile
               PROVE  /\ Whole(disk[p])
                      /\ disk[p].id \in finished
                      /\ \A c \in Cameras : writer[c].path = p => writer[c].step = "opening"
    BY DEF MarkerIsTrue
  <2>1. Whole(disk[p]) /\ disk[p].id \in finished
    BY DEF IInv, MarkersOK
  <2>2. ASSUME NEW c \in Cameras, writer[c].path = p
        PROVE  writer[c].step = "opening"
    <3>1. WriterOK(writer[c]) /\ writer[c].step \in WriterSteps
      BY DEF IInv, WritersOK, TypeOK
    <3>2. p # NoPath
      BY BoundsAssumption DEF Paths
    <3> QED
      BY <2>2, <3>1, <3>2 DEF WriterOK, Fits, Holding, WriterSteps
  <2> QED
    BY <2>1, <2>2
<1> QED
  BY <1>1, IInvHolds, PTL

(* No recording announced as complete is lost on its way to the archive.   *)
THEOREM NothingIsLost == Spec => []FinishedIsKept
<1>1. IInv => FinishedIsKept
  BY DEF IInv, Kept, FinishedIsKept
<1> QED
  BY <1>1, IInvHolds, PTL

(* What the archive has under a final name is a finished recording.        *)
THEOREM ArchiveIsTrue == Spec => []ArchiveIsFinished
<1>1. IInv => ArchiveIsFinished
  BY DEF IInv
<1> QED
  BY <1>1, IInvHolds, PTL

(* What a step may do to a recording.                                      *)
Respects ==
  \A p \in Paths :
    disk[p] # NoFile /\ disk'[p] # disk[p] =>
      \/ /\ disk'[p].id = disk[p].id
         /\ disk'[p].frames >= disk[p].frames
         /\ \E c \in Cameras :
              /\ writer[c].path = p
              /\ \A d \in Cameras \ {c} :
                   writer[d].path = p => writer[d].step = "opening"
      \/ disk'[p] = NoFile /\ remote[p] = disk[p]

(* A recording that a camera holds is nobody else's.                       *)
LEMMA OneHolder ==
  ASSUME IInv, NEW c \in Cameras, writer[c].step \in Holding, NEW d \in Cameras \ {c},
         writer[d].path = writer[c].path
  PROVE  writer[d].step = "opening"
<1>1. WriterOK(writer[d]) /\ WriterOK(writer[c]) /\ writer[d].step \in WriterSteps
  BY DEF IInv, WritersOK, TypeOK
<1>2. writer[c].path # NoPath
  BY <1>1, BoundsAssumption DEF WriterOK, Fits, Paths
<1>3. writer[d].step \notin Holding
  BY DEF IInv, WritersOK
<1> QED
  BY <1>1, <1>2, <1>3 DEF WriterOK, Fits, Holding, WriterSteps

LEMMA StepRespects ==
  ASSUME IInv, [Next]_vars
  PROVE  [Respects]_vars
<1>1. CASE disk' = disk
  BY <1>1 DEF Respects
<1>2. ASSUME NEW c \in Cameras, Write(c) \/ Flush(c)
      PROVE  Respects
  <2> DEFINE path == writer[c].path
  <2>1. writer[c].step \in Holding
    BY <1>2 DEF Write, Flush, Holding
  <2>2. path \in Paths /\ disk[path] \in Content /\ disk \in [Paths -> Content]
    BY <2>1, HeldFile, JobShape
  <2>3. /\ disk'[path].id = disk[path].id /\ disk'[path].frames >= disk[path].frames
        /\ \A p \in Paths : p # path => disk'[p] = disk[p]
    <3>1. CASE Write(c)
      BY <3>1, <2>2, BoundsAssumption DEF Write, Content
    <3>2. CASE Flush(c)
      <4>1. PICK torn \in {disk[path].torn, TRUE} :
              disk' = [disk EXCEPT ![path].ended = ~torn, ![path].torn = torn]
        BY <3>2 DEF Flush
      <4>2. disk[path].frames \in Nat
        BY <2>2, BoundsAssumption DEF Content
      <4> QED
        BY <2>2, <4>1, <4>2 DEF Content
    <3> QED
      BY <1>2, <3>1, <3>2
  <2> QED
    BY <2>1, <2>2, <2>3, OneHolder DEF Respects
<1>3. ASSUME NEW c \in Cameras, Open(c)
      PROVE  Respects
  BY <1>3, JobShape DEF Open, Free, Respects
<1>4. CASE RemoveSource
  BY <1>4, JobShape DEF RemoveSource, IInv, JobOK, Copying, Respects
<1>5. CASE \E c \in Cameras : Camera(c)
  <2>1. PICK c \in Cameras : Camera(c)
    BY <1>5
  <2>2. disk' = disk \/ Write(c) \/ Flush(c) \/ Open(c)
    BY <2>1 DEF Camera, Rotate, End, Publish, Seal, Choose, Restart, disks
  <2> QED
    BY <2>2, <1>1, <1>2, <1>3
<1>6. CASE Job
  <2>1. disk' = disk \/ RemoveSource
    BY <1>6 DEF Job, SelectFiles, NextFile, CopyFile, CheckCopy, MoveCopy, RemoveMarker,
       EndRun, disks
  <2> QED
    BY <2>1, <1>1, <1>4
<1>7. CASE Crash \/ Abort \/ Midnight \/ UNCHANGED vars
  BY <1>1, <1>7 DEF Crash, Abort, Midnight, vars, disks
<1> QED
  BY <1>5, <1>6, <1>7 DEF Next

(* No recording is truncated or taken over by another camera (open_output  *)
(* creates exclusively), and none is removed before the archive has it.    *)
THEOREM NothingIsTruncated == Spec => NeverTruncated
<1>1. IInv /\ [Next]_vars => [Respects]_vars
  BY StepRespects
<1>2. Spec => [][Respects]_vars
  BY <1>1, IInvHolds, PTL DEF Spec
<1> QED
  BY <1>2 DEF NeverTruncated, Respects
=============================================================================
