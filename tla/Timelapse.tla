----------------------------- MODULE Timelapse ------------------------------
(***************************************************************************)
(* The life of a time-lapse recording: the cameras that write it           *)
(* (TimelapseWriter of src/src/media.cpp, rotated by src/src/runtime.cpp), *)
(* the completion marker, and the archive job that moves it to another     *)
(* host (src/packaging/vibe-motion-timelapse-archive).  The daemon and the *)
(* job share nothing but the disk, and either can die at any step.         *)
(*                                                                         *)
(* All the cameras use one file name template, the collision the writer    *)
(* defends itself against.  The name of a recording is its day and its     *)
(* part, <<d, 0>> for the name without -partN.                             *)
(***************************************************************************)
EXTENDS Integers, Sequences, FiniteSets

CONSTANTS
  Cameras,        (* the cameras                                           *)
  MaxDay,         (* bound on the calendar                                 *)
  MaxRecordings,  (* bound on the number of files created                  *)
  MaxFrames,      (* bound on the frames of a recording                    *)
  MaxCrashes,     (* bound on the crashes of the daemon                    *)
  MaxAborts,      (* bound on the runs of the job that fail or are killed  *)
  NoPath          (* no recording                                          *)

ASSUME BoundsAssumption ==
  /\ {MaxDay, MaxRecordings, MaxFrames, MaxCrashes, MaxAborts} \subseteq Nat
  /\ MaxDay # 0
  /\ NoPath \notin Nat \X Nat

VARIABLES
  day,            (* today, in the local calendar                          *)
  disk,           (* disk[p]: the recording of that name, or NoFile        *)
  marker,         (* marker[p]: its .complete file                         *)
  remote,         (* remote[p]: the file of that name at the archive       *)
  partial,        (* partial[p]: its .partial copy at the archive          *)
  writer,         (* writer[c]: the TimelapseWriter of a camera            *)
  job,            (* the run of the archive job                            *)
  finished,       (* history: the recordings announced as complete         *)
  created,        (* history: how many recordings were created             *)
  crashes, aborts (* how often the daemon and the job have failed          *)

disks == <<disk, marker>>
archive == <<remote, partial>>
bounds == <<crashes, aborts>>
vars == <<day, disks, archive, writer, job, finished, created, bounds>>

Paths == (1..MaxDay) \X (0..MaxRecordings)

(* The content of a file: whose recording it is, how many frames it has,   *)
(* whether its trailer is written, and whether it misses something.        *)
NoFile == [id |-> 0, frames |-> 0, ended |-> FALSE, torn |-> FALSE]
Content == [id: 0..MaxRecordings, frames: 0..MaxFrames, ended: BOOLEAN, torn: BOOLEAN]
Whole(file) == file # NoFile /\ file.ended /\ ~file.torn

(* A marker is created empty and then written.                             *)
Markers == {"none", "empty", "valid"}

(* A writer is idle (no file open), it writes, or it is between two steps  *)
(* of a rotation or of its end.  next says what follows its closing.       *)
WriterSteps == {"idle", "writing", "flushing", "publishing", "sealing",
                "choosing", "opening", "off"}
Asleep == [step |-> "idle", path |-> NoPath, period |-> 0, next |-> "idle"]

JobSteps == {"idle", "next", "copying", "checking", "moving", "removing", "unmarking"}
NoJob == [step |-> "idle", list |-> {}, path |-> NoPath, seen |-> NoFile]

TypeOK ==
  /\ day \in 1..MaxDay
  /\ disk \in [Paths -> Content]
  /\ marker \in [Paths -> Markers]
  /\ remote \in [Paths -> Content]
  /\ partial \in [Paths -> Content]
  /\ writer \in [Cameras -> [step: WriterSteps, path: Paths \union {NoPath},
                             period: 0..MaxDay, next: {"idle", "choosing", "off"}]]
  /\ job \in [step: JobSteps, list: SUBSET Paths, path: Paths \union {NoPath}, seen: Content]
  /\ finished \subseteq 1..MaxRecordings
  /\ created \in 0..MaxRecordings
  /\ crashes \in 0..MaxCrashes
  /\ aborts \in 0..MaxAborts

Init ==
  /\ day = 1
  /\ disk = [p \in Paths |-> NoFile]
  /\ marker = [p \in Paths |-> "none"]
  /\ remote = [p \in Paths |-> NoFile]
  /\ partial = [p \in Paths |-> NoFile]
  /\ writer = [c \in Cameras |-> Asleep]
  /\ job = NoJob
  /\ finished = {}
  /\ created = 0
  /\ crashes = 0
  /\ aborts = 0

-----------------------------------------------------------------------------
(* The cameras.                                                            *)

Free(path) == disk[path] = NoFile /\ marker[path] = "none"

(* A frame of a new period: the recording before it is closed.             *)
Rotate(c) ==
  LET w == writer[c]
  IN /\ w.step \in {"idle", "writing"}
     /\ w.period # day
     /\ writer' = [writer EXCEPT ![c] =
          [@ EXCEPT !.step = IF w.step = "writing" THEN "flushing" ELSE "choosing",
                    !.period = day, !.next = "choosing"]]
     /\ UNCHANGED <<day, disks, archive, job, finished, created, bounds>>

(* The camera's thread ends: its recording is closed.                      *)
End(c) ==
  LET w == writer[c]
  IN /\ w.step \in {"idle", "writing"}
     /\ writer' = [writer EXCEPT ![c] =
          [@ EXCEPT !.step = IF w.step = "writing" THEN "flushing" ELSE "off",
                    !.next = "off"]]
     /\ UNCHANGED <<day, disks, archive, job, finished, created, bounds>>

(* TimelapseWriter::write: a frame more, or a failure the output remembers *)
(* (AVIOContext::error) and the recording misses something.  A frame that  *)
(* cannot be converted or encoded is passed over and changes nothing.      *)
Write(c) ==
  LET w == writer[c]
  IN /\ w.step = "writing"
     /\ \/ /\ disk[w.path].frames < MaxFrames
           /\ disk' = [disk EXCEPT ![w.path].frames = @ + 1]
        \/ /\ ~disk[w.path].torn
           /\ disk' = [disk EXCEPT ![w.path].torn = TRUE]
     /\ UNCHANGED <<day, marker, archive, writer, job, finished, created, bounds>>

(* Impl::close up to close(output_fd): delayed packets, trailer, flush.    *)
(* Only when every step succeeded is there something to announce.          *)
FlushIgnoringErrors(c) ==
  LET w == writer[c]
  IN /\ w.step = "flushing"
     /\ disk' = [disk EXCEPT ![w.path].ended = TRUE]
     /\ writer' = [writer EXCEPT ![c].step = "publishing"]
     /\ UNCHANGED <<day, marker, archive, job, finished, created, bounds>>
Flush(c) ==
  LET w == writer[c]
  IN /\ w.step = "flushing"
     /\ \E torn \in {disk[w.path].torn, TRUE} :
          /\ disk' = [disk EXCEPT ![w.path].ended = ~torn, ![w.path].torn = torn]
          /\ writer' = [writer EXCEPT ![c] =
               [@ EXCEPT !.step = IF torn THEN w.next ELSE "publishing",
                         !.path = IF torn THEN NoPath ELSE w.path]]
     /\ UNCHANGED <<day, marker, archive, job, finished, created, bounds>>

(* The marker is created, unless it exists or the disk refuses it.         *)
Publish(c) ==
  LET w == writer[c]
  IN /\ w.step = "publishing"
     /\ \/ /\ marker[w.path] = "none"
           /\ marker' = [marker EXCEPT ![w.path] = "empty"]
           /\ writer' = [writer EXCEPT ![c].step = "sealing"]
        \/ /\ writer' = [writer EXCEPT ![c] = [@ EXCEPT !.step = w.next, !.path = NoPath]]
           /\ UNCHANGED marker
     /\ UNCHANGED <<day, disk, archive, job, finished, created, bounds>>

(* The marker is written; one that could not be is unlinked.               *)
Seal(c) ==
  LET w == writer[c]
  IN /\ w.step = "sealing"
     /\ writer' = [writer EXCEPT ![c] = [@ EXCEPT !.step = w.next, !.path = NoPath]]
     /\ \/ /\ marker' = [marker EXCEPT ![w.path] = "valid"]
           /\ finished' = finished \union {disk[w.path].id}
        \/ /\ marker' = [marker EXCEPT ![w.path] = "none"]
           /\ UNCHANGED finished
     /\ UNCHANGED <<day, disk, archive, job, created, bounds>>

(* unused_recording_path: the first part that neither a file nor a marker  *)
(* occupies.                                                               *)
Choose(c) ==
  LET w == writer[c]
  IN /\ w.step = "choosing"
     /\ \E part \in 0..MaxRecordings :
          /\ Free(<<w.period, part>>)
          /\ \A k \in 0..(part - 1) : ~Free(<<w.period, k>>)
          /\ writer' = [writer EXCEPT ![c] =
               [@ EXCEPT !.step = "opening", !.path = <<w.period, part>>, !.next = "idle"]]
     /\ UNCHANGED <<day, disks, archive, job, finished, created, bounds>>

(* Impl::open_output and the header.  Another camera may have taken the    *)
(* name; a failed opening is not tried again before the next period.       *)
OpenTruncating(c) ==
  LET w == writer[c]
      file == [id |-> created + 1, frames |-> 0, ended |-> FALSE, torn |-> FALSE]
  IN /\ w.step = "opening"
     /\ created < MaxRecordings
     /\ disk' = [disk EXCEPT ![w.path] = file]
     /\ created' = created + 1
     /\ writer' = [writer EXCEPT ![c].step = "writing"]
     /\ UNCHANGED <<day, marker, archive, job, finished, bounds>>
Open(c) ==
  LET w == writer[c]
      fails == [writer EXCEPT ![c] = [@ EXCEPT !.step = "idle", !.path = NoPath]]
      file == [id |-> created + 1, frames |-> 0, ended |-> FALSE, torn |-> FALSE]
  IN /\ w.step = "opening"
     /\ \/ /\ writer' = fails
           /\ UNCHANGED <<disk, created>>
        \/ /\ Free(w.path)
           /\ created < MaxRecordings
           /\ disk' = [disk EXCEPT ![w.path] = file]
           /\ created' = created + 1
           /\ writer' \in {[writer EXCEPT ![c].step = "writing"], fails}
     /\ UNCHANGED <<day, marker, archive, job, finished, bounds>>

(* The camera's thread is started again.                                   *)
Restart(c) ==
  /\ writer[c].step = "off"
  /\ writer' = [writer EXCEPT ![c] = Asleep]
  /\ UNCHANGED <<day, disks, archive, job, finished, created, bounds>>

Camera(c) ==
  \/ Rotate(c) \/ End(c) \/ Write(c) \/ Flush(c) \/ Publish(c) \/ Seal(c)
  \/ Choose(c) \/ Open(c) \/ Restart(c)

(* The daemon dies and leaves the disk as it is.                           *)
Crash ==
  /\ crashes < MaxCrashes
  /\ crashes' = crashes + 1
  /\ writer' = [c \in Cameras |-> Asleep]
  /\ UNCHANGED <<day, disks, archive, job, finished, created, aborts>>

-----------------------------------------------------------------------------
(* The archive job.  flock allows one run at a time.                       *)

(* The paths of past days whose writer has completed.                      *)
FileThere(path) == disk[path] # NoFile
WriterCompleted(path) == marker[path] = "valid"
Selectable(path) == disk[path] # NoFile /\ path[1] < day /\ WriterCompleted(path)

SelectFiles ==
  /\ job.step = "idle"
  /\ \E p \in Paths : Selectable(p)
  /\ job' = [NoJob EXCEPT !.step = "next", !.list = {p \in Paths : Selectable(p)}]
  /\ UNCHANGED <<day, disks, archive, writer, finished, created, bounds>>

(* The list is sorted by name: older days first.  How the parts of a day   *)
(* are ordered depends on the locale.                                      *)
IsNext(path) == \A p \in job.list : path[1] <= p[1]

(* set -e, or fail: the run ends, and the files behind this one wait.      *)
Fails == job' = NoJob

(* The next file: its hash is taken, and a copy of the same name at the    *)
(* archive must be the same file, left there by a run that was killed.     *)
NextFileOnce ==
  /\ job.step = "next"
  /\ job.list # {}
  /\ \E path \in job.list :
       /\ IsNext(path)
       /\ IF remote[path] = NoFile
          THEN job' = [job EXCEPT !.list = @ \ {path}, !.path = path, !.seen = disk[path],
                                  !.step = "copying"]
          ELSE Fails
  /\ UNCHANGED <<day, disks, archive, writer, finished, created, bounds>>
NextFile ==
  /\ job.step = "next"
  /\ job.list # {}
  /\ \E path \in job.list :
       /\ IsNext(path)
       /\ LET taken == [job EXCEPT !.list = @ \ {path}, !.path = path, !.seen = disk[path]]
          IN \/ /\ WriterCompleted(path) /\ disk[path] # NoFile
                /\ remote[path] = NoFile
                /\ job' = [taken EXCEPT !.step = "copying"]
             \/ /\ WriterCompleted(path) /\ disk[path] # NoFile
                /\ remote[path] = disk[path]
                /\ job' = [taken EXCEPT !.step = "removing"]
             \/ /\ \/ ~WriterCompleted(path) \/ disk[path] = NoFile
                   \/ remote[path] \notin {NoFile, disk[path]}
                /\ Fails
  /\ UNCHANGED <<day, disks, archive, writer, finished, created, bounds>>

(* scp to the .partial name.                                               *)
CopyFile ==
  /\ job.step = "copying"
  /\ partial' = [partial EXCEPT ![job.path] = disk[job.path]]
  /\ job' = [job EXCEPT !.step = "checking"]
  /\ UNCHANGED <<day, disks, remote, writer, finished, created, bounds>>

(* The copy and the source must both still be what was hashed.             *)
CheckCopy ==
  /\ job.step = "checking"
  /\ IF partial[job.path] = job.seen /\ disk[job.path] = job.seen
     THEN job' = [job EXCEPT !.step = "moving"] /\ UNCHANGED partial
     ELSE /\ Fails
          /\ \/ UNCHANGED partial
             \/ partial' = [partial EXCEPT ![job.path] = NoFile]
  /\ UNCHANGED <<day, disks, remote, writer, finished, created, bounds>>

(* mv, unless the name is taken, and the last comparison.                  *)
MoveCopy ==
  /\ job.step = "moving"
  /\ IF remote[job.path] = NoFile
     THEN /\ remote' = [remote EXCEPT ![job.path] = partial[job.path]]
          /\ partial' = [partial EXCEPT ![job.path] = NoFile]
          /\ IF partial[job.path] = job.seen
             THEN job' = [job EXCEPT !.step = "removing"] ELSE Fails
     ELSE Fails /\ UNCHANGED archive
  /\ UNCHANGED <<day, disks, writer, finished, created, bounds>>

(* rm of the recording, then rm of its marker.                             *)
RemoveSource ==
  /\ job.step = "removing"
  /\ disk' = [disk EXCEPT ![job.path] = NoFile]
  /\ job' = [job EXCEPT !.step = "unmarking"]
  /\ UNCHANGED <<day, marker, archive, writer, finished, created, bounds>>
RemoveMarker ==
  /\ job.step = "unmarking"
  /\ marker' = [marker EXCEPT ![job.path] = "none"]
  /\ job' = [job EXCEPT !.step = "next", !.path = NoPath, !.seen = NoFile]
  /\ UNCHANGED <<day, disk, archive, writer, finished, created, bounds>>

EndRun ==
  /\ job.step = "next"
  /\ job.list = {}
  /\ job' = NoJob
  /\ UNCHANGED <<day, disks, archive, writer, finished, created, bounds>>

(* The network fails, or the job is killed; a copy may be cut short.       *)
Abort ==
  /\ job.step # "idle"
  /\ aborts < MaxAborts
  /\ aborts' = aborts + 1
  /\ job' = NoJob
  /\ \/ UNCHANGED partial
     \/ /\ job.step = "copying"
        /\ partial' = [partial EXCEPT ![job.path] = [job.seen EXCEPT !.torn = TRUE]]
  /\ UNCHANGED <<day, disks, remote, writer, finished, created, crashes>>

Job ==
  \/ SelectFiles \/ NextFile \/ CopyFile \/ CheckCopy \/ MoveCopy
  \/ RemoveSource \/ RemoveMarker \/ EndRun

-----------------------------------------------------------------------------
(* A rotation, which follows the first frame of a period, is over before   *)
(* the next midnight.                                                      *)
Rotating(c) ==
  \/ writer[c].step \in {"choosing", "opening"}
  \/ /\ writer[c].step \in {"flushing", "publishing", "sealing"}
     /\ writer[c].next = "choosing"

Midnight ==
  /\ day < MaxDay
  /\ \A c \in Cameras : ~Rotating(c)
  /\ day' = day + 1
  /\ UNCHANGED <<disks, archive, writer, job, finished, created, bounds>>

Next == (\E c \in Cameras : Camera(c)) \/ Crash \/ Job \/ Abort \/ Midnight

Spec == Init /\ [][Next]_vars

(* The timer starts the job again and again, and a run that is not killed  *)
(* goes on.                                                                *)
FairSpec == Spec /\ WF_vars(Job)

-----------------------------------------------------------------------------
(* Properties                                                              *)

(* A valid marker is the truth: the recording beside it is whole, closed   *)
(* and announced, and no camera has it open, whatever died in between.     *)
(* ("Publish only after all delayed packets, trailer and file I/O          *)
(* succeeded", TimelapseWriter::Impl::close.)                              *)
MarkerIsTrue ==
  \A p \in Paths :
    marker[p] = "valid" /\ disk[p] # NoFile =>
      /\ Whole(disk[p])
      /\ disk[p].id \in finished
      /\ \A c \in Cameras : writer[c].path = p => writer[c].step = "opening"

(* A recording announced as complete is never lost: until the archive has  *)
(* it whole, the disk has.                                                 *)
FinishedIsKept ==
  \A id \in finished :
    \E p \in Paths :
      \/ disk[p].id = id /\ Whole(disk[p])
      \/ remote[p].id = id /\ Whole(remote[p])

(* The archive's final names hold finished recordings only: never one that *)
(* a crash cut off, that a camera still writes or that was copied badly.   *)
ArchiveIsFinished ==
  \A p \in Paths : remote[p] # NoFile => Whole(remote[p]) /\ remote[p].id \in finished

(* An existing recording is never truncated or taken over: a file only     *)
(* grows in the hands of the camera that created it, and disappears only   *)
(* once the archive has it.                                                *)
NeverTruncated ==
  [][\A p \in Paths :
       disk[p] # NoFile /\ disk'[p] # disk[p] =>
         \/ /\ disk'[p].id = disk[p].id
            /\ disk'[p].frames >= disk[p].frames
            /\ \E c \in Cameras :
                 /\ writer[c].path = p
                 /\ \A d \in Cameras \ {c} :
                      writer[d].path = p => writer[d].step = "opening"
         \/ disk'[p] = NoFile /\ remote[p] = disk[p]]_vars

(* A finished recording of a past day reaches the archive in the end,      *)
(* whatever died on the way, and is then removed from the disk.            *)
FinishedIsArchived ==
  \A id \in 1..MaxRecordings :
    (\E p \in Paths : p[1] < day /\ disk[p].id = id /\ id \in finished)
      ~> (\E p \in Paths : remote[p].id = id /\ disk[p] = NoFile)
=============================================================================
