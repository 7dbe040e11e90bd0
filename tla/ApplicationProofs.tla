-------------------------- MODULE ApplicationProofs -------------------------
(***************************************************************************)
(* Theorems about Application, for any cameras, clients and versions of    *)
(* the configuration, and any number of signals and events.                *)
(***************************************************************************)
EXTENDS Application, SequenceTheorems, TLAPS

Hooks == {"event-start", "event-end"}

TypeOK ==
  /\ file \in Versions /\ hups \in Nat
  /\ fresh \in BOOLEAN /\ stopping \in BOOLEAN /\ reloading \in BOOLEAN
  /\ pc \in {"lock", "join", "server", "clients", "hooks", "configure", "start", "loop",
             "load", "returned", "threw"}
  /\ next \in Valid \cup {NoVersion} /\ config \in Valid /\ generation \in Nat
  /\ mutex \in Clients \cup {Main, Nobody}
  /\ workers \subseteq Cameras /\ starting \subseteq Cameras /\ asked \subseteq workers
  /\ thread \in [Cameras -> {"none", "running", "ended"}]
  /\ made \in [Cameras -> Nat]
  /\ event \subseteq Cameras /\ events \in Nat /\ broken \subseteq Cameras
  /\ server \in Nat /\ serving \in BOOLEAN
  /\ request \in [Clients -> {"none", "waiting", "reading", "done"}]
  /\ queue \in [Cameras -> Seq(Hooks)] /\ ran \in [Cameras -> Seq(Hooks)]

Running == {c \in Cameras : thread[c] = "running"}
InServer == {r \in Clients : request[r] \in {"waiting", "reading"}}

(* workers_mutex_ is held by the main thread from asking the workers to    *)
(* joining them, or by the request that reads them.                        *)
MutexInv ==
  /\ mutex = Main <=> pc = "join"
  /\ \A r \in Clients : request[r] = "reading" <=> mutex = r

(* Which workers there are at each step of the main thread.                *)
WorkersInv ==
  /\ Running \subseteq workers \cup starting
  /\ \A c \in Running : made[c] = generation
  /\ starting # {} => pc = "start"
  /\ pc \in {"server", "clients", "hooks", "configure", "returned", "threw"} => workers = {}
  /\ pc = "start" => workers \cup starting \subseteq CamerasOf[config]
  /\ pc \in {"loop", "load"} =>
       \/ workers = CamerasOf[config]
       \/ workers = {} /\ config \in WithServer /\ ~serving

(* Which server there is: one that serves or is asked is the one of the    *)
(* configuration, and so is the one the workers have been given.           *)
ServerInv ==
  /\ serving \/ InServer # {} => server = generation
  /\ pc \in {"clients", "hooks", "configure"} => ~serving
  /\ pc \in {"hooks", "configure"} => InServer = {}
  /\ pc = "configure" => next # NoVersion
  /\ pc = "start" \/ Running # {} => (config \in WithServer => server = generation)

Alternates(q) ==
  \A i \in DOMAIN q : q[i] = (IF i % 2 = 1 THEN "event-start" ELSE "event-end")

(* The hooks of a camera, those that wait included, alternate, and the     *)
(* last one says whether the camera has an event, until the executor drops *)
(* what waits.                                                             *)
HooksInv ==
  \A c \in Cameras \ broken :
    /\ Alternates(ran[c] \o queue[c])
    /\ pc # "returned" => (Len(ran[c] \o queue[c]) % 2 = 1 <=> c \in event)

IInv == TypeOK /\ MutexInv /\ WorkersInv /\ ServerInv /\ HooksInv

LEMMA InitIInv ==
  ASSUME Init
  PROVE  IInv
<1> USE ConfigurationAssumption
<1>1. TypeOK
  <2>1. <<>> \in Seq(Hooks)
    OBVIOUS
  <2> QED
    BY <2>1 DEF Init, TypeOK
<1>2. MutexInv /\ WorkersInv /\ ServerInv
  BY DEF Init, MutexInv, WorkersInv, ServerInv, Running, InServer
<1>3. HooksInv
  <2>1. <<>> \o <<>> = <<>> /\ Len(<<>>) % 2 # 1 /\ DOMAIN <<>> = {}
    OBVIOUS
  <2>2. \A c \in Cameras : ran[c] \o queue[c] = <<>>
    BY <2>1 DEF Init
  <2> QED
    BY <2>1, <2>2 DEF Init, HooksInv, Alternates
<1> QED
  BY <1>1, <1>2, <1>3 DEF IInv

LEMMA TypeNext ==
  ASSUME TypeOK, ServerInv, [Next]_vars
  PROVE  TypeOK'
<1> USE ConfigurationAssumption DEF TypeOK, workerVars, serverVars, hookVars, eventVars, mainVars,
         signalVars
<1>1. CASE UNCHANGED vars
  BY <1>1 DEF vars
<1>2. ASSUME NEW v \in Versions, Hup(v)
      PROVE  TypeOK'
  BY <1>2 DEF Hup
<1>3. CASE Term
  BY <1>3 DEF Term
<1>4. CASE Loop \/ Load \/ Applied
  BY <1>4 DEF Loop, Load, Applied
<1>5. CASE AskWorkers \/ JoinWorkers
  BY <1>5 DEF AskWorkers, JoinWorkers
<1>6. CASE StopServer \/ JoinClients \/ StopHooks
  <2>1. <<>> \in Seq(Hooks)
    OBVIOUS
  <2>2. CASE StopServer \/ JoinClients
    <3>1. CASE StopServer
      BY <3>1 DEF StopServer
    <3>2. CASE JoinClients /\ next = NoVersion
      BY <3>2 DEF JoinClients
    <3>3. CASE JoinClients /\ next # NoVersion
      BY <3>3 DEF JoinClients
    <3> QED
      BY <2>2, <3>1, <3>2, <3>3
  <2>3. CASE StopHooks
    BY <2>1, <2>3 DEF StopHooks
  <2> QED
    BY <1>6, <2>2, <2>3
<1>7. CASE Configure \/ BindFails
  <2>1. CASE Configure
    <3>1. config' \in Valid /\ generation' \in Nat /\ pc' = "start"
      BY <2>1 DEF Configure, ServerInv
    <3>2. server' \in Nat /\ serving' \in BOOLEAN
      <4>1. generation + 1 \in Nat
        OBVIOUS
      <4>2. CASE next \in WithServer
        BY <2>1, <4>1, <4>2 DEF Configure
      <4>3. CASE next \notin WithServer
        BY <2>1, <4>3 DEF Configure
      <4> QED
        BY <4>2, <4>3
    <3> QED
      BY <2>1, <3>1, <3>2 DEF Configure
  <2>2. CASE BindFails
    BY <2>2 DEF BindFails, ServerInv
  <2> QED
    BY <1>7, <2>1, <2>2
<1>8. ASSUME NEW c \in Cameras, Start(c)
      PROVE  TypeOK'
  BY <1>8 DEF Start
<1>9. CASE Add
  BY <1>9 DEF Add
<1>10. ASSUME NEW c \in Cameras, BeginEvent(c) \/ EndEvent(c)
       PROVE  TypeOK'
  <2>1. \A h \in Hooks : Submits(c, h) => queue' \in [Cameras -> Seq(Hooks)]
    BY DEF Submits
  <2>2. queue' \in [Cameras -> Seq(Hooks)]
    BY <1>10, <2>1 DEF BeginEvent, EndEvent, Hooks
  <2> QED
    BY <1>10, <2>2 DEF BeginEvent, EndEvent
<1>11. ASSUME NEW c \in Cameras, Fail(c) \/ Obey(c)
       PROVE  TypeOK'
  <2>1. \A h \in Hooks : Submits(c, h) => queue' \in [Cameras -> Seq(Hooks)]
    BY DEF Submits
  <2>2. queue' \in [Cameras -> Seq(Hooks)]
    BY <1>11, <2>1 DEF Fail, Obey, Hooks
  <2> QED
    BY <1>11, <2>2 DEF Fail, Obey
<1>12. ASSUME NEW c \in Cameras, RunHook(c)
       PROVE  TypeOK'
  <2>1. Head(queue[c]) \in Hooks /\ Tail(queue[c]) \in Seq(Hooks)
    BY <1>12 DEF RunHook
  <2> QED
    BY <1>12, <2>1 DEF RunHook
<1>13. ASSUME NEW r \in Clients, Client(r)
       PROVE  TypeOK'
  BY <1>13 DEF Client, Ask, LockWorkers, Reply
<1> QED
  BY <1>1, <1>2, <1>3, <1>4, <1>5, <1>6, <1>7, <1>8, <1>9, <1>10, <1>11, <1>12, <1>13
     DEF Next, MainThread, Camera, Ended

LEMMA MutexNext ==
  ASSUME TypeOK, MutexInv, WorkersInv, [Next]_vars
  PROVE  MutexInv'
<1> USE ConfigurationAssumption DEF MutexInv
<1>1. CASE UNCHANGED <<pc, mutex, request>>
  BY <1>1
<1>2. CASE Loop \/ Load \/ Applied \/ StopServer \/ JoinClients \/ StopHooks \/ Configure
           \/ BindFails
  BY <1>2 DEF Loop, Load, Applied, Started, StopServer, JoinClients, StopHooks, Configure,
     BindFails
<1>3. CASE AskWorkers \/ JoinWorkers
  BY <1>3 DEF AskWorkers, JoinWorkers
<1>4. ASSUME NEW r \in Clients, Client(r)
      PROVE  MutexInv'
  BY <1>4 DEF Client, Ask, LockWorkers, Reply, TypeOK, mainVars
<1> QED
  BY <1>1, <1>2, <1>3, <1>4
     DEF Next, MainThread, Camera, Ended, vars, Hup, Term, Start, Add, BeginEvent, EndEvent,
         Fail, Obey, RunHook, mainVars, Client

LEMMA WorkersNext ==
  ASSUME TypeOK, MutexInv, WorkersInv, ServerInv, [Next]_vars
  PROVE  WorkersInv'
<1> USE ConfigurationAssumption DEF WorkersInv, Running
<1>1. CASE UNCHANGED <<pc, config, generation, workerVars, serving>>
  BY <1>1 DEF workerVars
<1>2. CASE Loop \/ Load \/ Applied
  <2>1. CASE Loop \/ Load
    BY <2>1 DEF Loop, Load, workerVars, serverVars
  <2>2. CASE Applied
    BY <2>2 DEF Applied, Started, workerVars, serverVars
  <2> QED
    BY <1>2, <2>1, <2>2
<1>3. CASE AskWorkers
  BY <1>3 DEF AskWorkers, serverVars
<1>4. CASE JoinWorkers
  BY <1>4 DEF JoinWorkers, Joinable, serverVars
<1>5. CASE StopServer \/ JoinClients \/ StopHooks
  BY <1>5 DEF StopServer, JoinClients, StopHooks, workerVars, serverVars
<1>6. CASE Configure
  BY <1>6 DEF Configure, workerVars
<1>7. CASE BindFails
  BY <1>7 DEF BindFails, workerVars, ServerInv
<1>8. ASSUME NEW c \in Cameras, Start(c)
      PROVE  WorkersInv'
  BY <1>8 DEF Start, TypeOK, mainVars, serverVars
<1>9. CASE Add
  BY <1>9 DEF Add, mainVars, serverVars
<1>10. ASSUME NEW c \in Cameras, Fail(c) \/ Obey(c)
       PROVE  WorkersInv'
  BY <1>10 DEF Fail, Obey, TypeOK, mainVars, serverVars
<1> QED
  BY <1>1, <1>2, <1>3, <1>4, <1>5, <1>6, <1>7, <1>8, <1>9, <1>10
     DEF Next, MainThread, Camera, Client, Ended, vars, Hup, Term, BeginEvent, EndEvent,
         RunHook, Ask, LockWorkers, Reply, mainVars, serverVars

LEMMA ServerNext ==
  ASSUME TypeOK, MutexInv, WorkersInv, ServerInv, [Next]_vars
  PROVE  ServerInv'
<1> USE ConfigurationAssumption DEF ServerInv, Running, InServer
<1>1. CASE UNCHANGED <<mainVars, serverVars, thread, request>>
  BY <1>1 DEF mainVars, serverVars
<1>2. CASE Loop \/ Load \/ Applied
  BY <1>2 DEF Loop, Load, Applied, Started, workerVars, serverVars, TypeOK
<1>3. CASE AskWorkers \/ JoinWorkers
  BY <1>3 DEF AskWorkers, JoinWorkers, serverVars
<1>4. CASE StopServer
  BY <1>4 DEF StopServer, workerVars
<1>5. CASE JoinClients
  BY <1>5 DEF JoinClients, workerVars, WorkersInv
<1>6. CASE StopHooks
  BY <1>6 DEF StopHooks, workerVars, serverVars
<1>7. CASE Configure
  <2>1. pc' = "start" /\ InServer' = {} /\ generation' = generation + 1 /\ config' = next
    BY <1>7 DEF Configure
  <2>2. CASE next \in WithServer
    BY <1>7, <2>1, <2>2 DEF Configure
  <2>3. CASE next \notin WithServer
    BY <1>7, <2>1, <2>3 DEF Configure, serverVars
  <2> QED
    BY <2>2, <2>3
<1>8. CASE BindFails
  BY <1>8 DEF BindFails, workerVars, TypeOK
<1>9. ASSUME NEW c \in Cameras, Start(c)
      PROVE  ServerInv'
  BY <1>9 DEF Start, TypeOK, mainVars, serverVars
<1>10. ASSUME NEW c \in Cameras, Fail(c) \/ Obey(c)
       PROVE  ServerInv'
  BY <1>10 DEF Fail, Obey, TypeOK, mainVars, serverVars
<1>11. ASSUME NEW r \in Clients, Client(r)
       PROVE  ServerInv'
  BY <1>11 DEF Client, Ask, LockWorkers, Reply, TypeOK, mainVars, serverVars, workerVars
<1> QED
  BY <1>1, <1>2, <1>3, <1>4, <1>5, <1>6, <1>7, <1>8, <1>9, <1>10, <1>11
     DEF Next, MainThread, Camera, Ended, vars, Hup, Term, Add, BeginEvent, EndEvent,
         RunHook, mainVars, serverVars, workerVars

(* What has been run is the beginning of what was submitted.               *)
LEMMA PrefixOfConcat ==
  ASSUME NEW s \in Seq(Hooks), NEW t \in Seq(Hooks), NEW i \in DOMAIN s
  PROVE  i \in DOMAIN (s \o t) /\ (s \o t)[i] = s[i]
<1>1. /\ s \o t \in Seq(Hooks) /\ Len(s \o t) = Len(s) + Len(t)
      /\ \A k \in 1 .. Len(s) + Len(t) :
           (s \o t)[k] = IF k <= Len(s) THEN s[k] ELSE t[k - Len(s)]
  BY ConcatProperties
<1>2. i \in 1..Len(s) /\ Len(s) \in Nat /\ Len(t) \in Nat /\ DOMAIN (s \o t) = 1..Len(s \o t)
  BY <1>1
<1> QED
  BY <1>1, <1>2

(* What is run first of t comes next after s.                              *)
LEMMA HeadMoves ==
  ASSUME NEW s \in Seq(Hooks), NEW t \in Seq(Hooks), t # <<>>
  PROVE  Append(s, Head(t)) \o Tail(t) = s \o t
<1> DEFINE h == Head(t)
           u == Tail(t)
<1>1. h \in Hooks /\ u \in Seq(Hooks) /\ t = <<h>> \o u
  <2>1. h \in Hooks /\ u \in Seq(Hooks) /\ Len(u) = Len(t) - 1
        /\ \A i \in 1..Len(u) : u[i] = t[i + 1]
    BY HeadTailProperties
  <2>2. <<h>> \in Seq(Hooks) /\ Len(<<h>>) = 1 /\ <<h>>[1] = t[1]
    BY <2>1
  <2> HIDE DEF u
  <2>3. /\ <<h>> \o u \in Seq(Hooks) /\ Len(<<h>> \o u) = Len(t)
        /\ \A i \in 1..Len(t) : (<<h>> \o u)[i] = IF i <= 1 THEN <<h>>[i] ELSE u[i - 1]
    BY <2>1, <2>2, ConcatProperties
  <2>4. \A i \in 1..Len(t) : t[i] = (<<h>> \o u)[i]
    BY <2>1, <2>2, <2>3
  <2> QED
    BY <2>1, <2>3, <2>4, SeqEqual
<1> HIDE DEF h, u
<1>2. Append(s, h) = s \o <<h>> /\ <<h>> \in Seq(Hooks)
  BY <1>1, AppendIsConcat
<1>3. (s \o <<h>>) \o u = s \o (<<h>> \o u)
  BY <1>1, <1>2, ConcatAssociative
<1> QED
  BY <1>1, <1>2, <1>3 DEF h, u

(* One more hook that is of the kind now due.                              *)
LEMMA AlternatesAppend ==
  ASSUME NEW q \in Seq(Hooks), Alternates(q),
         NEW h \in Hooks, h = "event-start" <=> Len(q) % 2 = 0
  PROVE  /\ Alternates(Append(q, h))
         /\ Len(Append(q, h)) % 2 = 1 <=> Len(q) % 2 = 0
<1>1. Len(Append(q, h)) = Len(q) + 1 /\ Len(q) \in Nat
  OBVIOUS
<1>2. Len(q) % 2 \in {0, 1} /\ ((Len(q) + 1) % 2 = 1 <=> Len(q) % 2 = 0)
  BY <1>1
<1>3. ASSUME NEW i \in DOMAIN Append(q, h)
      PROVE  Append(q, h)[i] = (IF i % 2 = 1 THEN "event-start" ELSE "event-end")
  <2>1. CASE i \in DOMAIN q
    BY <2>1 DEF Alternates
  <2>2. CASE i = Len(q) + 1
    BY <1>2, <2>2 DEF Hooks
  <2> QED
    BY <1>1, <2>1, <2>2
<1> QED
  BY <1>1, <1>2, <1>3 DEF Alternates

(* A hook is submitted: one more is queued, and the camera's event turns.  *)
LEMMA SubmitStep ==
  ASSUME TypeOK, HooksInv, pc # "returned", NEW c \in Cameras, NEW h \in Hooks,
         h = "event-start" <=> c \notin event, Submits(c, h),
         event' = IF c \in event THEN event \ {c} ELSE event \cup {c},
         UNCHANGED <<pc, broken, ran>>
  PROVE  HooksInv'
<1> SUFFICES ASSUME NEW d \in Cameras \ broken
             PROVE  /\ Alternates(ran[d] \o queue'[d])
                    /\ Len(ran[d] \o queue'[d]) % 2 = 1 <=> d \in event'
  BY DEF HooksInv
<1>1. CASE d # c
  <2>1. queue'[d] = queue[d] /\ (d \in event' <=> d \in event)
    BY <1>1 DEF Submits, TypeOK
  <2> QED
    BY <2>1 DEF HooksInv
<1>2. CASE d = c
  <2> DEFINE q == ran[c] \o queue[c]
  <2>1. /\ ran[c] \o queue'[c] = Append(q, h)
        /\ q \in Seq(Hooks)
    BY DEF Submits, TypeOK
  <2>2. Alternates(q) /\ (Len(q) % 2 = 1 <=> c \in event)
    BY <1>2 DEF HooksInv
  <2> HIDE DEF q
  <2>3. Len(q) % 2 \in {0, 1}
    BY <2>1
  <2>4. h = "event-start" <=> Len(q) % 2 = 0
    BY <2>2, <2>3
  <2>5. Alternates(Append(q, h)) /\ (Len(Append(q, h)) % 2 = 1 <=> Len(q) % 2 = 0)
    BY <2>1, <2>2, <2>4, AlternatesAppend
  <2> QED
    BY <1>2, <2>1, <2>2, <2>3, <2>5
<1> QED
  BY <1>1, <1>2

LEMMA HooksNext ==
  ASSUME TypeOK, WorkersInv, HooksInv, [Next]_vars
  PROVE  HooksInv'
<1>1. CASE UNCHANGED <<pc, event, broken, queue, ran>>
  BY <1>1 DEF HooksInv
<1>2. CASE /\ MainThread /\ ~StopHooks
  <2>1. UNCHANGED <<event, broken, queue, ran>> /\ pc # "returned"
    BY <1>2 DEF MainThread, Loop, Load, AskWorkers, JoinWorkers, StopServer, JoinClients,
       Configure, BindFails, Start, Add, Applied, Started, eventVars, hookVars, WorkersInv
  <2> QED
    BY <2>1 DEF HooksInv
<1>3. CASE StopHooks
  <2> SUFFICES ASSUME NEW c \in Cameras \ broken
               PROVE  Alternates(ran[c] \o <<>>)
    BY <1>3 DEF StopHooks, HooksInv, eventVars
  <2>1. ran[c] \in Seq(Hooks) /\ queue[c] \in Seq(Hooks)
    BY DEF TypeOK
  <2>2. ran[c] \o <<>> = ran[c]
    BY <2>1
  <2>3. \A i \in DOMAIN ran[c] : /\ i \in DOMAIN (ran[c] \o queue[c])
                                 /\ (ran[c] \o queue[c])[i] = ran[c][i]
    BY <2>1, PrefixOfConcat
  <2> QED
    BY <2>2, <2>3 DEF HooksInv, Alternates
<1>4. ASSUME NEW c \in Cameras, BeginEvent(c) \/ EndEvent(c)
      PROVE  HooksInv'
  <2>1. pc # "returned"
    BY <1>4 DEF BeginEvent, EndEvent, WorkersInv, Running
  <2>2. CASE BeginEvent(c)
    BY <2>1, <2>2, SubmitStep DEF BeginEvent, Hooks, mainVars
  <2>3. CASE EndEvent(c)
    BY <2>1, <2>3, SubmitStep DEF EndEvent, Hooks, mainVars
  <2> QED
    BY <1>4, <2>2, <2>3
<1>5. ASSUME NEW c \in Cameras, Fail(c)
      PROVE  HooksInv'
  <2>1. \A d \in Cameras \ broken' : d \in Cameras \ broken /\ (d \in event' <=> d \in event)
    BY <1>5 DEF Fail
  <2> QED
    BY <1>5, <2>1 DEF Fail, HooksInv, mainVars, hookVars
<1>6. ASSUME NEW c \in Cameras, Obey(c)
      PROVE  HooksInv'
  <2>1. pc # "returned"
    BY <1>6 DEF Obey, WorkersInv, Running
  <2>2. CASE c \in event
    BY <1>6, <2>1, <2>2, SubmitStep DEF Obey, Hooks, mainVars
  <2>3. CASE c \notin event
    BY <1>6, <2>3 DEF Obey, HooksInv, mainVars
  <2> QED
    BY <2>2, <2>3
<1>7. ASSUME NEW c \in Cameras, RunHook(c)
      PROVE  HooksInv'
  <2>1. ran[c] \in Seq(Hooks) /\ queue[c] \in Seq(Hooks) /\ queue[c] # <<>>
    BY <1>7 DEF RunHook, TypeOK
  <2>2. Append(ran[c], Head(queue[c])) \o Tail(queue[c]) = ran[c] \o queue[c]
    BY <2>1, HeadMoves
  <2>3. \A d \in Cameras : ran'[d] \o queue'[d] = ran[d] \o queue[d]
    BY <1>7, <2>2 DEF RunHook, TypeOK
  <2> QED
    BY <1>7, <2>3 DEF RunHook, HooksInv, mainVars, eventVars
<1> QED
  BY <1>1, <1>2, <1>3, <1>4, <1>5, <1>6, <1>7
     DEF Next, Camera, Client, Ended, vars, Hup, Term, Ask, LockWorkers, Reply, MainThread,
         mainVars, eventVars, hookVars

(* IInv is an invariant of the program.                                    *)
THEOREM Invariance == Spec => []IInv
<1>1. Init => IInv
  BY InitIInv
<1>2. IInv /\ [Next]_vars => IInv'
  BY TypeNext, MutexNext, WorkersNext, ServerNext, HooksNext DEF IInv
<1> QED
  BY <1>1, <1>2, PTL DEF Spec

(* A camera's source thread belongs to the current configuration and to    *)
(* the server there is; a request for the status is answered by that       *)
(* server, and reads the workers while nobody else does.                   *)
THEOREM NothingIsStale == Spec => []OneGeneration
<1>1. IInv => OneGeneration
  BY DEF IInv, MutexInv, WorkersInv, ServerInv, Running, InServer, OneGeneration
<1> QED
  BY <1>1, Invariance, PTL

(* The hooks of a camera are run in turn, start and end, whatever reloads, *)
(* failures and shutdowns come between.                                    *)
THEOREM StartsAndEndsAlternate == Spec => []HooksAlternate
<1>1. ASSUME IInv
      PROVE  HooksAlternate
  <2> SUFFICES ASSUME NEW c \in Cameras \ broken, NEW i \in DOMAIN ran[c]
               PROVE  ran[c][i] = (IF i % 2 = 1 THEN "event-start" ELSE "event-end")
    BY DEF HooksAlternate
  <2>1. ran[c] \in Seq(Hooks) /\ queue[c] \in Seq(Hooks)
    BY <1>1 DEF IInv, TypeOK
  <2>2. i \in DOMAIN (ran[c] \o queue[c]) /\ (ran[c] \o queue[c])[i] = ran[c][i]
    BY <2>1, PrefixOfConcat
  <2> QED
    BY <1>1, <2>2 DEF IInv, HooksInv, Alternates
<1> QED
  BY <1>1, Invariance, PTL

(* The main thread is back in its loop only with all workers of its        *)
(* configuration, or with none because the port could not be bound.        *)
THEOREM ReloadsAreWhole == Spec => []ReloadIsWhole
<1>1. IInv => ReloadIsWhole
  BY DEF IInv, WorkersInv, ReloadIsWhole
<1> QED
  BY <1>1, Invariance, PTL
=============================================================================
