-------------------------- MODULE HttpServerProofs --------------------------
(***************************************************************************)
(* Proofs about HttpServer, for any finite set of connections, loads and   *)
(* limits: the counters are true, no news is slept through, stop() leaves  *)
(* nothing behind when it returns, and what a stream has written can be    *)
(* decoded.                                                                *)
(***************************************************************************)
EXTENDS HttpServer, FiniteSetTheorems, TLAPS

Routes == {Mjpeg, Still} \cup Queues
Active == Streaming \cup {"still"}

(* Only the connections of the table have threads, and they have sockets;  *)
(* one more socket is open between accept4 and the table.                  *)
TableOK ==
  /\ \A c \in Clients \ table :
       /\ thread[c] \in {"none", "ended"}
       /\ socket[c] \in {"none", "closed"} \/ (acceptor = "accepted" /\ c = incoming)
  /\ \A c \in table : socket[c] \in {"open", "shut"}
  /\ acceptor = "accepted" => incoming \in Clients \ table /\ socket[incoming] = "open"
  /\ stopper \in {"clients", "returned"} => acceptor = "exited"
  /\ stopper = "returned" => table = {}

(* A thread about to sleep holds the mutex and has nothing to write, so    *)
(* that nothing is published before it sleeps.                             *)
SleepOK ==
  /\ delivered = [c \in Clients |-> delivered[c]]
  /\ \A c \in Clients : thread[c] = "dozing" => mutex = c /\ ~HasNews(c)
  /\ NoNewsMissed

(* A thread waits for a single JPEG only when asked for one.               *)
StillOK == \A c \in Clients : thread[c] = "still" => route[c] = Still

IInv == TypeOK /\ TableOK /\ SleepOK /\ StillOK /\ CountsMatch

LEMMA CountedFinite ==
  ASSUME NEW r
  PROVE  IsFiniteSet(Counted(r)) /\ Cardinality(Counted(r)) \in Nat
<1>1. Counted(r) \in SUBSET Clients
  BY DEF Counted
<1> QED
  BY <1>1, ServerAssumption, FS_Subset, FS_CardinalityType

LEMMA InitIInv == Init => IInv
<1> SUFFICES ASSUME Init PROVE IInv
  OBVIOUS
<1>1. load \in LoadType /\ load.versions \in Nat
  BY ServerAssumption DEF Init, LoadType
<1>2. TypeOK
  BY <1>1 DEF Init, TypeOK, Streaming
<1>3. TableOK
  BY DEF Init, TableOK
<1>4. SleepOK
  BY DEF Init, SleepOK, NoNewsMissed
<1>5. CountsMatch
  <2>1. \A r : Counted(r) = {}
    BY DEF Init, Counted, Streaming
  <2>2. Cardinality({}) = 0
    BY FS_EmptySet
  <2>3. table = {} /\ MaxClients \in Nat /\ \A r \in DOMAIN counts : counts[r] = 0
    BY ServerAssumption DEF Init
  <2> QED
    BY <2>1, <2>2, <2>3 DEF CountsMatch
<1>6. StillOK
  BY DEF Init, StillOK
<1> QED
  BY <1>2, <1>3, <1>4, <1>5, <1>6 DEF IInv

-----------------------------------------------------------------------------
(* The counters.                                                           *)

ThreadSteps == Streaming \cup {"none", "request", "reading", "select", "header", "count",
                               "still", "ended"}

(* Nobody enters or leaves what is counted.                                *)
LEMMA NobodyMoves ==
  ASSUME IInv, counts' = counts,
         \A c \in Clients : thread'[c] \in Active <=> thread[c] \in Active,
         \A c \in Clients : thread[c] \in Active => route'[c] = route[c]
  PROVE  \A r \in DOMAIN counts' : counts'[r] = Cardinality(Counted(r)')
<1>1. \A r : Counted(r)' = Counted(r)
  BY DEF Counted, Active
<1> QED
  BY <1>1 DEF IInv, CountsMatch

(* One thread enters or leaves, and is counted.                            *)
LEMMA OneMoves ==
  ASSUME IInv, NEW c \in Clients, route' = route,
         \A d \in Clients \ {c} : thread'[d] = thread[d],
         \/ /\ counts' = [counts EXCEPT ![route[c]] = @ + 1]
            /\ thread[c] \notin Active /\ thread'[c] \in Active
         \/ /\ counts' = [counts EXCEPT ![route[c]] = @ - 1]
            /\ thread[c] \in Active /\ thread'[c] \notin Active
  PROVE  /\ \A r \in DOMAIN counts' : counts'[r] = Cardinality(Counted(r)')
         /\ counts' \in [Routes -> Int]
<1>1. counts \in [Routes -> Int] /\ route[c] \in Routes
      /\ \A r \in Routes : counts[r] = Cardinality(Counted(r))
  BY DEF IInv, TypeOK, CountsMatch, Routes
<1>2. counts' \in [Routes -> Int]
  BY <1>1
<1>3. \A r : r # route[c] => Counted(r)' = Counted(r)
  BY DEF Counted
<1>4. \A r \in Routes : r # route[c] => counts'[r] = counts[r]
  BY <1>1
<1>5. counts'[route[c]] = Cardinality(Counted(route[c])')
  <2> DEFINE before == Counted(route[c])
             after == Counted(route[c])'
  <2>1. IsFiniteSet(before) /\ Cardinality(before) \in Nat
    BY CountedFinite
  <2>2. CASE thread[c] \notin Active /\ thread'[c] \in Active
    <3>1. c \notin before /\ after = before \cup {c}
      BY <2>2 DEF Counted, Active
    <3>2. counts'[route[c]] = counts[route[c]] + 1
      BY <1>1, <2>2
    <3> HIDE DEF before, after
    <3>3. Cardinality(after) = Cardinality(before) + 1
      BY <2>1, <3>1, FS_AddElement
    <3> QED
      BY <1>1, <3>2, <3>3 DEF before, after
  <2>3. CASE thread[c] \in Active /\ thread'[c] \notin Active
    <3>1. c \in before /\ after = before \ {c}
      BY <2>3 DEF Counted, Active
    <3>2. counts'[route[c]] = counts[route[c]] - 1
      BY <1>1, <2>3
    <3> HIDE DEF before, after
    <3>3. Cardinality(after) = Cardinality(before) - 1
      BY <2>1, <3>1, FS_RemoveElement
    <3> QED
      BY <1>1, <3>2, <3>3 DEF before, after
  <2> QED
    BY <2>2, <2>3
<1> QED
  BY <1>1, <1>2, <1>3, <1>4, <1>5

-----------------------------------------------------------------------------
(* A step of a thread that has a connection.                               *)
LEMMA ClientShape ==
  ASSUME IInv, NEW c \in Clients, thread[c] \notin {"none", "ended"},
         NEW t \in ThreadSteps \ {"none"}, thread' = [thread EXCEPT ![c] = t],
         socket' = socket \/ socket' = [socket EXCEPT ![c] = "shut"],
         UNCHANGED otherVars,
         \/ route' = route
         \/ \E r \in Routes : route' = [route EXCEPT ![c] = r] /\ thread[c] \notin Active,
         \/ delivered' = delivered \/ \E n : delivered' = [delivered EXCEPT ![c] = n],
         mutex' \in Clients \cup {NoClient},
         mutex' = mutex \/ mutex = NoClient \/ mutex = c,
         t = "dozing" => mutex' = c /\ ~HasNews(c)',
         t = "asleep" => ~HasNews(c)', t = "still" => route'[c] = Still,
         \/ counts' = counts /\ (t \in Active <=> thread[c] \in Active)
         \/ /\ counts' = [counts EXCEPT ![route[c]] = @ + 1] /\ route' = route
            /\ thread[c] \notin Active /\ t \in Active
         \/ /\ counts' = [counts EXCEPT ![route[c]] = @ - 1] /\ route' = route
            /\ thread[c] \in Active /\ t \notin Active
  PROVE  IInv'
<1>1. /\ thread \in [Clients -> ThreadSteps] /\ route \in [Clients -> Routes]
      /\ counts \in [Routes -> Int]
      /\ socket \in [Clients -> {"none", "open", "shut", "closed"}]
      /\ delivered = [d \in Clients |-> delivered[d]]
  BY DEF IInv, TypeOK, SleepOK, ThreadSteps, Routes
<1>2. /\ thread' \in [Clients -> ThreadSteps] /\ thread'[c] = t
      /\ \A d \in Clients \ {c} : thread'[d] = thread[d]
  BY <1>1
<1>3. /\ route' \in [Clients -> Routes]
      /\ \A d \in Clients \ {c} : route'[d] = route[d]
      /\ thread[c] \in Active => route'[c] = route[c]
  BY <1>1
<1>4. /\ socket' \in [Clients -> {"none", "open", "shut", "closed"}]
      /\ \A d \in Clients \ {c} : socket'[d] = socket[d]
      /\ socket'[c] \in {socket[c], "shut"}
  BY <1>1
<1>5. /\ delivered' = [d \in Clients |-> delivered'[d]]
      /\ \A d \in Clients \ {c} : delivered'[d] = delivered[d]
  BY <1>1
<1>6. UNCHANGED <<load, running, stopper, acceptor, incoming, table, publisher, frame, packets>>
  BY DEF otherVars, acceptVars, publishVars
<1>7. counts' \in [Routes -> Int] /\ \A r \in DOMAIN counts' : counts'[r] = Cardinality(Counted(r)')
  <2>1. CASE counts' = counts /\ (t \in Active <=> thread[c] \in Active)
    <3>1. \A d \in Clients : thread'[d] \in Active <=> thread[d] \in Active
      BY <1>2, <2>1
    <3>2. \A d \in Clients : thread[d] \in Active => route'[d] = route[d]
      BY <1>3
    <3> QED
      BY <1>1, <2>1, <3>1, <3>2, NobodyMoves
  <2>2. CASE /\ counts' = [counts EXCEPT ![route[c]] = @ + 1] /\ route' = route
             /\ thread[c] \notin Active /\ t \in Active
    BY <1>2, <2>2, OneMoves
  <2>3. CASE /\ counts' = [counts EXCEPT ![route[c]] = @ - 1] /\ route' = route
             /\ thread[c] \in Active /\ t \notin Active
    BY <1>2, <2>3, OneMoves
  <2> QED
    BY <2>1, <2>2, <2>3
<1>8. TypeOK'
  BY <1>2, <1>3, <1>4, <1>6, <1>7 DEF IInv, TypeOK, ThreadSteps, Routes
<1>9. TableOK'
  <2>1. c \in table
    BY DEF IInv, TableOK
  <2>2. \A d \in Clients \ table' :
          /\ thread'[d] \in {"none", "ended"}
          /\ socket'[d] \in {"none", "closed"} \/ (acceptor' = "accepted" /\ d = incoming')
    <3> SUFFICES ASSUME NEW d \in Clients \ table
                 PROVE  /\ thread[d] \in {"none", "ended"}
                        /\ \/ socket[d] \in {"none", "closed"}
                           \/ acceptor = "accepted" /\ d = incoming
      BY <1>2, <1>4, <1>6, <2>1
    <3> QED
      BY DEF IInv, TableOK
  <2>3. \A d \in table' : socket'[d] \in {"open", "shut"}
    <3>1. table \subseteq Clients /\ \A d \in table : socket[d] \in {"open", "shut"}
      BY DEF IInv, TypeOK, TableOK
    <3> QED
      BY <1>4, <1>6, <3>1
  <2>4. /\ acceptor' = "accepted" => /\ incoming' \in Clients \ table'
                                     /\ socket'[incoming'] = "open"
        /\ stopper' \in {"clients", "returned"} => acceptor' = "exited"
        /\ stopper' = "returned" => table' = {}
    BY <1>4, <1>6, <2>1 DEF IInv, TableOK
  <2> QED
    BY <2>2, <2>3, <2>4 DEF TableOK
<1>10. SleepOK'
  <2>1. ASSUME NEW d \in Clients \ {c}
        PROVE  HasNews(d)' <=> HasNews(d)
    <3>1. route'[d] = route[d] /\ delivered'[d] = delivered[d] /\ packets' = packets
          /\ frame' = frame
      BY <1>3, <1>5, <1>6
    <3> QED
      BY <3>1 DEF HasNews
  <2>2. \A d \in Clients \ {c} : thread'[d] = "dozing" => mutex' = d /\ ~HasNews(d)'
    BY <1>2, <2>1, ServerAssumption DEF IInv, SleepOK
  <2>3. NoNewsMissed'
    BY <1>2, <1>6, <2>1 DEF IInv, SleepOK, NoNewsMissed
  <2> QED
    BY <1>2, <1>5, <2>2, <2>3 DEF SleepOK
<1>11. CountsMatch'
  BY <1>6, <1>7 DEF IInv, CountsMatch
<1>12. StillOK'
  BY <1>2, <1>3 DEF IInv, StillOK
<1> QED
  BY <1>8, <1>9, <1>10, <1>11, <1>12 DEF IInv

LEMMA ClientStep ==
  ASSUME IInv, NEW c \in Clients, Client(c)
  PROVE  IInv'
<1> USE DEF ThreadSteps, Streaming, Active
<1>1. /\ mutex \in Clients \cup {NoClient} /\ load.routes \subseteq Routes
      /\ NoClient \notin Clients
      /\ thread[c] = "dozing" => mutex = c /\ ~HasNews(c)
  BY ServerAssumption DEF IInv, TypeOK, SleepOK, LoadType, Routes
<1>2. CASE Await(c)
  BY <1>1, <1>2, ClientShape DEF Await
<1>3. CASE Answer(c)
  BY <1>1, <1>3, ClientShape DEF Answer, Ends
<1>4. ASSUME NEW r \in load.routes, Request(c, r)
      PROVE  IInv'
  BY <1>1, <1>4, ClientShape DEF Request
<1>5. CASE NothingToShow(c)
  BY <1>1, <1>5, ClientShape DEF NothingToShow, Ends
<1>6. CASE SelectStart(c)
  <2>1. delivered' = delivered \/ \E n : delivered' = [delivered EXCEPT ![c] = n]
    BY <1>6 DEF SelectStart
  <2>2. /\ thread[c] = "select" /\ thread' = [thread EXCEPT ![c] = "header"]
        /\ UNCHANGED <<otherVars, socket, mutex, route, counts>>
    BY <1>6 DEF SelectStart
  <2> QED
    BY <1>1, <2>1, <2>2, ClientShape
<1>7. CASE HeaderFails(c)
  BY <1>1, <1>7, ClientShape DEF HeaderFails, Ends
<1>8. CASE HeaderSent(c)
  BY <1>1, <1>8, ClientShape DEF HeaderSent
<1>9. CASE Count(c)
  BY <1>1, <1>9, ClientShape DEF Count
<1>10. CASE Write(c)
  <2>1. \E n : delivered' = [delivered EXCEPT ![c] = n]
    BY <1>10 DEF Write
  <2>2. /\ thread[c] = "write" /\ UNCHANGED <<otherVars, socket, mutex, thread, route, counts>>
    BY <1>10 DEF Write
  <2>3. thread' = [thread EXCEPT ![c] = "write"]
    BY <2>2 DEF IInv, TypeOK
  <2> QED
    BY <1>1, <2>1, <2>2, <2>3, ClientShape
<1>11. CASE WriteFails(c)
  BY <1>1, <1>11, ClientShape DEF WriteFails
<1>12. CASE AllWritten(c)
  <2>1. PICK t \in {"check", "leave"} : thread' = [thread EXCEPT ![c] = t]
    BY <1>12 DEF AllWritten
  <2>2. thread[c] = "write" /\ UNCHANGED <<otherVars, socket, mutex, route, counts, delivered>>
    BY <1>12 DEF AllWritten
  <2> QED
    BY <1>1, <2>1, <2>2, ClientShape
<1>13. CASE TakeNews(c)
  <2>1. PICK t \in {"write", "leave"} : thread' = [thread EXCEPT ![c] = t]
    BY <1>13 DEF TakeNews
  <2>2. thread[c] = "check" /\ UNCHANGED <<otherVars, socket, mutex, route, counts, delivered>>
    BY <1>13 DEF TakeNews
  <2> QED
    BY <1>1, <2>1, <2>2, ClientShape
<1>14. CASE NoticeStop(c)
  BY <1>1, <1>14, ClientShape DEF NoticeStop
<1>15. CASE NothingNew(c)
  <2>1. ~HasNews(c)'
    BY <1>15 DEF NothingNew, HasNews, otherVars, publishVars
  <2> QED
    BY <1>1, <1>15, <2>1, ClientShape DEF NothingNew
<1>16. CASE FallAsleep(c)
  <2>1. ~HasNews(c)'
    BY <1>1, <1>16 DEF FallAsleep, HasNews, otherVars, publishVars
  <2> QED
    BY <1>1, <1>16, <2>1, ClientShape DEF FallAsleep
<1>17. CASE Leave(c)
  BY <1>1, <1>17, ClientShape DEF Leave, Ends
<1>18. CASE AskForStill(c)
  BY <1>1, <1>18, ClientShape DEF AskForStill
<1>19. CASE SendStill(c)
  <2>1. route[c] = Still
    BY <1>19 DEF SendStill, IInv, StillOK
  <2> QED
    BY <1>1, <1>19, <2>1, ClientShape DEF SendStill, Ends
<1> QED
  BY <1>2, <1>3, <1>4, <1>5, <1>6, <1>7, <1>8, <1>9, <1>10, <1>11, <1>12, <1>13, <1>14, <1>15,
     <1>16, <1>17, <1>18, <1>19 DEF Client

-----------------------------------------------------------------------------
(* The accept thread, the camera thread and the main thread.  They leave   *)
(* the threads as they are, start one, or wake those that sleep.           *)
LEMMA OthersShape ==
  ASSUME IInv, counts' = counts, route' = route, mutex' = mutex, delivered' = delivered,
         thread' \in [Clients -> ThreadSteps],
         \A c \in Clients : \/ thread'[c] = thread[c]
                            \/ thread[c] = "asleep" /\ thread'[c] = "check"
                            \/ thread[c] \in {"none", "ended"} /\ thread'[c] = "request",
         TypeOK', TableOK', Cardinality(table') <= MaxClients, NoNewsMissed',
         \A c \in Clients : thread'[c] = "dozing" => ~HasNews(c)'
  PROVE  IInv'
<1>1. \A c \in Clients : thread'[c] \in Active <=> thread[c] \in Active
  BY DEF Active, Streaming
<1>2. \A r \in DOMAIN counts' : counts'[r] = Cardinality(Counted(r)')
  BY <1>1, NobodyMoves
<1>3. \A c \in Clients : /\ thread'[c] = "dozing" => thread[c] = "dozing"
                         /\ thread'[c] = "still" => thread[c] = "still"
  OBVIOUS
<1>4. SleepOK'
  BY <1>3 DEF IInv, SleepOK
<1>5. StillOK'
  BY <1>3 DEF IInv, StillOK
<1> QED
  BY <1>2, <1>4, <1>5 DEF IInv, CountsMatch

LEMMA TableCardinality ==
  ASSUME IInv
  PROVE  IsFiniteSet(table) /\ Cardinality(table) \in Nat /\ MaxClients \in Nat
<1>1. table \subseteq Clients
  BY DEF IInv, TypeOK
<1> QED
  BY <1>1, ServerAssumption, FS_Subset, FS_CardinalityType

LEMMA RegisterStep ==
  ASSUME IInv, Register
  PROVE  IInv'
<1> DEFINE kept == table \ Finished
<1>1. /\ incoming \in Clients /\ incoming \notin table /\ table \subseteq Clients
      /\ thread \in [Clients -> ThreadSteps]
      /\ socket \in [Clients -> {"none", "open", "shut", "closed"}]
      /\ acceptor = "accepted" /\ stopper \notin {"clients", "returned"}
      /\ thread[incoming] \in {"none", "ended"}
  BY DEF IInv, TypeOK, TableOK, ThreadSteps, Register
<1>2. /\ HasRoom => Cardinality(kept) < MaxClients
      /\ table' = kept \cup (IF HasRoom THEN {incoming} ELSE {})
      /\ thread' = IF HasRoom THEN [thread EXCEPT ![incoming] = "request"] ELSE thread
      /\ \A c \in Clients : socket'[c] = IF c \in Finished \/ (c = incoming /\ ~HasRoom)
                                         THEN "closed" ELSE socket[c]
      /\ socket' \in [Clients -> {"none", "open", "shut", "closed"}]
      /\ incoming' = NoClient /\ acceptor' \in {"accepting", "exited"}
      /\ UNCHANGED <<load, running, stopper, mutex, publishVars, route, counts, delivered>>
  BY <1>1 DEF Register, HasRoom
<1>3. /\ thread' \in [Clients -> ThreadSteps]
      /\ \A c \in Clients \ {incoming} : thread'[c] = thread[c]
      /\ HasRoom => thread'[incoming] = "request"
      /\ ~HasRoom => thread'[incoming] = thread[incoming]
  BY <1>1, <1>2 DEF ThreadSteps
<1>4. table' \subseteq Clients
  BY <1>1, <1>2
<1>5. TypeOK'
  BY <1>2, <1>3, <1>4 DEF IInv, TypeOK, ThreadSteps, publishVars
<1>6. TableOK'
  <2>1. ASSUME NEW c \in Clients \ table'
        PROVE  thread'[c] \in {"none", "ended"} /\ socket'[c] \in {"none", "closed"}
    <3>1. CASE c = incoming
      BY <1>1, <1>2, <1>3, <2>1, <3>1
    <3>2. CASE c # incoming /\ c \in table
      <4>1. c \in Finished
        BY <1>2, <2>1, <3>2
      <4> QED
        BY <1>2, <1>3, <3>2, <4>1 DEF Finished
    <3>3. CASE c # incoming /\ c \notin table
      BY <1>2, <1>3, <2>1, <3>3 DEF IInv, TableOK, Finished
    <3> QED
      BY <3>1, <3>2, <3>3
  <2>2. ASSUME NEW c \in table'
        PROVE  socket'[c] \in {"open", "shut"}
    <3>1. CASE c = incoming
      <4>1. HasRoom /\ c \notin Finished
        BY <1>1, <1>2, <2>2, <3>1 DEF Finished
      <4>2. socket[c] = "open"
        BY <1>1, <3>1 DEF IInv, TableOK
      <4> QED
        BY <1>2, <1>4, <2>2, <4>1, <4>2
    <3>2. CASE c # incoming
      <4>1. c \in table /\ c \notin Finished
        BY <1>2, <2>2, <3>2
      <4> QED
        BY <1>1, <1>2, <3>2, <4>1 DEF IInv, TableOK
    <3> QED
      BY <3>1, <3>2
  <2> QED
    BY <1>1, <1>2, <2>1, <2>2 DEF TableOK
<1>7. Cardinality(table') <= MaxClients
  <2>1. IsFiniteSet(kept) /\ Cardinality(kept) \in Nat /\ Cardinality(kept) <= MaxClients
    <3>1. IsFiniteSet(table) /\ Cardinality(table) \in Nat /\ MaxClients \in Nat
      BY TableCardinality
    <3>2. kept \subseteq table /\ Cardinality(table) <= MaxClients
      BY DEF IInv, CountsMatch
    <3>3. IsFiniteSet(kept) /\ Cardinality(kept) \in Nat /\ Cardinality(kept) <= Cardinality(table)
      BY <3>1, <3>2, FS_Subset, FS_CardinalityType
    <3> QED
      BY <3>1, <3>2, <3>3
  <2>2. Cardinality(kept \cup {incoming}) = Cardinality(kept) + 1
    BY <1>1, <2>1, FS_AddElement
  <2> HIDE DEF kept
  <2>3. MaxClients \in Nat
    BY ServerAssumption
  <2>4. CASE HasRoom
    <3>1. table' = kept \cup {incoming} /\ Cardinality(kept) < MaxClients
      BY <1>2, <2>4
    <3>2. Cardinality(kept) + 1 <= MaxClients
      BY <2>1, <2>3, <3>1
    <3> QED
      BY <2>2, <3>1, <3>2
  <2>5. CASE ~HasRoom
    BY <1>2, <2>1, <2>5
  <2> QED
    BY <2>4, <2>5
<1>8. \A c \in Clients : HasNews(c)' <=> HasNews(c)
  BY <1>2 DEF HasNews, publishVars
<1>9. \A c \in Clients : thread'[c] \in {"asleep", "dozing"} => thread'[c] = thread[c]
  BY <1>3
<1>10. NoNewsMissed' /\ \A c \in Clients : thread'[c] = "dozing" => ~HasNews(c)'
  BY <1>2, <1>8, <1>9 DEF IInv, SleepOK, NoNewsMissed, publishVars
<1>11. \A c \in Clients : \/ thread'[c] = thread[c]
                          \/ thread[c] = "asleep" /\ thread'[c] = "check"
                          \/ thread[c] \in {"none", "ended"} /\ thread'[c] = "request"
  BY <1>1, <1>3
<1> QED
  BY <1>2, <1>3, <1>5, <1>6, <1>7, <1>10, <1>11, OthersShape

LEMMA AcceptorStep ==
  ASSUME IInv, Acceptor
  PROVE  IInv'
<1>1. CASE AcceptFails
  <2>1. /\ acceptor = "accepting" /\ acceptor' = "exited"
        /\ UNCHANGED <<load, running, stopper, incoming, table, socket, mutex, publishVars,
                       clientVars>>
    BY <1>1 DEF AcceptFails
  <2>2. TypeOK' /\ TableOK'
    BY <2>1 DEF IInv, TypeOK, TableOK, publishVars, clientVars
  <2>3. /\ thread' \in [Clients -> ThreadSteps] /\ NoNewsMissed'
        /\ \A c \in Clients : thread'[c] = "dozing" => ~HasNews(c)'
    BY <2>1 DEF IInv, TypeOK, SleepOK, NoNewsMissed, HasNews, ThreadSteps, publishVars, clientVars
  <2> QED
    BY <2>1, <2>2, <2>3, OthersShape DEF IInv, CountsMatch, clientVars
<1>2. ASSUME NEW c \in Clients, Accept(c)
      PROVE  IInv'
  <2>1. /\ acceptor = "accepting" /\ ListenerOpen /\ socket[c] = "none"
        /\ acceptor' = "accepted" /\ incoming' = c /\ socket' = [socket EXCEPT ![c] = "open"]
        /\ UNCHANGED <<load, running, stopper, table, mutex, publishVars, clientVars>>
    BY <1>2 DEF Accept
  <2>2. /\ socket' \in [Clients -> {"none", "open", "shut", "closed"}] /\ socket'[c] = "open"
        /\ \A d \in Clients \ {c} : socket'[d] = socket[d]
    BY <2>1 DEF IInv, TypeOK
  <2>3. c \notin table
    BY <2>1 DEF IInv, TableOK
  <2>4. stopper \notin {"clients", "returned"}
    BY <2>1 DEF ListenerOpen
  <2>5. TypeOK'
    BY <2>1, <2>2 DEF IInv, TypeOK, publishVars, clientVars
  <2>6. TableOK'
    BY <2>1, <2>2, <2>3, <2>4 DEF IInv, TypeOK, TableOK, clientVars
  <2>7. /\ thread' \in [Clients -> ThreadSteps] /\ NoNewsMissed'
        /\ \A d \in Clients : thread'[d] = "dozing" => ~HasNews(d)'
    BY <2>1 DEF IInv, TypeOK, SleepOK, NoNewsMissed, HasNews, ThreadSteps, publishVars, clientVars
  <2> QED
    BY <2>1, <2>5, <2>6, <2>7, OthersShape DEF IInv, CountsMatch, clientVars
<1> QED
  BY <1>1, <1>2, RegisterStep DEF Acceptor

LEMMA Publishing ==
  ASSUME IInv, MayPublish, publisher' = "notify", frame' \in 0..load.versions,
         UNCHANGED <<load, running, stopper, acceptVars, socket, mutex, clientVars>>
  PROVE  IInv'
<1>1. TypeOK' /\ TableOK'
  BY DEF IInv, TypeOK, TableOK, acceptVars, clientVars
<1>2. NoNewsMissed'
  BY DEF NoNewsMissed
<1>3. \A c \in Clients : thread'[c] # "dozing"
  BY ServerAssumption DEF IInv, SleepOK, MayPublish, clientVars
<1>4. thread' \in [Clients -> ThreadSteps] /\ Cardinality(table') <= MaxClients
  BY DEF IInv, TypeOK, ThreadSteps, CountsMatch, acceptVars, clientVars
<1> QED
  BY <1>1, <1>2, <1>3, <1>4, OthersShape DEF clientVars

LEMMA AwakenedShape ==
  ASSUME IInv, thread' = Awakened
  PROVE  /\ thread' \in [Clients -> ThreadSteps]
         /\ \A c \in Clients : /\ \/ thread'[c] = thread[c]
                                  \/ thread[c] = "asleep" /\ thread'[c] = "check"
                               /\ thread'[c] # "asleep"
BY DEF IInv, TypeOK, Awakened, ThreadSteps, Streaming

LEMMA PublisherStep ==
  ASSUME IInv, Publisher
  PROVE  IInv'
<1>1. load.versions \in Nat /\ frame \in 0..load.versions
  BY ServerAssumption DEF IInv, TypeOK, LoadType
<1>2. CASE PublishFrame
  <2>1. frame' \in 0..load.versions
    BY <1>1, <1>2 DEF PublishFrame
  <2> QED
    BY <1>2, <2>1, Publishing DEF PublishFrame
<1>3. ASSUME NEW q \in Queues, NEW key \in BOOLEAN, NEW kept \in 1..Window,
             PublishPacket(q, key, kept)
      PROVE  IInv'
  <2>1. /\ MayPublish /\ publisher' = "notify" /\ frame' = frame
        /\ UNCHANGED <<load, running, stopper, acceptVars, socket, mutex, clientVars>>
    BY <1>3 DEF PublishPacket
  <2> QED
    BY <1>1, <2>1, Publishing
<1>4. CASE Notify
  <2>1. /\ thread' = Awakened /\ publisher' = "idle"
        /\ UNCHANGED <<load, running, stopper, acceptVars, socket, mutex, frame, packets, route,
                       counts, delivered>>
    BY <1>4 DEF Notify
  <2>2. /\ thread' \in [Clients -> ThreadSteps]
        /\ \A c \in Clients : /\ \/ thread'[c] = thread[c]
                                 \/ thread[c] = "asleep" /\ thread'[c] = "check"
                              /\ thread'[c] # "asleep"
    BY <2>1, AwakenedShape
  <2>3. TypeOK' /\ TableOK' /\ Cardinality(table') <= MaxClients
    BY <2>1, <2>2 DEF IInv, TypeOK, TableOK, CountsMatch, ThreadSteps, acceptVars
  <2>4. NoNewsMissed' /\ \A c \in Clients : thread'[c] = "dozing" => ~HasNews(c)'
    BY <2>1, <2>2 DEF IInv, SleepOK, NoNewsMissed, HasNews
  <2> QED
    BY <2>1, <2>2, <2>3, <2>4, OthersShape
<1> QED
  BY <1>2, <1>3, <1>4 DEF Publisher

LEMMA StopperStep ==
  ASSUME IInv, ClearRunning \/ Stopper
  PROVE  IInv'
<1>1. ASSUME thread' = thread, UNCHANGED <<mutex, publishVars, clientVars>>, TypeOK', TableOK',
             table' \subseteq table
      PROVE  IInv'
  <2>1. Cardinality(table') <= MaxClients
    <3>1. IsFiniteSet(table) /\ Cardinality(table) \in Nat /\ MaxClients \in Nat
      BY TableCardinality
    <3>2. /\ Cardinality(table) <= MaxClients /\ Cardinality(table') \in Nat
          /\ Cardinality(table') <= Cardinality(table)
      BY <1>1, <3>1, FS_Subset, FS_CardinalityType DEF IInv, CountsMatch
    <3> QED
      BY <3>1, <3>2
  <2>2. /\ thread' \in [Clients -> ThreadSteps] /\ NoNewsMissed'
        /\ \A c \in Clients : thread'[c] = "dozing" => ~HasNews(c)'
    BY <1>1 DEF IInv, TypeOK, SleepOK, NoNewsMissed, HasNews, ThreadSteps, publishVars, clientVars
  <2> QED
    BY <1>1, <2>1, <2>2, OthersShape DEF clientVars
<1>2. CASE ClearRunning
  <2>1. TypeOK' /\ TableOK' /\ table' = table
    BY <1>2 DEF IInv, TypeOK, TableOK, ClearRunning, StopStep, acceptVars, publishVars, clientVars
  <2> QED
    BY <1>1, <1>2, <2>1 DEF ClearRunning, clientVars
<1>3. CASE NotifyStop
  <2>1. /\ thread' = Awakened /\ stopper' = "listener" /\ stopper = "notify"
        /\ UNCHANGED <<load, running, acceptVars, socket, mutex, publishVars, route, counts,
                       delivered>>
    BY <1>3 DEF NotifyStop, StopStep
  <2>2. /\ thread' \in [Clients -> ThreadSteps]
        /\ \A c \in Clients : /\ \/ thread'[c] = thread[c]
                                 \/ thread[c] = "asleep" /\ thread'[c] = "check"
                              /\ thread'[c] # "asleep"
    BY <2>1, AwakenedShape
  <2>3. TypeOK' /\ TableOK' /\ Cardinality(table') <= MaxClients
    BY <2>1, <2>2 DEF IInv, TypeOK, TableOK, CountsMatch, ThreadSteps, acceptVars, publishVars
  <2>4. NoNewsMissed' /\ \A c \in Clients : thread'[c] = "dozing" => ~HasNews(c)'
    BY <2>1, <2>2 DEF IInv, SleepOK, NoNewsMissed, HasNews, publishVars
  <2> QED
    BY <2>1, <2>2, <2>3, <2>4, OthersShape
<1>4. CASE CloseListener
  <2>1. TypeOK' /\ TableOK' /\ table' = table
    BY <1>4 DEF IInv, TypeOK, TableOK, CloseListener, StopStep, acceptVars, publishVars, clientVars
  <2> QED
    BY <1>1, <1>4, <2>1 DEF CloseListener, clientVars
<1>5. CASE CloseClientSockets
  <2>1. /\ stopper' = "acceptor" /\ UNCHANGED <<load, running, acceptVars, mutex, publishVars,
                                                clientVars>>
        /\ socket' \in [Clients -> {"none", "open", "shut", "closed"}]
        /\ \A c \in Clients : socket'[c] = IF c \in table THEN "shut" ELSE socket[c]
    BY <1>5 DEF CloseClientSockets, StopStep, IInv, TypeOK
  <2>2. TypeOK'
    BY <2>1 DEF IInv, TypeOK, acceptVars, publishVars, clientVars
  <2>3. TableOK' /\ table' = table
    BY <2>1 DEF IInv, TypeOK, TableOK, acceptVars, clientVars
  <2> QED
    BY <1>1, <2>1, <2>2, <2>3 DEF clientVars
<1>6. CASE JoinAcceptor
  <2>1. TypeOK' /\ TableOK' /\ table' = table
    BY <1>6 DEF IInv, TypeOK, TableOK, JoinAcceptor, StopStep, acceptVars, publishVars, clientVars
  <2> QED
    BY <1>1, <1>6, <2>1 DEF JoinAcceptor, clientVars
<1>7. CASE JoinClients
  <2>1. /\ \A c \in table : thread[c] = "ended"
        /\ stopper = "clients" /\ stopper' = "returned" /\ table' = {}
        /\ UNCHANGED <<load, running, acceptor, incoming, mutex, publishVars, clientVars>>
        /\ socket' \in [Clients -> {"none", "open", "shut", "closed"}]
        /\ \A c \in Clients : socket'[c] = IF c \in table THEN "closed" ELSE socket[c]
    BY <1>7 DEF JoinClients, StopStep, IInv, TypeOK
  <2>2. TypeOK'
    BY <2>1 DEF IInv, TypeOK, publishVars, clientVars
  <2>3. TableOK' /\ table' \subseteq table
    BY <2>1 DEF IInv, TypeOK, TableOK, clientVars
  <2> QED
    BY <1>1, <2>1, <2>2, <2>3 DEF clientVars
<1> QED
  BY <1>2, <1>3, <1>4, <1>5, <1>6, <1>7 DEF Stopper

LEMMA Inductive == Spec => []IInv
<1>1. IInv /\ [Next]_vars => IInv'
  <2> SUFFICES ASSUME IInv, [Next]_vars
               PROVE  IInv'
    OBVIOUS
  <2>1. CASE UNCHANGED vars
    <3>1. TypeOK' /\ TableOK' /\ thread' \in [Clients -> ThreadSteps]
      BY <2>1 DEF vars, acceptVars, publishVars, clientVars, IInv, TypeOK, TableOK, ThreadSteps
    <3>2. NoNewsMissed' /\ \A c \in Clients : thread'[c] = "dozing" => ~HasNews(c)'
      BY <2>1 DEF vars, publishVars, clientVars, IInv, SleepOK, NoNewsMissed, HasNews
    <3> QED
      BY <2>1, <3>1, <3>2, OthersShape DEF vars, acceptVars, clientVars, IInv, CountsMatch
  <2> QED
    BY <2>1, AcceptorStep, PublisherStep, ClientStep, StopperStep DEF Next
<1> QED
  BY <1>1, InitIInv, PTL DEF Spec

-----------------------------------------------------------------------------
(* The control state of the server and its counters have their types.      *)
THEOREM TypeCorrect == Spec => []TypeOK
BY Inductive, PTL DEF IInv

(* Whatever way connections begin and end, each counter is the number of   *)
(* threads in its streams, and the table keeps its limit.                  *)
THEOREM CountersAreTrue == Spec => []CountsMatch
BY Inductive, PTL DEF IInv

(* No publication is slept through: a thread asleep beside news will be    *)
(* notified.                                                               *)
THEOREM NoLostWakeup == Spec => []NoNewsMissed
BY Inductive, PTL DEF IInv, SleepOK

(* A stop() that returns has joined every thread, closed every socket and  *)
(* taken back every count.                                                 *)
THEOREM StopIsClean == Spec => []StopLeavesNothing
<1>1. IInv => StopLeavesNothing
  <2> SUFFICES ASSUME IInv, stopper = "returned"
               PROVE  /\ table = {} /\ acceptor = "exited"
                      /\ \A c \in Clients : thread[c] \in {"none", "ended"}
                                            /\ socket[c] \in {"none", "closed"}
                      /\ \A r \in DOMAIN counts : counts[r] = 0
    BY DEF StopLeavesNothing
  <2>1. table = {} /\ acceptor = "exited"
    BY DEF IInv, TableOK
  <2>2. \A c \in Clients : thread[c] \in {"none", "ended"} /\ socket[c] \in {"none", "closed"}
    BY <2>1 DEF IInv, TableOK
  <2>3. ASSUME NEW r \in DOMAIN counts
        PROVE  counts[r] = 0
    <3>1. Counted(r) = {}
      BY <2>2 DEF Counted, Streaming
    <3> QED
      BY <3>1, FS_EmptySet DEF IInv, CountsMatch
  <2> QED
    BY <2>1, <2>2, <2>3
<1> QED
  BY <1>1, Inductive, PTL

-----------------------------------------------------------------------------
(* What the streams write.  The versions of a queue, of what a thread has  *)
(* taken from it and of what it has written are three stretches without a  *)
(* gap, and each begins where the last one ended.                          *)
PacketType == [version : Nat, key : BOOLEAN]

(* The versions of a stretch of packets follow one another.                *)
Numbered(s) == \A i \in 1..Len(s) : s[i].version = s[1].version + (i - 1)

(* A queue is a stretch of what was published.                             *)
QueueInv == packets \in [Queues -> Seq(PacketType)] /\ \A q \in Queues : Numbered(packets[q])

(* A connection that accept4 has returned has had no thread.               *)
FreshInv ==
  /\ \A c \in Clients : socket[c] = "none" => thread[c] = "none"
  /\ acceptor = "accepted" => thread[incoming] = "none"

(* A stream has written nothing before its loop.                           *)
NothingYet(c) ==
  /\ thread[c] \in {"none", "request", "reading", "select"} =>
       sent[c] = <<>> /\ pending[c] = <<>>
  /\ thread[c] \in {"header", "count"} => sent[c] = <<>>

(* What is to be written continues what was written, which ends at         *)
(* delivered and begins with a keyframe.                                   *)
Continues(c) ==
  /\ Numbered(sent[c]) /\ Numbered(pending[c])
  /\ sent[c] # <<>> => sent[c][1].key /\ sent[c][Len(sent[c])].version = delivered[c]
  /\ sent[c] # <<>> /\ pending[c] # <<>> => pending[c][1].version = delivered[c] + 1

(* A video stream that has written nothing is about to write a keyframe.   *)
KeyFirst(c) ==
  /\ thread[c] \in {"header", "count", "write"} /\ sent[c] = <<>> =>
       pending[c] # <<>> /\ pending[c][1].key
  /\ thread[c] \in {"check", "dozing", "asleep"} => sent[c] # <<>>

StreamOK(c) ==
  /\ NothingYet(c)
  /\ route[c] \in Queues => Continues(c)
  /\ route[c] = Video => KeyFirst(c)

StreamInv ==
  /\ delivered \in [Clients -> Nat]
  /\ pending \in [Clients -> Seq(PacketType)] /\ sent \in [Clients -> Seq(PacketType)]
  /\ QueueInv /\ FreshInv
  /\ \A c \in Clients : StreamOK(c)

LEMMA LeastOf ==
  ASSUME NEW T \in SUBSET Nat, T # {}
  PROVE  Min(T) \in T /\ \A y \in T : Min(T) <= y
<1>1. PICK x \in T : \A y \in T : ~ (<<y, x>> \in OpToRel(<, Nat))
  BY NatLessThanWellFounded, WFMin
<1>2. \A y \in T : ~(y < x)
  BY <1>1 DEF OpToRel
<1>3. \A y \in T : x <= y
  BY <1>2
<1> QED
  BY <1>3 DEF Min

LEMMA GreatestOf ==
  ASSUME NEW T \in SUBSET Nat, T # {}, NEW bound \in Nat, \A y \in T : y <= bound
  PROVE  Max(T) \in T /\ \A y \in T : y <= Max(T)
<1> DEFINE above == {u \in Nat : \A y \in T : y <= u}
           x == Min(above)
<1>1. x \in above /\ \A u \in above : x <= u
  <2>1. above \in SUBSET Nat /\ bound \in above
    OBVIOUS
  <2> HIDE DEF above
  <2> QED
    BY <2>1, LeastOf
<1> HIDE DEF x
<1>2. x \in T
  <2> SUFFICES ASSUME x \notin T
               PROVE  FALSE
    OBVIOUS
  <2>1. \A y \in T : y <= x /\ y # x
    BY <1>1
  <2>2. x # 0
    <3>1. PICK y \in T : TRUE
      OBVIOUS
    <3> QED
      BY <2>1, <3>1
  <2>3. x - 1 \in above
    BY <1>1, <2>1, <2>2
  <2> QED
    BY <1>1, <2>3
<1>3. \A y \in T : x >= y
  BY <1>1
<1> QED
  BY <1>2, <1>3 DEF Max

LEMMA VersionsOf ==
  ASSUME NEW s \in Seq(PacketType)
  PROVE  Len(s) \in Nat /\ \A i \in 1..Len(s) : s[i].version \in Nat
<1>1. \A i \in 1..Len(s) : s[i] \in PacketType
  OBVIOUS
<1> QED
  BY <1>1 DEF PacketType

(* A stretch of a stretch is one.                                          *)
LEMMA PartOfStretch ==
  ASSUME NEW s \in Seq(PacketType), Numbered(s), NEW m \in 1..Len(s), NEW n \in m..Len(s)
  PROVE  /\ SubSeq(s, m, n) \in Seq(PacketType) /\ Numbered(SubSeq(s, m, n))
         /\ SubSeq(s, m, n) # <<>> /\ SubSeq(s, m, n)[1] = s[m]
<1> DEFINE part == SubSeq(s, m, n)
<1>1. /\ part \in Seq(PacketType) /\ Len(part) = n - m + 1
      /\ \A i \in 1..Len(part) : part[i] = s[m + i - 1]
  OBVIOUS
<1> HIDE DEF part
<1>2. part # <<>> /\ part[1] = s[m]
  BY <1>1
<1>3. \A i \in 1..Len(s) : s[i].version = s[1].version + (i - 1) /\ s[i].version \in Nat
  BY VersionsOf DEF Numbered
<1>4. /\ m \in Nat /\ n \in Nat /\ Len(s) \in Nat /\ 1 <= m /\ m <= n /\ n <= Len(s)
  BY VersionsOf
<1>5. ASSUME NEW i \in 1..Len(part)
      PROVE  part[i].version = part[1].version + (i - 1)
  <2>1. PICK k \in 1..Len(s) : k = m + i - 1 /\ part[i] = s[k]
    <3>1. i \in Nat /\ 1 <= i /\ i <= n - m + 1
      BY <1>1, <1>4
    <3>2. m + i - 1 \in 1..Len(s)
      BY <1>4, <3>1
    <3>3. part[i] = s[m + i - 1]
      BY <1>1
    <3> QED
      BY <3>2, <3>3
  <2>2. PICK v \in Nat : v = s[1].version
    <3>1. 1 \in 1..Len(s)
      BY <1>4
    <3> QED
      BY <1>3, <3>1
  <2>3. s[k].version = v + (k - 1) /\ s[m].version = v + (m - 1)
    BY <1>3, <2>2
  <2>4. v + (k - 1) = (v + (m - 1)) + (i - 1)
    <3>1. i \in Nat
      BY <1>1, <1>4
    <3> QED
      BY <1>4, <2>1, <3>1
  <2>5. part[i].version = s[k].version /\ part[1].version = s[m].version
    BY <1>2, <2>1
  <2> QED
    BY <2>3, <2>4, <2>5
<1> QED
  BY <1>1, <1>2, <1>5 DEF part, Numbered

(* The packet that follows a stretch prolongs it.                          *)
LEMMA LongerStretch ==
  ASSUME NEW s \in Seq(PacketType), Numbered(s), NEW p \in PacketType,
         s # <<>> => p.version = s[Len(s)].version + 1
  PROVE  Append(s, p) \in Seq(PacketType) /\ Numbered(Append(s, p))
<1> DEFINE longer == Append(s, p)
<1>1. /\ longer \in Seq(PacketType) /\ Len(longer) = Len(s) + 1
      /\ longer[Len(s) + 1] = p /\ \A i \in 1..Len(s) : longer[i] = s[i]
  OBVIOUS
<1> HIDE DEF longer
<1>2. ASSUME NEW i \in 1..Len(longer)
      PROVE  longer[i].version = longer[1].version + (i - 1)
  <2>1. CASE s = <<>>
    <3>1. i = 1 /\ longer[1] = p /\ p.version \in Nat
      BY <1>1, <2>1 DEF PacketType
    <3> QED
      BY <3>1
  <2>2. CASE s # <<>> /\ i <= Len(s)
    BY <1>1, <2>2 DEF Numbered
  <2>3. CASE s # <<>> /\ i = Len(s) + 1
    <3>1. s[Len(s)].version = s[1].version + (Len(s) - 1) /\ s[1].version \in Nat
      BY <2>3, VersionsOf DEF Numbered
    <3>2. longer[i].version = s[Len(s)].version + 1 /\ longer[1] = s[1]
      BY <1>1, <2>3
    <3> QED
      BY <2>3, <3>1, <3>2
  <2> QED
    BY <1>1, <2>1, <2>2, <2>3
<1> QED
  BY <1>1, <1>2 DEF longer, Numbered

(* The first new packet of a queue that was not cut too far follows what   *)
(* was delivered.                                                          *)
LEMMA FirstNewFollows ==
  ASSUME NEW queue \in Seq(PacketType), Numbered(queue), queue # <<>>, NEW d \in Nat,
         queue[Len(queue)].version > d, ~Overrun(queue, d)
  PROVE  FirstNew(queue, d) \in 1..Len(queue) /\ queue[FirstNew(queue, d)].version = d + 1
<1> DEFINE newer == {i \in 1..Len(queue) : queue[i].version > d}
           first == Min(newer)
<1>1. first \in newer /\ \A i \in newer : first <= i
  <2>1. newer \in SUBSET Nat /\ Len(queue) \in newer
    OBVIOUS
  <2> HIDE DEF newer
  <2> QED
    BY <2>1, LeastOf
<1>2. FirstNew(queue, d) = first
  BY <1>1 DEF FirstNew, SelectInSeq
<1> HIDE DEF first
<1>3. \A i \in 1..Len(queue) : queue[i].version = queue[1].version + (i - 1)
                                /\ queue[i].version \in Nat
  BY VersionsOf DEF Numbered
<1>4. first \in 1..Len(queue) /\ queue[first].version > d
  BY <1>1
<1>5. queue[first].version <= d + 1
  <2>1. CASE first = 1
    BY <1>3, <1>4, <2>1 DEF Overrun
  <2>2. CASE first # 1
    <3>1. first - 1 \in 1..Len(queue) /\ first - 1 \notin newer
      BY <1>1, <1>4, <2>2
    <3>2. queue[first - 1].version <= d
      BY <1>3, <3>1
    <3>3. queue[first - 1].version = queue[1].version + (first - 2)
          /\ queue[first].version = queue[1].version + (first - 1) /\ queue[1].version \in Nat
      BY <1>3, <1>4, <3>1
    <3> QED
      BY <1>4, <3>2, <3>3
  <2> QED
    BY <2>1, <2>2
<1> QED
  BY <1>2, <1>3, <1>4, <1>5

(* What a video stream begins with begins with a keyframe.                 *)
LEMMA FromKeyframeIs ==
  ASSUME NEW queue \in Seq(PacketType), Numbered(queue), FromKeyframe(queue) # <<>>
  PROVE  /\ FromKeyframe(queue) \in Seq(PacketType) /\ Numbered(FromKeyframe(queue))
         /\ FromKeyframe(queue)[1].key
<1> DEFINE keys == {i \in 1..Len(queue) : queue[i].key}
<1>1. keys # {} /\ FromKeyframe(queue) = SubSeq(queue, Max(keys), Len(queue))
  BY DEF FromKeyframe
<1>2. Max(keys) \in keys
  <2>1. keys \in SUBSET Nat /\ Len(queue) \in Nat /\ \A i \in keys : i <= Len(queue)
    OBVIOUS
  <2> HIDE DEF keys
  <2> QED
    BY <1>1, <2>1, GreatestOf
<1>3. PICK k \in 1..Len(queue) : k = Max(keys) /\ queue[k].key
  BY <1>2
<1>4. Len(queue) \in k..Len(queue)
  BY VersionsOf
<1>5. FromKeyframe(queue) = SubSeq(queue, k, Len(queue))
  BY <1>1, <1>3
<1>6. /\ SubSeq(queue, k, Len(queue)) \in Seq(PacketType) /\ Numbered(SubSeq(queue, k, Len(queue)))
      /\ SubSeq(queue, k, Len(queue))[1] = queue[k]
  BY <1>4, PartOfStretch
<1> QED
  BY <1>3, <1>5, <1>6

-----------------------------------------------------------------------------
(* A thread that does not touch its stream goes on to one of these.        *)
Ahead(from, to) ==
  \/ to = from \/ to \in {"leave", "ended"}
  \/ <<from, to>> \in {<<"none", "request">>, <<"request", "reading">>, <<"header", "count">>,
                      <<"count", "write">>, <<"check", "dozing">>, <<"dozing", "asleep">>,
                      <<"asleep", "check">>, <<"select", "still">>}

LEMMA StreamStays ==
  ASSUME NEW c \in Clients, StreamOK(c), Ahead(thread[c], thread'[c]),
         route'[c] = route[c], delivered'[c] = delivered[c], pending'[c] = pending[c],
         sent'[c] = sent[c]
  PROVE  StreamOK(c)'
<1>1. NothingYet(c)'
  BY DEF Ahead, StreamOK, NothingYet
<1>2. route'[c] \in Queues => Continues(c)'
  BY DEF StreamOK, Continues, Numbered
<1>3. route'[c] = Video => KeyFirst(c)'
  BY DEF Ahead, StreamOK, KeyFirst
<1> QED
  BY <1>1, <1>2, <1>3 DEF StreamOK

(* A step of one thread, which leaves the streams of the others alone.     *)
LEMMA OneStream ==
  ASSUME IInv, StreamInv, NEW c \in Clients, thread[c] # "none", UNCHANGED otherVars,
         socket' = socket \/ socket' = [socket EXCEPT ![c] = "shut"],
         \A d \in Clients \ {c} : /\ thread'[d] = thread[d] /\ route'[d] = route[d]
                                 /\ delivered'[d] = delivered[d] /\ pending'[d] = pending[d]
                                 /\ sent'[d] = sent[d],
         delivered' \in [Clients -> Nat], pending' \in [Clients -> Seq(PacketType)],
         sent' \in [Clients -> Seq(PacketType)], StreamOK(c)'
  PROVE  StreamInv'
<1>1. \A d \in Clients : StreamOK(d)'
  BY StreamStays DEF StreamInv, Ahead
<1>2. QueueInv'
  BY DEF StreamInv, QueueInv, otherVars, publishVars, Numbered
<1>3. FreshInv'
  <2>1. UNCHANGED <<acceptor, incoming>> /\ socket \in [Clients -> {"none", "open", "shut", "closed"}]
    BY DEF otherVars, acceptVars, IInv, TypeOK
  <2>2. ASSUME NEW d \in Clients, socket'[d] = "none"
        PROVE  thread'[d] = "none"
    <3>1. d # c
      BY <2>1, <2>2 DEF StreamInv, FreshInv
    <3>2. socket[d] = "none"
      BY <2>1, <2>2, <3>1
    <3> QED
      BY <3>1, <3>2 DEF StreamInv, FreshInv
  <2>3. ASSUME acceptor' = "accepted"
        PROVE  thread'[incoming'] = "none"
    <3>1. incoming \in Clients /\ incoming # c /\ thread[incoming] = "none"
      BY <2>1, <2>3 DEF IInv, TableOK, StreamInv, FreshInv
    <3> QED
      BY <2>1, <3>1
  <2> QED
    BY <2>2, <2>3 DEF FreshInv
<1> QED
  BY <1>1, <1>2, <1>3 DEF StreamInv

(* The steps of a thread that do not touch its stream.                     *)
LEMMA MovingOn ==
  ASSUME IInv, StreamInv, NEW c \in Clients, thread[c] # "none", UNCHANGED otherVars,
         socket' = socket \/ socket' = [socket EXCEPT ![c] = "shut"],
         NEW t, thread' = [thread EXCEPT ![c] = t], Ahead(thread[c], t),
         UNCHANGED <<route, delivered, pending, sent>>
  PROVE  StreamInv'
<1>1. thread'[c] = t /\ \A d \in Clients \ {c} : thread'[d] = thread[d]
  BY DEF IInv, TypeOK
<1>2. StreamOK(c)'
  BY <1>1, StreamStays DEF StreamInv
<1> QED
  BY <1>1, <1>2, OneStream DEF StreamInv

-----------------------------------------------------------------------------
LEMMA RequestStream ==
  ASSUME IInv, StreamInv, NEW c \in Clients, NEW r \in load.routes, Request(c, r)
  PROVE  StreamInv'
<1>1. /\ thread[c] = "reading" /\ thread'[c] = "select"
      /\ \A d \in Clients \ {c} : thread'[d] = thread[d] /\ route'[d] = route[d]
      /\ UNCHANGED <<otherVars, socket, delivered, pending, sent>>
  BY DEF Request, IInv, TypeOK
<1>2. sent'[c] = <<>> /\ pending'[c] = <<>>
  BY <1>1 DEF StreamInv, StreamOK, NothingYet
<1>3. StreamOK(c)'
  BY <1>1, <1>2 DEF StreamOK, NothingYet, Continues, KeyFirst, Numbered
<1> QED
  BY <1>1, <1>3, OneStream DEF StreamInv

LEMMA SelectStream ==
  ASSUME IInv, StreamInv, NEW c \in Clients, SelectStart(c)
  PROVE  StreamInv'
<1> USE DEF Mjpeg, Still, Video, Timelapse, Queues
<1>1. /\ thread[c] = "select" /\ thread'[c] = "header"
      /\ \A d \in Clients \ {c} : thread'[d] = thread[d]
      /\ UNCHANGED <<otherVars, socket, route, sent>>
      /\ route[c] \in {Mjpeg, Still} \cup Queues
  BY DEF SelectStart, IInv, TypeOK
<1>2. sent[c] = <<>> /\ pending[c] = <<>>
  BY <1>1 DEF StreamInv, StreamOK, NothingYet
<1>3. /\ delivered \in [Clients -> Nat] /\ pending \in [Clients -> Seq(PacketType)]
      /\ sent \in [Clients -> Seq(PacketType)]
      /\ \A q \in Queues : packets[q] \in Seq(PacketType) /\ Numbered(packets[q])
  BY DEF StreamInv, QueueInv
<1>4. CASE route[c] = Mjpeg
  <2>1. UNCHANGED <<pending, delivered>>
    BY <1>4 DEF SelectStart
  <2>2. StreamOK(c)'
    BY <1>1, <1>2, <1>4, <2>1 DEF StreamOK, NothingYet
  <2> QED
    BY <1>1, <1>3, <2>1, <2>2, OneStream
<1>5. CASE route[c] = Video
  <2> DEFINE start == FromKeyframe(packets[Video])
  <2>1. pending' = [pending EXCEPT ![c] = start] /\ start # <<>> /\ delivered' = delivered
    BY <1>5 DEF SelectStart
  <2>2. start \in Seq(PacketType) /\ Numbered(start) /\ start[1].key
    BY <1>3, <2>1, FromKeyframeIs
  <2> HIDE DEF start
  <2>3. /\ pending' \in [Clients -> Seq(PacketType)] /\ pending'[c] = start
        /\ \A d \in Clients \ {c} : pending'[d] = pending[d]
    BY <1>3, <2>1, <2>2
  <2>4. StreamOK(c)'
    BY <1>1, <1>2, <2>1, <2>2, <2>3 DEF StreamOK, NothingYet, Continues, KeyFirst, Numbered
  <2> QED
    BY <1>1, <1>3, <2>1, <2>3, <2>4, OneStream
<1>6. CASE route[c] = Timelapse
  <2> DEFINE newest == Last(packets[Timelapse]).version
  <2>1. /\ delivered' = [delivered EXCEPT ![c] = newest] /\ packets[Timelapse] # <<>>
        /\ pending' = pending
    BY <1>6 DEF SelectStart
  <2>2. newest \in Nat
    <3>1. packets[Timelapse] \in Seq(PacketType) /\ packets[Timelapse] # <<>>
      BY <1>3, <2>1
    <3>2. Len(packets[Timelapse]) \in 1..Len(packets[Timelapse])
      BY <3>1
    <3> QED
      BY <3>1, <3>2, VersionsOf DEF Last
  <2> HIDE DEF newest
  <2>3. /\ delivered' \in [Clients -> Nat]
        /\ \A d \in Clients \ {c} : delivered'[d] = delivered[d]
    BY <1>3, <2>1, <2>2
  <2>4. StreamOK(c)'
    BY <1>1, <1>2, <1>6, <2>1 DEF StreamOK, NothingYet, Continues, Numbered
  <2> QED
    BY <1>1, <1>3, <2>1, <2>3, <2>4, OneStream
<1> QED
  BY <1>4, <1>5, <1>6 DEF SelectStart

LEMMA WriteStream ==
  ASSUME IInv, StreamInv, NEW c \in Clients, Write(c)
  PROVE  StreamInv'
<1> DEFINE next == pending[c][1]
           before == sent[c]
           after == sent'[c]
           rest == Tail(pending[c])
<1>1. /\ thread[c] = "write" /\ pending[c] # <<>> /\ Head(pending[c]) = next
      /\ UNCHANGED <<otherVars, socket, thread, route>>
  BY DEF Write
<1>2. /\ delivered \in [Clients -> Nat] /\ pending \in [Clients -> Seq(PacketType)]
      /\ sent \in [Clients -> Seq(PacketType)] /\ pending[c] \in Seq(PacketType)
      /\ before \in Seq(PacketType)
  BY DEF StreamInv
<1>3. next \in PacketType /\ next.version \in Nat
  <2>1. 1 \in 1..Len(pending[c])
    BY <1>1, <1>2
  <2> QED
    BY <1>2, <2>1, VersionsOf
<1>4. /\ delivered' \in [Clients -> Nat] /\ delivered'[c] = next.version
      /\ \A d \in Clients \ {c} : delivered'[d] = delivered[d]
  BY <1>1, <1>2, <1>3 DEF Write
<1>5. /\ pending' \in [Clients -> Seq(PacketType)] /\ pending'[c] = rest
      /\ rest \in Seq(PacketType) /\ \A d \in Clients \ {c} : pending'[d] = pending[d]
  BY <1>1, <1>2 DEF Write
<1>6. /\ sent' \in [Clients -> Seq(PacketType)]
      /\ after = IF Skips(c, next) THEN before ELSE Append(before, next)
      /\ \A d \in Clients \ {c} : sent'[d] = sent[d]
  <2>1. sent' = IF Skips(c, next) THEN sent ELSE [sent EXCEPT ![c] = Append(@, next)]
    BY <1>1 DEF Write
  <2>2. Append(before, next) \in Seq(PacketType)
    BY <1>2, <1>3
  <2> QED
    BY <1>2, <2>1, <2>2
<1>7. NothingYet(c)'
  BY <1>1 DEF NothingYet
<1>8. ASSUME route[c] \in Queues
      PROVE  Continues(c)'
  <2>1. /\ Numbered(before) /\ Numbered(pending[c])
        /\ before # <<>> => /\ before[1].key /\ before[Len(before)].version = delivered[c]
                            /\ next.version = delivered[c] + 1
    BY <1>1, <1>8 DEF StreamInv, StreamOK, Continues
  <2>2. /\ rest # <<>> => /\ Numbered(rest) /\ rest[1].version = next.version + 1
        /\ Numbered(rest)
    <3>1. CASE rest = <<>>
      <4>1. Numbered(<<>>)
        BY DEF Numbered
      <4> QED
        BY <3>1, <4>1
    <3>2. CASE rest # <<>>
      <4>1. /\ rest = SubSeq(pending[c], 2, Len(pending[c])) /\ Len(pending[c]) >= 2
            /\ rest[1] = pending[c][2] /\ Len(pending[c]) \in Nat
        BY <1>1, <1>2, <3>2
      <4>2. 2 \in 1..Len(pending[c]) /\ Len(pending[c]) \in 2..Len(pending[c])
        BY <4>1
      <4>3. Numbered(SubSeq(pending[c], 2, Len(pending[c])))
        BY <1>2, <2>1, <4>2, PartOfStretch
      <4>4. pending[c][2].version = next.version + 1
        BY <1>3, <2>1, <4>2 DEF Numbered
      <4> QED
        BY <4>1, <4>3, <4>4
    <3> QED
      BY <3>1, <3>2
  <2>3. Numbered(after) /\ (after # <<>> => after[1].key /\ after[Len(after)].version = next.version)
    <3>1. CASE Skips(c, next)
      <4>1. after = <<>>
        BY <1>6, <3>1 DEF Skips
      <4> QED
        BY <4>1 DEF Numbered
    <3>2. CASE ~Skips(c, next)
      <4>1. after = Append(before, next)
        BY <1>6, <3>2
      <4>2. Numbered(after)
        BY <1>2, <1>3, <2>1, <4>1, LongerStretch
      <4>3. /\ Len(after) = Len(before) + 1 /\ after[Len(after)] = next
            /\ before # <<>> => after[1] = before[1]
            /\ before = <<>> => after[1] = next
        BY <1>2, <4>1
      <4>4. before = <<>> => next.key
        <5>1. CASE route[c] = Video
          BY <1>1, <5>1 DEF StreamInv, StreamOK, KeyFirst
        <5>2. CASE route[c] = Timelapse
          BY <3>2, <5>2 DEF Skips
        <5> QED
          BY <1>8, <5>1, <5>2 DEF Queues
      <4> QED
        BY <2>1, <4>2, <4>3, <4>4
    <3> QED
      BY <3>1, <3>2
  <2> QED
    BY <1>4, <1>5, <2>2, <2>3 DEF Continues
<1>9. ASSUME route[c] = Video
      PROVE  KeyFirst(c)'
  <2>1. after = Append(before, next)
    BY <1>6, <1>9 DEF Skips, Video, Timelapse
  <2>2. Append(before, next) # <<>>
    <3>1. Len(Append(before, next)) = Len(before) + 1 /\ Len(before) \in Nat /\ Len(<<>>) = 0
      BY <1>2, <1>3
    <3> QED
      BY <3>1
  <2> QED
    BY <1>1, <2>1, <2>2 DEF KeyFirst
<1>10. StreamOK(c)'
  BY <1>1, <1>7, <1>8, <1>9 DEF StreamOK
<1> QED
  BY <1>1, <1>4, <1>5, <1>6, <1>10, OneStream

LEMMA AllWrittenStream ==
  ASSUME IInv, StreamInv, NEW c \in Clients, AllWritten(c)
  PROVE  StreamInv'
<1>1. /\ thread[c] = "write" /\ pending[c] = <<>> /\ thread'[c] \in {"check", "leave"}
      /\ \A d \in Clients \ {c} : thread'[d] = thread[d]
      /\ UNCHANGED <<otherVars, socket, route, delivered, pending, sent>>
  BY DEF AllWritten, IInv, TypeOK
<1>2. NothingYet(c)'
  BY <1>1 DEF NothingYet
<1>3. route'[c] \in Queues => Continues(c)'
  BY <1>1 DEF StreamInv, StreamOK, Continues, Numbered
<1>4. route'[c] = Video => KeyFirst(c)'
  BY <1>1 DEF StreamInv, StreamOK, KeyFirst
<1>5. StreamOK(c)'
  BY <1>2, <1>3, <1>4 DEF StreamOK
<1> QED
  BY <1>1, <1>5, OneStream DEF StreamInv

LEMMA TakeNewsStream ==
  ASSUME IInv, StreamInv, NEW c \in Clients, TakeNews(c)
  PROVE  StreamInv'
<1>1. /\ thread[c] = "check" /\ HasNews(c)
      /\ UNCHANGED <<otherVars, socket, route, delivered, sent>>
      /\ route[c] \in {Mjpeg, Still} \cup Queues
  BY DEF TakeNews, IInv, TypeOK
<1>2. /\ delivered \in [Clients -> Nat] /\ pending \in [Clients -> Seq(PacketType)]
      /\ sent \in [Clients -> Seq(PacketType)] /\ frame \in Nat
      /\ \A q \in Queues : packets[q] \in Seq(PacketType) /\ Numbered(packets[q])
  <2>1. load.versions \in Nat /\ frame \in 0..load.versions
    BY ServerAssumption DEF IInv, TypeOK, LoadType
  <2> QED
    BY <2>1 DEF StreamInv, QueueInv
<1>3. CASE route[c] \in Queues /\ Overrun(packets[route[c]], delivered[c])
  BY <1>1, <1>3, MovingOn DEF TakeNews, Ahead
<1>4. CASE ~(route[c] \in Queues /\ Overrun(packets[route[c]], delivered[c]))
  <2> DEFINE news == News(c)
  <2>1. pending' = [pending EXCEPT ![c] = news] /\ thread' = [thread EXCEPT ![c] = "write"]
    BY <1>4 DEF TakeNews
  <2>2. /\ thread'[c] = "write" /\ \A d \in Clients \ {c} : thread'[d] = thread[d]
    BY <2>1 DEF IInv, TypeOK
  <2>3. /\ news \in Seq(PacketType)
        /\ route[c] \in Queues => Numbered(news) /\ news # <<>>
                                   /\ news[1].version = delivered[c] + 1
    <3>1. CASE route[c] = Mjpeg
      <4>1. news = <<[version |-> frame, key |-> TRUE]>>
        BY <3>1 DEF News, Mjpeg, Video, Timelapse
      <4>2. [version |-> frame, key |-> TRUE] \in PacketType
        BY <1>2 DEF PacketType
      <4> QED
        BY <3>1, <4>1, <4>2 DEF Mjpeg, Queues, Video, Timelapse
    <3>2. CASE route[c] \in Queues
      <4> DEFINE queue == packets[route[c]]
                 d == delivered[c]
                 first == FirstNew(queue, d)
      <4>1. queue \in Seq(PacketType) /\ Numbered(queue) /\ d \in Nat
        BY <1>2, <3>2
      <4>2. queue # <<>> /\ queue[Len(queue)].version > d
        BY <1>1, <3>2 DEF HasNews, Last, Mjpeg, Queues, Video, Timelapse
      <4>3. ~Overrun(queue, d)
        BY <1>4, <3>2
      <4> HIDE DEF queue, d
      <4>4. first \in 1..Len(queue) /\ queue[first].version = d + 1
        BY <4>1, <4>2, <4>3, FirstNewFollows
      <4> HIDE DEF first
      <4>5. CASE route[c] = Video
        <5>1. news = <<queue[first]>>
          BY <4>5 DEF News, Mjpeg, Video, Timelapse, queue, d, first
        <5>2. queue[first] \in PacketType
          BY <4>1, <4>4
        <5>3. news \in Seq(PacketType) /\ Len(news) = 1 /\ news[1] = queue[first]
          BY <5>1, <5>2
        <5>4. Numbered(news)
          BY <4>1, <4>4, <5>3 DEF Numbered
        <5> QED
          BY <4>4, <5>1, <5>3, <5>4 DEF d
      <4>6. CASE route[c] = Timelapse
        <5>1. news = SubSeq(queue, first, Len(queue))
          BY <4>6 DEF News, Mjpeg, Video, Timelapse, queue, d, first
        <5>2. Len(queue) \in first..Len(queue)
          BY <4>1, <4>4
        <5>3. /\ news \in Seq(PacketType) /\ Numbered(news) /\ news # <<>>
              /\ news[1] = queue[first]
          BY <4>1, <4>4, <5>1, <5>2, PartOfStretch
        <5> QED
          BY <4>4, <5>3 DEF d
      <4> QED
        BY <3>2, <4>5, <4>6 DEF Queues
    <3>3. CASE route[c] = Still
      BY <1>1, <3>3 DEF HasNews, Still, Mjpeg, Queues, Video, Timelapse
    <3> QED
      BY <1>1, <3>1, <3>2, <3>3
  <2> HIDE DEF news
  <2>4. /\ pending' \in [Clients -> Seq(PacketType)] /\ pending'[c] = news
        /\ \A d \in Clients \ {c} : pending'[d] = pending[d]
    BY <1>2, <2>1, <2>3
  <2>5. NothingYet(c)'
    BY <2>2 DEF NothingYet
  <2>6. route'[c] \in Queues => Continues(c)'
    BY <1>1, <2>3, <2>4 DEF StreamInv, StreamOK, Continues, Numbered
  <2>7. route'[c] = Video => KeyFirst(c)'
    BY <1>1, <2>2 DEF StreamInv, StreamOK, KeyFirst
  <2>8. StreamOK(c)'
    BY <2>5, <2>6, <2>7 DEF StreamOK
  <2> QED
    BY <1>1, <1>2, <2>2, <2>4, <2>8, OneStream
<1> QED
  BY <1>3, <1>4

LEMMA ClientStream ==
  ASSUME IInv, StreamInv, NEW c \in Clients, Client(c)
  PROVE  StreamInv'
<1> USE DEF Ahead
<1>1. CASE Await(c)
  BY <1>1, MovingOn DEF Await
<1>2. CASE Answer(c)
  BY <1>2, MovingOn DEF Answer, Ends
<1>3. CASE \E r \in load.routes : Request(c, r)
  BY <1>3, RequestStream
<1>4. CASE NothingToShow(c)
  BY <1>4, MovingOn DEF NothingToShow, Ends
<1>5. CASE SelectStart(c)
  BY <1>5, SelectStream
<1>6. CASE HeaderFails(c)
  BY <1>6, MovingOn DEF HeaderFails, Ends
<1>7. CASE HeaderSent(c)
  BY <1>7, MovingOn DEF HeaderSent
<1>8. CASE Count(c)
  BY <1>8, MovingOn DEF Count
<1>9. CASE Write(c)
  BY <1>9, WriteStream
<1>10. CASE WriteFails(c)
  BY <1>10, MovingOn DEF WriteFails
<1>11. CASE AllWritten(c)
  BY <1>11, AllWrittenStream
<1>12. CASE TakeNews(c)
  BY <1>12, TakeNewsStream
<1>13. CASE NoticeStop(c)
  BY <1>13, MovingOn DEF NoticeStop
<1>14. CASE NothingNew(c)
  BY <1>14, MovingOn DEF NothingNew
<1>15. CASE FallAsleep(c)
  BY <1>15, MovingOn DEF FallAsleep
<1>16. CASE Leave(c)
  BY <1>16, MovingOn DEF Leave, Ends
<1>17. CASE AskForStill(c)
  BY <1>17, MovingOn DEF AskForStill
<1>18. CASE SendStill(c)
  BY <1>18, MovingOn DEF SendStill, Ends
<1> QED
  BY <1>1, <1>2, <1>3, <1>4, <1>5, <1>6, <1>7, <1>8, <1>9, <1>10, <1>11, <1>12, <1>13, <1>14,
     <1>15, <1>16, <1>17, <1>18 DEF Client

-----------------------------------------------------------------------------
(* The other threads touch no stream: they start a thread, wake one, or    *)
(* publish.                                                                *)
LEMMA OtherThreads ==
  ASSUME StreamInv, UNCHANGED <<route, delivered, pending, sent>>,
         \A c \in Clients : Ahead(thread[c], thread'[c]), QueueInv', FreshInv'
  PROVE  StreamInv'
BY StreamStays DEF StreamInv

LEMMA QueuesStay ==
  ASSUME QueueInv, packets' = packets
  PROVE  QueueInv'
BY DEF QueueInv, Numbered

LEMMA AcceptorStream ==
  ASSUME IInv, StreamInv, Acceptor
  PROVE  StreamInv'
<1>1. /\ \A c \in Clients : socket[c] = "none" => thread[c] = "none"
      /\ acceptor = "accepted" => thread[incoming] = "none"
      /\ socket \in [Clients -> {"none", "open", "shut", "closed"}] /\ QueueInv
      /\ incoming \in Clients \cup {NoClient}
  BY DEF StreamInv, FreshInv, IInv, TypeOK
<1>2. ASSUME NEW c \in Clients, Accept(c)
      PROVE  StreamInv'
  <2>1. /\ socket[c] = "none" /\ incoming' = c /\ socket' = [socket EXCEPT ![c] = "open"]
        /\ thread' = thread /\ packets' = packets /\ UNCHANGED <<route, delivered, pending, sent>>
    BY <1>2 DEF Accept, publishVars, clientVars
  <2>2. FreshInv'
    BY <1>1, <2>1 DEF FreshInv
  <2> QED
    BY <1>1, <2>1, <2>2, QueuesStay, OtherThreads DEF Ahead
<1>3. CASE AcceptFails
  <2>1. /\ acceptor' = "exited" /\ UNCHANGED <<socket, thread>>
        /\ packets' = packets /\ UNCHANGED <<route, delivered, pending, sent>>
    BY <1>3 DEF AcceptFails, publishVars, clientVars
  <2>2. FreshInv'
    BY <1>1, <2>1 DEF FreshInv
  <2> QED
    BY <1>1, <2>1, <2>2, QueuesStay, OtherThreads DEF Ahead
<1>4. CASE Register
  <2>1. /\ acceptor = "accepted" /\ acceptor' \in {"accepting", "exited"}
        /\ thread' = IF HasRoom THEN [thread EXCEPT ![incoming] = "request"] ELSE thread
        /\ \A c \in Clients : socket'[c] \in {socket[c], "closed"}
        /\ packets' = packets /\ UNCHANGED <<route, delivered, pending, sent>>
    BY <1>4 DEF Register, publishVars
  <2>2. incoming \in Clients /\ thread[incoming] = "none" /\ socket[incoming] = "open"
    BY <1>1, <2>1 DEF IInv, TableOK
  <2>3. \A c \in Clients : thread'[c] = thread[c] \/ (c = incoming /\ thread'[c] = "request")
    BY <2>1 DEF IInv, TypeOK
  <2>4. \A c \in Clients : Ahead(thread[c], thread'[c])
    BY <2>2, <2>3 DEF Ahead
  <2>5. FreshInv'
    BY <1>1, <2>1, <2>2, <2>3 DEF FreshInv
  <2> QED
    BY <1>1, <2>1, <2>4, <2>5, QueuesStay, OtherThreads
<1> QED
  BY <1>2, <1>3, <1>4 DEF Acceptor

LEMMA Wakes ==
  ASSUME IInv, StreamInv, thread' = Awakened, UNCHANGED <<socket, acceptor, incoming>>
  PROVE  FreshInv' /\ \A c \in Clients : Ahead(thread[c], thread'[c])
<1>1. \A c \in Clients : \/ thread'[c] = thread[c]
                         \/ thread[c] = "asleep" /\ thread'[c] = "check"
  BY DEF Awakened
<1>2. acceptor = "accepted" => incoming \in Clients
  BY DEF IInv, TableOK
<1> QED
  BY <1>1, <1>2 DEF StreamInv, FreshInv, Ahead

LEMMA PublisherStream ==
  ASSUME IInv, StreamInv, Publisher
  PROVE  StreamInv'
<1>1. QueueInv /\ FreshInv
  BY DEF StreamInv
<1>2. CASE PublishFrame
  <2>1. UNCHANGED <<socket, thread, acceptor, incoming, packets, route, delivered, pending, sent>>
    BY <1>2 DEF PublishFrame, acceptVars, clientVars
  <2>2. FreshInv'
    BY <1>1, <2>1 DEF FreshInv
  <2> QED
    BY <1>1, <2>1, <2>2, QueuesStay, OtherThreads DEF Ahead
<1>3. ASSUME NEW q \in Queues, NEW key \in BOOLEAN, NEW kept \in 1..Window,
             PublishPacket(q, key, kept)
      PROVE  StreamInv'
  <2> DEFINE packet == [version |-> NextVersion(q), key |-> key]
             queue == Append(packets[q], packet)
             cut == SubSeq(queue, Len(queue) - kept + 1, Len(queue))
  <2>1. /\ UNCHANGED <<socket, thread, acceptor, incoming, route, delivered, pending, sent>>
        /\ kept <= Len(queue) /\ packets' = [packets EXCEPT ![q] = cut]
    BY <1>3 DEF PublishPacket, acceptVars, clientVars
  <2>2. /\ packets \in [Queues -> Seq(PacketType)]
        /\ packets[q] \in Seq(PacketType) /\ Numbered(packets[q])
    BY <1>1 DEF QueueInv
  <2>3. packet \in PacketType /\ (packets[q] # <<>> =>
                                   packet.version = packets[q][Len(packets[q])].version + 1)
    <3>1. CASE packets[q] = <<>>
      BY <3>1 DEF NextVersion, PacketType
    <3>2. CASE packets[q] # <<>>
      <4>1. Len(packets[q]) \in 1..Len(packets[q])
        BY <2>2, <3>2
      <4>2. packets[q][Len(packets[q])].version \in Nat
        BY <2>2, <4>1, VersionsOf
      <4> QED
        BY <3>2, <4>2 DEF NextVersion, PacketType, Last
    <3> QED
      BY <3>1, <3>2
  <2> HIDE DEF packet
  <2>4. queue \in Seq(PacketType) /\ Numbered(queue)
    BY <2>2, <2>3, LongerStretch
  <2> HIDE DEF queue
  <2>5. /\ Len(queue) - kept + 1 \in 1..Len(queue)
        /\ Len(queue) \in (Len(queue) - kept + 1)..Len(queue)
    <3>1. Len(queue) \in Nat /\ kept \in Nat /\ kept >= 1 /\ kept <= Len(queue)
      BY <2>1, <2>4, ServerAssumption
    <3> QED
      BY <3>1
  <2>6. cut \in Seq(PacketType) /\ Numbered(cut)
    BY <2>4, <2>5, PartOfStretch
  <2> HIDE DEF cut
  <2>7. QueueInv'
    <3>1. /\ packets' \in [Queues -> Seq(PacketType)] /\ packets'[q] = cut
          /\ \A r \in Queues \ {q} : packets'[r] = packets[r]
      BY <2>1, <2>2, <2>6
    <3> QED
      BY <1>1, <2>6, <3>1 DEF QueueInv, Numbered
  <2>8. FreshInv'
    BY <1>1, <2>1 DEF FreshInv
  <2> QED
    BY <2>1, <2>7, <2>8, OtherThreads DEF Ahead
<1>4. CASE Notify
  <2>1. /\ thread' = Awakened
        /\ UNCHANGED <<socket, acceptor, incoming, packets, route, delivered, pending, sent>>
    BY <1>4 DEF Notify, acceptVars
  <2> QED
    BY <1>1, <2>1, Wakes, QueuesStay, OtherThreads
<1> QED
  BY <1>2, <1>3, <1>4 DEF Publisher

LEMMA StopperStream ==
  ASSUME IInv, StreamInv, ClearRunning \/ Stopper
  PROVE  StreamInv'
<1>1. QueueInv /\ FreshInv
  BY DEF StreamInv
<1>2. UNCHANGED <<packets, route, delivered, pending, sent, acceptor, incoming>>
  BY DEF ClearRunning, Stopper, NotifyStop, CloseListener, CloseClientSockets, JoinAcceptor,
         JoinClients, acceptVars, publishVars, clientVars
<1>3. CASE NotifyStop
  <2>1. thread' = Awakened /\ socket' = socket
    BY <1>3 DEF NotifyStop
  <2> QED
    BY <1>1, <1>2, <2>1, Wakes, QueuesStay, OtherThreads
<1>4. CASE ClearRunning \/ CloseListener \/ CloseClientSockets \/ JoinAcceptor \/ JoinClients
  <2>1. /\ thread' = thread
        /\ \A c \in Clients : socket'[c] \in {socket[c], "shut", "closed"}
    BY <1>4 DEF ClearRunning, CloseListener, CloseClientSockets, JoinAcceptor, JoinClients,
                clientVars
  <2>2. FreshInv'
    BY <1>1, <1>2, <2>1 DEF FreshInv
  <2> QED
    BY <1>1, <1>2, <2>1, <2>2, QueuesStay, OtherThreads DEF Ahead
<1> QED
  BY <1>3, <1>4 DEF Stopper

LEMMA InitStream == Init => StreamInv
<1> SUFFICES ASSUME Init PROVE StreamInv
  OBVIOUS
<1>1. /\ delivered \in [Clients -> Nat] /\ pending \in [Clients -> Seq(PacketType)]
      /\ sent \in [Clients -> Seq(PacketType)]
  BY DEF Init
<1>2. QueueInv
  BY DEF Init, QueueInv, Numbered
<1>3. FreshInv
  BY DEF Init, FreshInv
<1>4. \A c \in Clients : StreamOK(c)
  BY DEF Init, StreamOK, NothingYet, Continues, KeyFirst, Still, Video, Timelapse, Queues
<1> QED
  BY <1>1, <1>2, <1>3, <1>4 DEF StreamInv

(* Whatever is published while a client is slow, and however its queue is  *)
(* cut, an MP4 stream begins with a keyframe and has no gap after it.      *)
THEOREM StreamsStayDecodable == Spec => []StreamsAreDecodable
<1>1. StreamInv => StreamsAreDecodable
  <2> SUFFICES ASSUME StreamInv, NEW c \in Clients, route[c] \in Queues, sent[c] # <<>>
               PROVE  /\ sent[c][1].key
                      /\ \A i \in 2..Len(sent[c]) :
                           sent[c][i].version = sent[c][i - 1].version + 1
    BY DEF StreamsAreDecodable
  <2>1. Numbered(sent[c]) /\ sent[c][1].key /\ sent[c] \in Seq(PacketType)
    BY DEF StreamInv, StreamOK, Continues
  <2>2. ASSUME NEW i \in 2..Len(sent[c])
        PROVE  sent[c][i].version = sent[c][i - 1].version + 1
    <3>1. i \in 1..Len(sent[c]) /\ i - 1 \in 1..Len(sent[c]) /\ 1 \in 1..Len(sent[c])
      BY <2>1, <2>2
    <3>2. /\ sent[c][i].version = sent[c][1].version + (i - 1)
          /\ sent[c][i - 1].version = sent[c][1].version + (i - 1 - 1)
      BY <2>1, <3>1 DEF Numbered
    <3>3. sent[c][1].version \in Nat
      BY <2>1, <3>1, VersionsOf
    <3> QED
      BY <3>1, <3>2, <3>3
  <2> QED
    BY <2>1, <2>2
<1>2. IInv /\ StreamInv /\ [Next]_vars => StreamInv'
  <2> SUFFICES ASSUME IInv, StreamInv, [Next]_vars
               PROVE  StreamInv'
    OBVIOUS
  <2>1. CASE UNCHANGED vars
    <3>1. /\ UNCHANGED <<packets, socket, acceptor, incoming, thread>>
          /\ UNCHANGED <<route, delivered, pending, sent>>
      BY <2>1 DEF vars, acceptVars, publishVars, clientVars
    <3>2. QueueInv' /\ FreshInv'
      BY <3>1, QueuesStay DEF StreamInv, FreshInv
    <3> QED
      BY <3>1, <3>2, OtherThreads DEF Ahead
  <2> QED
    BY <2>1, AcceptorStream, PublisherStream, ClientStream, StopperStream DEF Next
<1> QED
  BY <1>1, <1>2, InitStream, Inductive, PTL DEF Spec
=============================================================================
