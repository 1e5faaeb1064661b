------------------------- MODULE PatchServer_proofs -------------------------
(***************************************************************************)
(* Proofs about the patch server, for every number of ports, queued        *)
(* datagrams and connections, size of file and number of faults.           *)
(***************************************************************************)
EXTENDS PatchServer, TLAPS

USE PortsAssumption, BoundsAssumption

(***************************************************************************)
(* What the loop relies on between two calls: a connection to accept, a    *)
(* query to read, a file that is not sent past its end.                    *)
(***************************************************************************)
Announced == /\ pc = "accept" => webq # <<>>
             /\ pc = "select" => isset = "no"
             /\ pc = "open" => sent = 0
             /\ pc = "send" => sent <= fs

Base == TypeOK /\ QueryIsThere /\ Announced

(***************************************************************************)
(* A longer queue.                                                         *)
(***************************************************************************)
LEMMA Longer ==
    ASSUME NEW S, NEW q \in Seq(S), NEW x \in S, NEW n \in Nat, Len(q) < n
    PROVE  /\ Append(q, x) \in Seq(S) /\ Len(Append(q, x)) <= n
           /\ Append(q, x) # <<>>
  OBVIOUS

(***************************************************************************)
(* A queue without its head.                                               *)
(***************************************************************************)
LEMMA Shorter ==
    ASSUME NEW S, NEW q \in Seq(S), q # <<>>, NEW n \in Nat, Len(q) <= n
    PROVE  /\ Head(q) \in S /\ Tail(q) \in Seq(S) /\ Len(Tail(q)) <= n
           /\ Len(Tail(q)) = Len(q) - 1
           /\ \A i \in 1 .. Len(Tail(q)) : Tail(q)[i] = q[i + 1]
  OBVIOUS

(***************************************************************************)
(* The connections that wait when the radio has hung up.                   *)
(***************************************************************************)
LEMMA HungUp ==
    ASSUME webq \in Seq(Clients), Len(webq) <= Backlog,
           webq' = [i \in 1 .. Len(webq) |-> IF webq[i] = "radio" THEN "gone" ELSE webq[i]]
    PROVE  /\ webq' \in Seq(Clients) /\ Len(webq') = Len(webq)
           /\ webq # <<>> => webq' # <<>>
           /\ \A i \in 1 .. Len(webq') : webq'[i] # "radio"
<1>1. \A i \in 1 .. Len(webq) : webq'[i] \in Clients /\ webq'[i] # "radio"
  BY DEF Clients
<1>2. webq' \in Seq(Clients) /\ Len(webq') = Len(webq)
  BY <1>1
<1> QED
  BY <1>1, <1>2

(***************************************************************************)
(* The inductive invariant of the server's loop.                           *)
(***************************************************************************)
LEMMA BaseInvariant == Spec => []Base
<1>1. Init => Base
  BY DEF Init, Base, TypeOK, QueryIsThere, Announced, NoImage, Names, Clients
<1>2. Base /\ [Next]_vars => Base'
  <2> SUFFICES ASSUME Base, [Next]_vars PROVE Base'
    OBVIOUS
  <2> USE DEF Base, TypeOK, QueryIsThere, Announced, net, server, transfer, radio, world
  <2>1. CASE Select
    BY <2>1 DEF Select
  <2>2. CASE Tick
    BY <2>2 DEF Tick, Down
  <2>3. CASE SelectFails
    BY <2>3 DEF SelectFails, Down
  <2>4. CASE Accept
    BY <2>4, Shorter DEF Accept, Clients
  <2>5. CASE AcceptFails
    <3>1. webq' \in Seq(Clients) /\ Len(webq') <= Backlog
      BY <2>5, Shorter DEF AcceptFails
    <3>2. QueryIsThere' /\ Announced'
      BY <2>5 DEF AcceptFails, CloseConn
    <3>3. TypeOK'
      BY <2>5, <3>1 DEF AcceptFails, Fault, CloseConn
    <3> QED
      BY <3>2, <3>3
  <2>6. CASE ScanNothing
    BY <2>6 DEF ScanNothing, CloseConn
  <2>7. CASE SendInfo
    BY <2>7 DEF SendInfo, CloseConn
  <2>8. CASE NoFile
    BY <2>8 DEF NoFile, CloseConn
  <2>9. CASE MeasureFile
    BY <2>9 DEF MeasureFile, NoImage
  <2>10. CASE OpenFile
    BY <2>10 DEF OpenFile
  <2>11. CASE SendBlock
    BY <2>11 DEF SendBlock
  <2>12. CASE SendEnds
    BY <2>12 DEF SendEnds, CloseConn
  <2>13. CASE BrokenPipe
    BY <2>13 DEF BrokenPipe, Down
  <2>14. CASE Forge
    BY <2>14, Shorter DEF Forge, NextQuery, ToRadio, DnsDone, Forged, Answers, Names
  <2>15. CASE \E p \in Ports : Relay(p)
    BY <2>15, Shorter DEF Relay, NextQuery
  <2>16. CASE RelayAnswer
    BY <2>16 DEF RelayAnswer, ToRadio, DnsDone, Answers
  <2>17. CASE RelayRecvFails
    BY <2>17 DEF RelayRecvFails, Fault, DnsDone
  <2>18. CASE RelayTimeout
    BY <2>18 DEF RelayTimeout, Fault, DnsDone
  <2>19. CASE RelaySocketFails
    BY <2>19, Shorter DEF RelaySocketFails, NextQuery, Fault, DnsDone
  <2>20. CASE DnsRecvFails
    BY <2>20 DEF DnsRecvFails, Fault, DnsDone
  <2>21. CASE ReopenListener
    BY <2>21 DEF ReopenListener, Fault, DnsDone
  <2>22. CASE ReopenFails
    BY <2>22 DEF ReopenFails, Fault, Down
  <2>23. CASE RadioAsks
    BY <2>23, Longer DEF RadioAsks, Ask, Wanted, Names
  <2>24. CASE StationAsks
    BY <2>24, Longer DEF StationAsks, Ask, Names
  <2>25. CASE \E a \in inbox : RadioHears(a)
    BY <2>25 DEF RadioHears, Answers
  <2>26. CASE RadioConnects
    BY <2>26, Longer DEF RadioConnects, Clients, NoImage
  <2>27. CASE RadioElsewhere
    BY <2>27 DEF RadioElsewhere
  <2>28. CASE RadioFinishes
    BY <2>28 DEF RadioFinishes, Clients
  <2>29. CASE RadioRestarts
    BY <2>29 DEF RadioRestarts, NoImage
  <2>30. CASE RadioHangsUp
    BY <2>30, HungUp DEF RadioHangsUp, Fault, Clients, NoImage
  <2>31. CASE BrowserConnects
    BY <2>31, Longer DEF BrowserConnects, Fault, Clients
  <2>32. CASE BrowserHangsUp
    BY <2>32 DEF BrowserHangsUp, Clients
  <2>33. CASE \E a \in inbox : LoseAnswer(a)
    BY <2>33 DEF LoseAnswer, Fault
  <2>34. CASE \E a \in dnsnet : LoseRelayed(a) \/ LateAnswer(a)
    <3>1. PICK a \in dnsnet : LoseRelayed(a) \/ LateAnswer(a)
      BY <2>34
    <3>2. CASE LoseRelayed(a)
      BY <3>2 DEF LoseRelayed, Fault
    <3>3. CASE LateAnswer(a)
      BY <3>3 DEF LateAnswer
    <3> QED
      BY <3>1, <3>2, <3>3
  <2>35. CASE ReplaceFile
    BY <2>35 DEF ReplaceFile, Fault
  <2>36. CASE PressEnter
    BY <2>36 DEF PressEnter
  <2>50. CASE UNCHANGED vars
    BY <2>50 DEF vars
  <2> QED
    BY <2>1, <2>2, <2>3, <2>4, <2>5, <2>6, <2>7, <2>8, <2>9, <2>10, <2>11, <2>12, <2>13, <2>14, <2>15, <2>16, <2>17, <2>18, <2>19, <2>20, <2>21, <2>22, <2>23, <2>24, <2>25, <2>26, <2>27, <2>28, <2>29, <2>30, <2>31, <2>32, <2>33, <2>34, <2>35, <2>36, <2>50 DEF Next, Server, Web, Dns, Failure, Radio, World
<1> QED
  BY <1>1, <1>2, PTL DEF Spec

(***************************************************************************)
(* The server is well formed whatever its clients do.                      *)
(***************************************************************************)
THEOREM TypeCorrect == Spec => []TypeOK
  BY BaseInvariant, PTL DEF Base

(***************************************************************************)
(* recvfrom on the DNS listener never blocks the loop.                     *)
(***************************************************************************)
THEOREM AnnouncedQueriesStay == Spec => []QueryIsThere
  BY BaseInvariant, PTL DEF Base

(***************************************************************************)
(* Why the radio is never misdirected: each answer on its way to it tells  *)
(* the truth about its own name, and forged names are not relayed.  Which  *)
(* query an answer is sent on for does not matter.                         *)
(***************************************************************************)
Truthful == /\ \A a \in inbox : a.addr = IF a.name \in Forged THEN "here" ELSE "real"
            /\ \A q \in dnsnet : q.name \notin Forged

(***************************************************************************)
(* The radio goes where the patch server means it to go.                   *)
(***************************************************************************)
THEOREM RadioAlwaysDirected == Spec => []RadioDirected
<1>1. Init => Truthful /\ RadioDirected
  BY DEF Init, Truthful, RadioDirected
<1>2. Base /\ Truthful /\ RadioDirected /\ [Next]_vars => (Truthful /\ RadioDirected)'
  <2> SUFFICES ASSUME Base, Truthful, RadioDirected, [Next]_vars
               PROVE  (Truthful /\ RadioDirected)'
    OBVIOUS
  <2> USE DEF Base, TypeOK, Truthful, RadioDirected, net, server, transfer, radio, world,
              Wanted, Forged
  <2>1. CASE Select
    BY <2>1 DEF Select
  <2>2. CASE Tick
    BY <2>2 DEF Tick, Down
  <2>3. CASE SelectFails
    BY <2>3 DEF SelectFails, Down
  <2>4. CASE Accept
    BY <2>4 DEF Accept, Clients
  <2>5. CASE AcceptFails
    BY <2>5 DEF AcceptFails, Fault, CloseConn
  <2>6. CASE ScanNothing
    BY <2>6 DEF ScanNothing, CloseConn
  <2>7. CASE SendInfo
    BY <2>7 DEF SendInfo, CloseConn
  <2>8. CASE NoFile
    BY <2>8 DEF NoFile, CloseConn
  <2>9. CASE MeasureFile
    BY <2>9 DEF MeasureFile, NoImage
  <2>10. CASE OpenFile
    BY <2>10 DEF OpenFile
  <2>11. CASE SendBlock
    BY <2>11 DEF SendBlock
  <2>12. CASE SendEnds
    BY <2>12 DEF SendEnds, CloseConn
  <2>13. CASE BrokenPipe
    BY <2>13 DEF BrokenPipe, Down
  <2>14. CASE Forge
    BY <2>14 DEF Forge, NextQuery, ToRadio, DnsDone, Forged, Answers, Names
  <2>15. CASE \E p \in Ports : Relay(p)
    BY <2>15 DEF Relay, NextQuery
  <2>16. CASE RelayAnswer
    BY <2>16 DEF RelayAnswer, ToRadio, DnsDone, Answers
  <2>17. CASE RelayRecvFails
    BY <2>17 DEF RelayRecvFails, Fault, DnsDone
  <2>18. CASE RelayTimeout
    BY <2>18 DEF RelayTimeout, Fault, DnsDone
  <2>19. CASE RelaySocketFails
    BY <2>19 DEF RelaySocketFails, NextQuery, Fault, DnsDone
  <2>20. CASE DnsRecvFails
    BY <2>20 DEF DnsRecvFails, Fault, DnsDone
  <2>21. CASE ReopenListener
    BY <2>21 DEF ReopenListener, Fault, DnsDone
  <2>22. CASE ReopenFails
    BY <2>22 DEF ReopenFails, Fault, Down
  <2>23. CASE RadioAsks
    BY <2>23 DEF RadioAsks, Ask, Wanted, Names
  <2>24. CASE StationAsks
    BY <2>24 DEF StationAsks, Ask, Names
  <2>25. CASE \E a \in inbox : RadioHears(a)
    BY <2>25 DEF RadioHears, Answers
  <2>26. CASE RadioConnects
    BY <2>26 DEF RadioConnects, Clients, NoImage
  <2>27. CASE RadioElsewhere
    BY <2>27 DEF RadioElsewhere
  <2>28. CASE RadioFinishes
    BY <2>28 DEF RadioFinishes, Clients
  <2>29. CASE RadioRestarts
    BY <2>29 DEF RadioRestarts, NoImage
  <2>30. CASE RadioHangsUp
    BY <2>30 DEF RadioHangsUp, Fault, Clients, NoImage
  <2>31. CASE BrowserConnects
    BY <2>31 DEF BrowserConnects, Fault, Clients
  <2>32. CASE BrowserHangsUp
    BY <2>32 DEF BrowserHangsUp, Clients
  <2>33. CASE \E a \in inbox : LoseAnswer(a)
    BY <2>33 DEF LoseAnswer, Fault
  <2>34. CASE \E a \in dnsnet : LoseRelayed(a) \/ LateAnswer(a)
    BY <2>34 DEF LoseRelayed, LateAnswer
  <2>35. CASE ReplaceFile
    BY <2>35 DEF ReplaceFile, Fault
  <2>36. CASE PressEnter
    BY <2>36 DEF PressEnter
  <2>50. CASE UNCHANGED vars
    BY <2>50 DEF vars
  <2> QED
    BY <2>1, <2>2, <2>3, <2>4, <2>5, <2>6, <2>7, <2>8, <2>9, <2>10, <2>11, <2>12, <2>13, <2>14, <2>15, <2>16, <2>17, <2>18, <2>19, <2>20, <2>21, <2>22, <2>23, <2>24, <2>25, <2>26, <2>27, <2>28, <2>29, <2>30, <2>31, <2>32, <2>33, <2>34, <2>35, <2>36, <2>50
    DEF Next, Server, Web, Dns, Failure, Radio, World
<1> QED
  BY <1>1, <1>2, BaseInvariant, PTL DEF Spec

(***************************************************************************)
(* The radio has one connection at a time, waiting or accepted; what it    *)
(* has downloaded came over that one, and is measured by its header.       *)
(***************************************************************************)
InQueue(i) == i \in 1 .. Len(webq) /\ webq[i] = "radio"
OneConnection ==
    /\ conn # "none" => pc \in {"scan", "open", "send"}
    /\ conn = "radio" => /\ stage \in {"conn1", "conn2"} /\ \A i : ~InQueue(i)
                        /\ (pc \in {"open", "send"} => stage = "conn2")
    /\ \A i : InQueue(i) => stage \in {"conn1", "conn2"} /\ image = NoImage
    /\ \A i, j : InQueue(i) /\ InQueue(j) => i = j
    /\ stage \notin {"conn2", "done"} => image = NoImage
    /\ len = counted /\ image.len = image.counted
    /\ stage = "done" => image.blocks = image.len

(***************************************************************************)
(* What the radio takes for complete is the whole file, unless the file    *)
(* was replaced while it was being served.                                 *)
(***************************************************************************)
THEOREM DownloadsWhole == Spec => []ImageWhole
<1>1. Init => OneConnection
  BY DEF Init, OneConnection, InQueue, NoImage
<1>2. Base /\ OneConnection /\ [Next]_vars => OneConnection'
  <2> SUFFICES ASSUME Base, OneConnection, [Next]_vars PROVE OneConnection'
    OBVIOUS
  <2> USE DEF Base, TypeOK, Announced, OneConnection, InQueue, NoImage,
              net, server, transfer, radio, world
  <2>1. CASE Select
    BY <2>1 DEF Select
  <2>2. CASE Tick
    BY <2>2 DEF Tick, Down
  <2>3. CASE SelectFails
    BY <2>3 DEF SelectFails, Down
  <2>4. CASE Accept
    <3>1. /\ conn' = webq[1] /\ Len(webq') = Len(webq) - 1
          /\ \A i \in 1 .. Len(webq') : webq'[i] = webq[i + 1]
      BY <2>4, Shorter DEF Accept
    <3>2. \A i : InQueue(i)' => i \in Int /\ i > 0 /\ InQueue(i + 1)
      BY <3>1
    <3>3. conn' = "radio" => InQueue(1)
      BY <2>4, <3>1 DEF Accept
    <3>0. \A i, j : InQueue(i) /\ InQueue(j) => i = j
      OBVIOUS
    <3>4. conn' = "radio" => \A i : ~InQueue(i)'
      <4> HIDE DEF InQueue
      <4> QED
        BY <3>0, <3>2, <3>3
    <3>5. \A i, j : InQueue(i)' /\ InQueue(j)' => i = j
      <4> HIDE DEF InQueue
      <4> SUFFICES ASSUME NEW i, NEW j, InQueue(i)', InQueue(j)' PROVE i = j
        OBVIOUS
      <4>1. i + 1 = j + 1 /\ i \in Int /\ j \in Int
        BY <3>0, <3>2
      <4> QED
        BY <4>1
    <3> QED
      BY <2>4, <3>2, <3>3, <3>4, <3>5 DEF Accept
  <2>5. CASE AcceptFails
    <3>1. /\ Len(webq') = Len(webq) - 1
          /\ \A i \in 1 .. Len(webq') : webq'[i] = webq[i + 1]
      BY <2>5, Shorter DEF AcceptFails
    <3> QED
      BY <2>5, <3>1 DEF AcceptFails, CloseConn
  <2>6. CASE ScanNothing
    BY <2>6 DEF ScanNothing, CloseConn
  <2>7. CASE SendInfo
    BY <2>7 DEF SendInfo, CloseConn
  <2>8. CASE NoFile
    BY <2>8 DEF NoFile, CloseConn
  <2>9. CASE MeasureFile
    BY <2>9 DEF MeasureFile, NoImage
  <2>10. CASE OpenFile
    BY <2>10 DEF OpenFile
  <2>11. CASE SendBlock
    BY <2>11 DEF SendBlock
  <2>12. CASE SendEnds
    BY <2>12 DEF SendEnds, CloseConn
  <2>13. CASE BrokenPipe
    BY <2>13 DEF BrokenPipe, Down
  <2>14. CASE Forge
    BY <2>14 DEF Forge, DnsDone
  <2>15. CASE \E p \in Ports : Relay(p)
    BY <2>15 DEF Relay
  <2>16. CASE RelayAnswer
    BY <2>16 DEF RelayAnswer, DnsDone
  <2>17. CASE RelayRecvFails
    BY <2>17 DEF RelayRecvFails, DnsDone
  <2>18. CASE RelayTimeout
    BY <2>18 DEF RelayTimeout, DnsDone
  <2>19. CASE RelaySocketFails
    BY <2>19 DEF RelaySocketFails, DnsDone
  <2>20. CASE DnsRecvFails
    BY <2>20 DEF DnsRecvFails, Fault, DnsDone
  <2>21. CASE ReopenListener
    BY <2>21 DEF ReopenListener, Fault, DnsDone
  <2>22. CASE ReopenFails
    BY <2>22 DEF ReopenFails, Fault, Down
  <2>23. CASE RadioAsks
    BY <2>23 DEF RadioAsks, Ask
  <2>24. CASE StationAsks
    BY <2>24 DEF StationAsks, Ask
  <2>25. CASE \E a \in inbox : RadioHears(a)
    BY <2>25 DEF RadioHears
  <2>26. CASE RadioConnects
    <3>1. /\ Len(webq') = Len(webq) + 1 /\ webq'[Len(webq')] = "radio"
          /\ \A i \in 1 .. Len(webq) : webq'[i] = webq[i]
      BY <2>26 DEF RadioConnects
    <3> QED
      BY <2>26, <3>1 DEF RadioConnects
  <2>27. CASE RadioElsewhere
    BY <2>27 DEF RadioElsewhere
  <2>28. CASE RadioFinishes
    BY <2>28 DEF RadioFinishes, Downloaded
  <2>29. CASE RadioRestarts
    BY <2>29 DEF RadioRestarts, Connected
  <2>30. CASE RadioHangsUp
    <3>1. Len(webq') = Len(webq) /\ \A i \in 1 .. Len(webq') : webq'[i] /= "radio"
      BY <2>30, HungUp DEF RadioHangsUp
    <3> QED
      BY <2>30, <3>1 DEF RadioHangsUp
  <2>31. CASE BrowserConnects
    <3>1. /\ Len(webq') = Len(webq) + 1 /\ webq'[Len(webq')] = "browser"
          /\ \A i \in 1 .. Len(webq) : webq'[i] = webq[i]
      BY <2>31 DEF BrowserConnects
    <3> QED
      BY <2>31, <3>1 DEF BrowserConnects
  <2>32. CASE BrowserHangsUp
    BY <2>32 DEF BrowserHangsUp, Clients
  <2>33. CASE \E a \in inbox : LoseAnswer(a)
    BY <2>33 DEF LoseAnswer
  <2>34. CASE \E a \in dnsnet : LoseRelayed(a) \/ LateAnswer(a)
    BY <2>34 DEF LoseRelayed, LateAnswer
  <2>35. CASE ReplaceFile
    BY <2>35 DEF ReplaceFile
  <2>36. CASE PressEnter
    BY <2>36 DEF PressEnter
  <2>50. CASE UNCHANGED vars
    BY <2>50 DEF vars
  <2> QED
    BY <2>1, <2>2, <2>3, <2>4, <2>5, <2>6, <2>7, <2>8, <2>9, <2>10, <2>11, <2>12, <2>13, <2>14, <2>15, <2>16, <2>17, <2>18, <2>19, <2>20, <2>21, <2>22, <2>23, <2>24, <2>25, <2>26, <2>27, <2>28, <2>29, <2>30, <2>31, <2>32, <2>33, <2>34, <2>35, <2>36, <2>50
    DEF Next, Server, Web, Dns, Failure, Radio, World
<1>3. OneConnection => ImageWhole
  BY DEF OneConnection, ImageWhole
<1> QED
  BY <1>1, <1>2, <1>3, BaseInvariant, PTL DEF Spec
=============================================================================
