---------------------------- MODULE Keys_proofs -----------------------------
(***************************************************************************)
(* Proofs about the two sources of keys: the keyboard substitute           *)
(* (KeyDevel), for every set of keys, and the keys of the radio            *)
(* (KeyReciva), for any number of devices and events.                      *)
(***************************************************************************)
EXTENDS KeyDevel, KeyReciva, WellFoundedInduction, SequenceTheorems, FiniteSetTheorems,
        TLAPS

USE KeysAssumption

(***************************************************************************)
(* What the queue holds: nothing, one release, or the three events that    *)
(* follow the shift of a digit; and which keys are down at each of them.   *)
(***************************************************************************)
Following(k) ==
    /\ typed = k + 5
    /\ qk[0] = Press(k) /\ qk[1] = Release(k) /\ qk[2] = Release(SHIFT)
    /\ SHIFT \in down
    /\ down \subseteq held \cup {SHIFT} \cup (IF queuepos = 1 THEN {k} ELSE {})
    /\ decoded = IF queuepos = 0 THEN 0 ELSE typed

Shape == /\ queuesize \in {0, 1, 3}
         /\ queuesize = 0 => down \subseteq held
         /\ queuesize = 1 => /\ qk[0].state = "RELEASED" /\ qk[0].id # SHIFT
                             /\ down \subseteq held \cup {qk[0].id}
         /\ queuesize = 3 => \E k \in Digits : Following(k)

Base == TypeOK /\ Shape /\ DigitAsTyped

(***************************************************************************)
(* The inductive invariant.                                                *)
(***************************************************************************)
LEMMA BaseInvariant == Spec => []Base
<1>1. Init => Base
  BY DEF Init, Base, TypeOK, Shape, DigitAsTyped, Events, Keys, Digits, Release, SHIFT
<1>2. Base /\ [Next]_vars => Base'
  <2> SUFFICES ASSUME Base, [Next]_vars PROVE Base'
    OBVIOUS
  <2> USE DEF Base, TypeOK, Shape, DigitAsTyped, Events, Keys, Digits, SHIFT,
              Press, Release, Gets, Decode
  <2>1. CASE PollQueue
    <3>1. CASE queuesize = 1
      <4>1. /\ qk[queuepos] = qk[0] /\ queuepos' = 0 /\ queuesize' = 0
            /\ qk' = qk /\ typed' = typed
        BY <2>1, <3>1 DEF PollQueue
      <4>2. down' = down \ {qk[0].id} /\ held' = held \ {qk[0].id} /\ decoded' = decoded
        BY <2>1, <3>1, <4>1 DEF PollQueue
      <4>3. qk[0].id # SHIFT /\ down \subseteq held \cup {qk[0].id}
        BY <3>1
      <4>4. TypeOK'
        <5> HIDE DEF Events, Keys
        <5> QED
          BY <4>1, <4>2
      <4>6. down' \subseteq held'
        BY <4>2, <4>3
      <4>7. Shape'
        BY <4>1, <4>6
      <4>5. DigitAsTyped'
        BY <4>1, <4>2, <4>3
      <4> QED
        BY <4>4, <4>5, <4>7
    <3>2. CASE queuesize = 3
      <4>1. PICK k \in Digits : Following(k)
        BY <3>2
      <4>2. CASE queuepos = 0
        <5>1. qk[queuepos] = Press(k) /\ queuepos' = 1 /\ queuesize' = 3 /\ qk' = qk /\ typed' = typed
          BY <2>1, <3>2, <4>1, <4>2 DEF PollQueue, Following
        <5>2. down' = down \cup {k} /\ held' = held /\ decoded' = k + 5
          BY <2>1, <4>1, <5>1 DEF PollQueue, Following
        <5>3. Following(k)'
          BY <4>1, <4>2, <5>1, <5>2 DEF Following
        <5>4. k + 5 \in 0 .. 10 /\ typed = k + 5
          BY <4>1 DEF Following
        <5>5. TypeOK'
          BY <5>1, <5>2, <5>4
        <5>6. DigitAsTyped'
          BY <5>1, <5>2, <5>4
        <5>7. Shape'
          BY <5>1, <5>3
        <5> QED
          BY <5>5, <5>6, <5>7
      <4>3. CASE queuepos = 1
        <5>1. qk[queuepos] = Release(k) /\ queuepos' = 2 /\ queuesize' = 3 /\ qk' = qk /\ typed' = typed
          BY <2>1, <3>2, <4>1, <4>3 DEF PollQueue, Following
        <5>2. down' = down \ {k} /\ held' = held \ {k} /\ decoded' = decoded
          BY <2>1, <4>1, <5>1 DEF PollQueue, Following
        <5>3. Following(k)'
          BY <4>1, <4>3, <5>1, <5>2 DEF Following
        <5> QED
          BY <5>1, <5>2, <5>3, <4>1 DEF Following
      <4>4. CASE queuepos = 2
        <5>1. qk[queuepos] = Release(SHIFT) /\ queuepos' = 0 /\ queuesize' = 0 /\ qk' = qk /\ typed' = typed
          BY <2>1, <3>2, <4>1, <4>4 DEF PollQueue, Following
        <5>2. down' = down \ {SHIFT} /\ held' = held \ {SHIFT} /\ decoded' = decoded
          BY <2>1, <4>1, <5>1 DEF PollQueue, Following
        <5> QED
          BY <4>1, <4>4, <5>1, <5>2 DEF Following
      <4> QED
        BY <4>2, <4>3, <4>4
    <3> QED
      BY <2>1, <3>1, <3>2 DEF PollQueue
  <2>2. CASE \E k \in Digits \cup OtherKeys : KeyPressed(k)
    <3>1. PICK k \in Digits \cup OtherKeys : KeyPressed(k)
      BY <2>2
    <3>2. qk'[0] = Release(k) /\ qk' \in [0 .. 2 -> Events]
      BY <3>1 DEF KeyPressed
    <3>3. down' = down \cup {k} /\ held' = held /\ k # SHIFT /\ queuesize' = 1 /\ queuepos' = 0
      BY <3>1 DEF KeyPressed
    <3>4. /\ decoded' = IF k \in Digits THEN k + (IF SHIFT \in down THEN 5 ELSE 0) ELSE 0
          /\ typed' = IF k \in Digits THEN k ELSE 0
      BY <3>1 DEF KeyPressed
    <3>5. SHIFT \in down => SHIFT \in held
      BY <3>1 DEF KeyPressed
    <3> QED
      BY <3>2, <3>3, <3>4, <3>5, <3>1 DEF KeyPressed
  <2>3. CASE \E k \in Digits : Key6To10Pressed(k)
    <3>1. PICK k \in Digits : Key6To10Pressed(k)
      BY <2>3
    <3>2. /\ qk'[0] = Press(k) /\ qk'[1] = Release(k) /\ qk'[2] = Release(SHIFT)
          /\ qk' \in [0 .. 2 -> Events]
      BY <3>1 DEF Key6To10Pressed
    <3>3. /\ down' = down \cup {SHIFT} /\ held' = held /\ queuesize' = 3 /\ queuepos' = 0
          /\ decoded' = 0 /\ typed' = k + 5
      BY <3>1 DEF Key6To10Pressed
    <3>4. Following(k)'
      BY <3>1, <3>2, <3>3 DEF Following, Key6To10Pressed
    <3> QED
      BY <3>2, <3>3, <3>4
  <2>4. CASE \E k \in Digits : KeyHeld(k)
    <3>1. PICK k \in Digits : KeyHeld(k)
      BY <2>4
    <3>2. qk' \in [0 .. 2 -> Events]
      BY <3>1 DEF KeyHeld
    <3>3. /\ down' = down \cup {k} /\ held' = held \cup {k} /\ queuesize' = 0 /\ queuepos' = 0
          /\ decoded' = k + (IF SHIFT \in down THEN 5 ELSE 0) /\ typed' = k
          /\ down \subseteq held
      BY <3>1 DEF KeyHeld
    <3> QED
      BY <3>2, <3>3
  <2>5. CASE \E k \in Digits : Key6To10Held(k)
    <3>1. PICK k \in Digits : Key6To10Held(k)
      BY <2>5
    <3>2. qk' \in [0 .. 2 -> Events]
      BY <3>1 DEF Key6To10Held
    <3>3. /\ down' = down \cup {SHIFT} /\ held' = held \cup {SHIFT}
          /\ queuesize' = 0 /\ queuepos' = 0 /\ decoded' = 0 /\ typed' = k + 5
          /\ down \subseteq held
      BY <3>1 DEF Key6To10Held
    <3> QED
      BY <3>2, <3>3
  <2>6. CASE UNCHANGED vars
    BY <2>6 DEF vars, Following
  <2> QED
    BY <2>1, <2>2, <2>3, <2>4, <2>5, <2>6 DEF Next, Typed
<1> QED
  BY <1>1, <1>2, PTL DEF Spec

(***************************************************************************)
(* The queue is well formed through every sequence of keystrokes.          *)
(***************************************************************************)
THEOREM TypeCorrect == Spec => []TypeOK
  BY BaseInvariant, PTL DEF Base

(***************************************************************************)
(* The application reads the digits that are typed.                        *)
(***************************************************************************)
THEOREM DigitsAsTyped == Spec => []DigitAsTyped
  BY BaseInvariant, PTL DEF Base

(***************************************************************************)
(* Every press that was not typed as held is released by a queued event.   *)
(***************************************************************************)
THEOREM KeysComeUp == Spec => []NoKeyStaysDown
<1>1. Base => NoKeyStaysDown
  <2> SUFFICES ASSUME Base, NEW k \in down \ held PROVE Release(k) \in Queued
    BY DEF NoKeyStaysDown
  <2> USE DEF Base, TypeOK, Shape
  <2>1. CASE queuesize = 1
    <3>1. qk[0] = Release(k) /\ queuepos = 0
      BY <2>1 DEF Release, Events
    <3> QED
      BY <2>1, <3>1 DEF Queued
  <2>2. CASE queuesize = 3
    <3>1. PICK j \in Digits : Following(j)
      BY <2>2
    <3>2. k = SHIFT \/ (queuepos = 1 /\ k = j)
      BY <3>1 DEF Following
    <3>3. 2 \in queuepos .. (queuesize - 1)
      BY <2>2
    <3>4. queuepos = 1 => 1 \in queuepos .. (queuesize - 1)
      BY <2>2
    <3> QED
      BY <3>1, <3>2, <3>3, <3>4 DEF Following, Queued
  <2> QED
    BY <2>1, <2>2
<1> QED
  BY <1>1, BaseInvariant, PTL
----------------------------------------------------------------------------
(***************************************************************************)
(* The keys of the radio.                                                  *)
(***************************************************************************)
HIDE KeysAssumption
USE CountAssumption

RadioEvent == [n : Nat, known : BOOLEAN]
RadioKey == [n : Nat, dev : Devices]

RadioTypes == /\ fds \subseteq Devices /\ gone \subseteq fds
              /\ time \in Nat
              /\ queue \in [Devices -> Seq(RadioEvent)]
              /\ keys \subseteq RadioKey
              /\ got \in Seq(RadioKey)

\* The events of a queue are in the order of their time.
Queues == \A d \in Devices :
    /\ queue[d] # <<>> => d \in fds \ gone
    /\ \A i \in 1 .. Len(queue[d]) : queue[d][i].n <= time
    /\ \A i, j \in 1 .. Len(queue[d]) : i < j => queue[d][i].n < queue[d][j].n

\* An event that waits and is older than a key returned is of a higher device.
Passed == \A g \in 1 .. Len(got), d \in Devices : \A i \in 1 .. Len(queue[d]) :
              got[g].n >= queue[d][i].n => got[g].dev < d

\* keys has the events that are keys, and no other.
KeysNumbered ==
    /\ \A k \in keys : k.n <= time
    /\ \A g \in 1 .. Len(got) : got[g].n <= time
    /\ \A d \in Devices : \A i \in 1 .. Len(queue[d]) :
          ~queue[d][i].known => [n |-> queue[d][i].n, dev |-> d] \notin keys

NoneTwice == \A g, h \in 1 .. Len(got) : got[g] = got[h] => g = h

\* A key waits or was returned, not both.
Waiting(k) == \E i \in 1 .. Len(queue[k.dev]) : queue[k.dev][i].n = k.n
Given(k) == \E g \in 1 .. Len(got) : got[g] = k
OneOfTwo == \A k \in keys : k.dev \notin gone => /\ Waiting(k) \/ Given(k)
                                                /\ ~(Waiting(k) /\ Given(k))

RadioOrder == RadioTypes /\ Queues /\ Passed /\ OvertakesByDevice
RadioInv == RadioOrder /\ KeysNumbered /\ NoneTwice /\ OneOfTwo

\* Every non-empty set of natural numbers has a least element.
LEMMA LeastNat ==
    ASSUME NEW X, X \subseteq Nat, X # {}
    PROVE  \E m \in X : \A y \in X : m <= y
<1>1. PICK m \in X : \A y \in X : ~(<<y, m>> \in OpToRel(<, Nat))
  BY NatLessThanWellFounded, WFMin
<1>2. ASSUME NEW y \in X PROVE m <= y
  <2>1. ~(y < m)
    BY <1>1, <1>2 DEF OpToRel
  <2>2. QED
    BY <2>1
<1>3. QED
  BY <1>2

\* key_poll reads from the lowest of the devices that are ready.
LEMMA LowestReady ==
    ASSUME RadioTypes, Ready # {}
    PROVE  /\ Selected \in Ready /\ Selected \in Devices
           /\ \A d \in Ready : Selected <= d
<1>1. Ready \subseteq Devices /\ Devices \subseteq Nat
  <2>1. Ready \subseteq Devices
    BY DEF Ready, RadioTypes
  <2>2. Devices \subseteq Nat
    BY DEF Devices
  <2>3. QED
    BY <2>1, <2>2
<1>2. \E m \in Ready : \A y \in Ready : m <= y
  <2>1. Ready \subseteq Nat
    BY <1>1
  <2>2. QED
    BY <2>1, LeastNat
<1>3. Selected \in Ready /\ \A d \in Ready : Selected <= d
  <2> HIDE DEF Ready
  <2>1. QED
    BY <1>2 DEF Selected, Min
<1>4. QED
  BY <1>1, <1>3

\* What an event does to the queues.
LEMMA QueueHappens ==
    ASSUME RadioTypes, NEW d \in Devices, NEW known \in BOOLEAN, Happens(d, known)
    PROVE  /\ queue' \in [Devices -> Seq(RadioEvent)]
           /\ \A c \in Devices : c # d => queue'[c] = queue[c]
           /\ Len(queue'[d]) = Len(queue[d]) + 1
           /\ \A i \in 1 .. Len(queue[d]) : queue'[d][i] = queue[d][i]
           /\ queue'[d][Len(queue[d]) + 1] = [n |-> time + 1, known |-> known]
<1> DEFINE e == [n |-> time + 1, known |-> known]
           q == queue[d]
<1>1. e \in RadioEvent /\ q \in Seq(RadioEvent)
  BY DEF RadioEvent, RadioTypes
<1>2. /\ Append(q, e) \in Seq(RadioEvent) /\ Len(Append(q, e)) = Len(q) + 1
      /\ \A i \in 1 .. Len(q) : Append(q, e)[i] = q[i]
      /\ Append(q, e)[Len(q) + 1] = e
  <2> HIDE DEF e, q
  <2>1. QED
    BY <1>1, AppendProperties
<1>3. queue' = [queue EXCEPT ![d] = Append(q, e)]
  BY DEF Happens
<1> HIDE DEF e
<1>4. /\ queue' \in [Devices -> Seq(RadioEvent)] /\ queue'[d] = Append(q, e)
      /\ \A c \in Devices : c # d => queue'[c] = queue[c]
  BY <1>2, <1>3 DEF RadioTypes
<1>5. QED
  BY <1>2, <1>4 DEF e

\* What key_poll does to the queue it reads from.
LEMMA QueuePoll ==
    ASSUME RadioTypes, NEW d \in Devices, queue[d] # <<>>,
           queue' = [queue EXCEPT ![d] = Tail(@)]
    PROVE  /\ queue' \in [Devices -> Seq(RadioEvent)]
           /\ \A c \in Devices : c # d => queue'[c] = queue[c]
           /\ Len(queue[d]) \in Nat \ {0} /\ Len(queue'[d]) = Len(queue[d]) - 1
           /\ \A i \in 1 .. Len(queue[d]) - 1 : queue'[d][i] = queue[d][i + 1]
           /\ Head(queue[d]) = queue[d][1] /\ queue[d][1] \in RadioEvent
<1>1. PICK q \in Seq(RadioEvent) : q = queue[d]
  BY DEF RadioTypes
<1>2. /\ Tail(q) \in Seq(RadioEvent) /\ Len(Tail(q)) = Len(q) - 1
      /\ \A i \in 1 .. Len(Tail(q)) : Tail(q)[i] = q[i + 1]
      /\ Head(q) \in RadioEvent
  BY <1>1, HeadTailProperties
<1>3. Len(q) \in Nat \ {0} /\ Head(q) = q[1]
  BY <1>1
<1>4. /\ queue' \in [Devices -> Seq(RadioEvent)] /\ queue'[d] = Tail(q)
      /\ \A c \in Devices : c # d => queue'[c] = queue[c]
  BY <1>1, <1>2 DEF RadioTypes
<1>5. QED
  BY <1>1, <1>2, <1>3, <1>4

\* What key_poll read: the first event of the queue, a key or not.
LEMMA WhatIsRead ==
    ASSUME RadioTypes, Poll
    PROVE  \E d \in Devices, e \in RadioEvent :
              /\ d = Selected /\ d \in fds /\ queue[d] # <<>> /\ e = queue[d][1]
              /\ \A c \in Devices : queue[c] # <<>> /\ c \in fds => d <= c
              /\ queue' = [queue EXCEPT ![d] = Tail(@)]
              /\ \/ e.known /\ got' = Append(got, [n |-> e.n, dev |-> d])
                 \/ ~e.known /\ got' = got
<1>1. PICK d \in Devices : d = Selected
  BY LowestReady DEF Poll
<1>2. d \in Ready /\ \A c \in Ready : d <= c
  BY <1>1, LowestReady DEF Poll
<1>3. d \in fds /\ queue[d] # <<>>
  BY <1>1, <1>2 DEF Poll, Ready
<1>4. queue' = [queue EXCEPT ![d] = Tail(@)]
  BY <1>1 DEF Poll
<1>5. Head(queue[d]) = queue[d][1] /\ queue[d][1] \in RadioEvent
  BY <1>3, <1>4, QueuePoll
<1>6. PICK e \in RadioEvent : e = queue[d][1]
  BY <1>5
<1>7. got' = IF e.known THEN Append(got, [n |-> e.n, dev |-> d]) ELSE got
  BY <1>1, <1>5, <1>6 DEF Poll, translate_key
<1>8. \A c \in Devices : queue[c] # <<>> /\ c \in fds => d <= c
  BY <1>2 DEF Ready
<1>9. QED
  BY <1>1, <1>3, <1>4, <1>6, <1>7, <1>8

\* What a key returned adds.
LEMMA GotAppend ==
    ASSUME RadioTypes, NEW k \in RadioKey, got' = Append(got, k)
    PROVE  /\ got' \in Seq(RadioKey) /\ Len(got) \in Nat /\ Len(got') = Len(got) + 1
           /\ \A g \in 1 .. Len(got) : got'[g] = got[g]
           /\ got'[Len(got) + 1] = k
<1>1. got \in Seq(RadioKey)
  BY DEF RadioTypes
<1>2. QED
  BY <1>1, AppendProperties

\* The domain of a sequence of keys.
LEMMA GotDomain == RadioTypes => DOMAIN got = 1 .. Len(got) /\ Len(got) \in Nat
  BY LenProperties DEF RadioTypes

\* key_init leaves nothing read and nothing waiting.
LEMMA RadioInit == key_init => RadioInv
<1> SUFFICES ASSUME key_init PROVE RadioInv
  OBVIOUS
<1>1. RadioTypes
  BY DEF key_init, RadioTypes, RadioEvent, RadioKey
<1>2. Len(got) = 0 /\ keys = {} /\ \A d \in Devices : queue[d] = <<>> /\ Len(queue[d]) = 0
  BY DEF key_init
<1>3. DOMAIN got = {} /\ 1 .. Len(got) = {}
  BY <1>1, <1>2, GotDomain
<1>4. \A d \in Devices : 1 .. Len(queue[d]) = {}
  BY <1>2
<1>5. QED
  BY <1>1, <1>2, <1>3, <1>4, Zenon
  DEF RadioInv, RadioOrder, Queues, Passed, KeysNumbered, NoneTwice, OneOfTwo,
      OvertakesByDevice

\* An event happens: it is the latest, and last in its queue.
LEMMA RadioHappens ==
    ASSUME RadioInv, NEW d \in Devices,
           NEW known \in BOOLEAN, Happens(d, known)
    PROVE  RadioInv'
<1>0. /\ RadioTypes /\ Queues /\ Passed /\ OvertakesByDevice
      /\ KeysNumbered /\ NoneTwice /\ OneOfTwo
  BY DEF RadioInv, RadioOrder
<1>1. /\ queue' \in [Devices -> Seq(RadioEvent)]
      /\ \A c \in Devices : c # d => queue'[c] = queue[c]
      /\ Len(queue'[d]) = Len(queue[d]) + 1
      /\ \A i \in 1 .. Len(queue[d]) : queue'[d][i] = queue[d][i]
      /\ queue'[d][Len(queue[d]) + 1] = [n |-> time + 1, known |-> known]
  BY <1>0, QueueHappens
<1> DEFINE e == [n |-> time + 1, known |-> known]
           key == [n |-> time + 1, dev |-> d]
<1>2. e = [n |-> time + 1, known |-> known] /\ e.n = time + 1 /\ e.known = known
  BY Zenon
<1>3. key = [n |-> time + 1, dev |-> d] /\ key.n = time + 1 /\ key.dev = d
  BY Zenon
<1> HIDE DEF e, key
<1>4. /\ fds' = fds /\ gone' = gone /\ got' = got /\ time' = time + 1 /\ time \in Nat
      /\ d \in fds \ gone
      /\ keys' = IF known THEN keys \cup {key} ELSE keys
  BY <1>0, <1>3 DEF Happens, RadioTypes
<1>5. /\ \A c \in Devices : Len(queue[c]) \in Nat
      /\ \A c \in Devices : \A i \in 1 .. Len(queue[c]) : queue[c][i] \in RadioEvent
      /\ \A g \in 1 .. Len(got) : got[g] \in RadioKey
  BY <1>0, ElementOfSeq, LenProperties DEF RadioTypes
\* An event of a queue was there before or is the new one.
<1>6. ASSUME NEW c \in Devices, NEW i \in 1 .. Len(queue'[c])
      PROVE  \/ i \in 1 .. Len(queue[c]) /\ queue'[c][i] = queue[c][i]
             \/ c = d /\ i = Len(queue[d]) + 1 /\ queue'[c][i] = e
  <2>1. CASE c # d
    BY <1>1, <1>6, <2>1
  <2>2. CASE c = d
    <3>1. i \in 1 .. Len(queue[d]) \/ i = Len(queue[d]) + 1
      BY <1>1, <1>5, <1>6, <2>2
    <3>2. QED
      BY <1>1, <1>2, <2>2, <3>1
  <2>3. QED
    BY <2>1, <2>2
<1>7. RadioTypes'
  <2>1. key \in RadioKey
    BY <1>3, <1>4 DEF RadioKey
  <2>2. keys' \subseteq RadioKey
    BY <1>0, <1>4, <2>1 DEF RadioTypes
  <2>3. QED
    BY <1>0, <1>1, <1>4, <2>2 DEF RadioTypes, RadioKey
<1>8. Queues'
  <2>1. ASSUME NEW c \in Devices, queue'[c] # <<>> PROVE c \in fds' \ gone'
    BY <1>0, <1>1, <1>4, <2>1 DEF Queues
  <2>2. ASSUME NEW c \in Devices, NEW i \in 1 .. Len(queue'[c])
        PROVE  queue'[c][i].n <= time'
    <3>1. CASE i \in 1 .. Len(queue[c]) /\ queue'[c][i] = queue[c][i]
      <4>1. queue[c][i].n <= time /\ queue[c][i].n \in Nat
        BY <1>0, <1>5, <3>1 DEF Queues, RadioEvent
      <4>2. QED
        BY <1>4, <3>1, <4>1
    <3>2. CASE queue'[c][i] = e
      BY <1>2, <1>4, <3>2
    <3>3. QED
      BY <1>6, <2>2, <3>1, <3>2
  <2>3. ASSUME NEW c \in Devices, NEW i \in 1 .. Len(queue'[c]),
               NEW j \in 1 .. Len(queue'[c]), i < j
        PROVE  queue'[c][i].n < queue'[c][j].n
    <3>1. CASE j \in 1 .. Len(queue[c]) /\ queue'[c][j] = queue[c][j]
      <4>1. i \in 1 .. Len(queue[c])
        BY <1>5, <2>3, <3>1
      <4>2. i # Len(queue[d]) + 1 \/ c # d
        BY <1>5, <4>1
      <4>3. queue'[c][i] = queue[c][i]
        BY <1>6, <2>3, <4>2
      <4>4. QED
        BY <1>0, <2>3, <3>1, <4>1, <4>3 DEF Queues
    <3>2. CASE c = d /\ j = Len(queue[d]) + 1 /\ queue'[c][j] = e
      <4>1. i # Len(queue[d]) + 1
        BY <1>5, <2>3, <3>2
      <4>2. i \in 1 .. Len(queue[c]) /\ queue'[c][i] = queue[c][i]
        BY <1>6, <2>3, <4>1
      <4>3. queue[c][i].n <= time /\ queue[c][i].n \in Nat
        BY <1>0, <1>5, <4>2 DEF Queues, RadioEvent
      <4>4. QED
        BY <1>2, <1>4, <3>2, <4>2, <4>3
    <3>3. QED
      BY <1>6, <2>3, <3>1, <3>2
  <2>4. QED
    BY <2>1, <2>2, <2>3 DEF Queues
<1>9. Passed'
  <2> SUFFICES ASSUME NEW g \in 1 .. Len(got), NEW c \in Devices,
                      NEW i \in 1 .. Len(queue'[c]), got[g].n >= queue'[c][i].n
               PROVE  got[g].dev < c
    BY <1>4 DEF Passed
  <2>1. got[g].n <= time /\ got[g].n \in Nat
    BY <1>0, <1>5 DEF KeysNumbered, RadioKey
  <2>2. queue'[c][i] # e
    BY <1>2, <1>4, <2>1
  <2>3. i \in 1 .. Len(queue[c]) /\ queue'[c][i] = queue[c][i]
    BY <1>6, <2>2
  <2>4. QED
    BY <1>0, <2>3 DEF Passed
<1>10. KeysNumbered'
  <2>1. ASSUME NEW k \in keys' PROVE k.n <= time'
    <3>1. CASE k \in keys
      <4>1. k.n <= time /\ k.n \in Nat
        BY <1>0, <3>1 DEF KeysNumbered, RadioTypes, RadioKey
      <4>2. QED
        BY <1>4, <4>1
    <3>2. CASE k = key
      BY <1>3, <1>4, <3>2
    <3>3. QED
      BY <1>4, <2>1, <3>1, <3>2
  <2>2. ASSUME NEW g \in 1 .. Len(got) PROVE got[g].n <= time'
    <3>1. got[g].n <= time /\ got[g].n \in Nat
      BY <1>0, <1>5 DEF KeysNumbered, RadioKey
    <3>2. QED
      BY <1>4, <3>1
  <2>3. ASSUME NEW c \in Devices, NEW i \in 1 .. Len(queue'[c]), ~queue'[c][i].known,
               [n |-> queue'[c][i].n, dev |-> c] \in keys'
        PROVE  FALSE
    <3>1. CASE i \in 1 .. Len(queue[c]) /\ queue'[c][i] = queue[c][i]
      <4>1. [n |-> queue[c][i].n, dev |-> c] \notin keys
        BY <1>0, <2>3, <3>1 DEF KeysNumbered
      <4>2. [n |-> queue[c][i].n, dev |-> c] = key
        BY <1>4, <2>3, <3>1, <4>1
      <4>3. queue[c][i].n = time + 1
        BY <1>3, <4>2
      <4>4. queue[c][i].n <= time
        BY <1>0, <3>1 DEF Queues
      <4>5. QED
        BY <1>4, <4>3, <4>4
    <3>2. CASE c = d /\ queue'[c][i] = e
      <4>1. ~known
        BY <1>2, <2>3, <3>2, Zenon
      <4>2. key \in keys
        BY <1>2, <1>3, <1>4, <2>3, <3>2, <4>1
      <4>3. key.n <= time
        BY <1>0, <4>2 DEF KeysNumbered
      <4>4. QED
        BY <1>3, <1>4, <4>3
    <3>3. QED
      BY <1>6, <2>3, <3>1, <3>2
  <2>4. QED
    BY <1>4, <2>1, <2>2, <2>3 DEF KeysNumbered
<1>11. OneOfTwo'
  <2> SUFFICES ASSUME NEW k \in keys', k.dev \notin gone
               PROVE  (Waiting(k)' \/ Given(k)') /\ ~(Waiting(k)' /\ Given(k)')
    BY <1>4 DEF OneOfTwo
  <2>1. CASE k \in keys
    <3>1. k.dev \in Devices /\ k.n <= time /\ k.n \in Nat
      BY <1>0, <2>1 DEF RadioTypes, RadioKey, KeysNumbered
    <3>2. Given(k)' <=> Given(k)
      BY <1>4 DEF Given
    <3>3. ASSUME Waiting(k) PROVE Waiting(k)'
      <4>1. PICK i \in 1 .. Len(queue[k.dev]) : queue[k.dev][i].n = k.n
        BY <3>3 DEF Waiting
      <4>2. queue'[k.dev][i] = queue[k.dev][i] /\ i \in 1 .. Len(queue'[k.dev])
        BY <1>1, <1>5, <3>1, <4>1
      <4>3. QED
        BY <4>1, <4>2 DEF Waiting
    <3>4. ASSUME Waiting(k)' PROVE Waiting(k)
      <4>1. PICK i \in 1 .. Len(queue'[k.dev]) : queue'[k.dev][i].n = k.n
        BY <3>4 DEF Waiting
      <4>2. queue'[k.dev][i] # e
        BY <1>2, <1>4, <3>1, <4>1
      <4>3. i \in 1 .. Len(queue[k.dev]) /\ queue'[k.dev][i] = queue[k.dev][i]
        BY <1>6, <3>1, <4>1, <4>2
      <4>4. QED
        BY <4>1, <4>3 DEF Waiting
    <3>5. (Waiting(k) \/ Given(k)) /\ ~(Waiting(k) /\ Given(k))
      BY <1>0, <2>1 DEF OneOfTwo
    <3>6. QED
      BY <3>2, <3>3, <3>4, <3>5
  <2>2. CASE k = key
    <3>1. Waiting(k)'
      <4>1. Len(queue[d]) + 1 \in 1 .. Len(queue'[d]) /\ queue'[d][Len(queue[d]) + 1].n = time + 1
        BY <1>1, <1>2, <1>5
      <4>2. QED
        BY <1>3, <2>2, <4>1 DEF Waiting
    <3>2. ~Given(k)'
      <4> SUFFICES ASSUME NEW g \in 1 .. Len(got), got[g] = k PROVE FALSE
        BY <1>4 DEF Given
      <4>1. got[g].n <= time /\ got[g].n = time + 1
        BY <1>0, <1>3, <2>2 DEF KeysNumbered
      <4>2. QED
        BY <1>4, <4>1
    <3>3. QED
      BY <3>1, <3>2
  <2>3. QED
    BY <1>4, <2>1, <2>2
<1>12. OvertakesByDevice' /\ NoneTwice'
  BY <1>0, <1>4 DEF OvertakesByDevice, NoneTwice
<1>13. QED
  BY <1>7, <1>8, <1>9, <1>10, <1>11, <1>12 DEF RadioInv, RadioOrder

\* key_poll takes the first event of the lowest device that has one.
LEMMA RadioPoll ==
    ASSUME RadioInv, Poll
    PROVE  RadioInv'
<1>0. /\ RadioTypes /\ Queues /\ Passed /\ OvertakesByDevice
      /\ KeysNumbered /\ NoneTwice /\ OneOfTwo
  BY DEF RadioInv, RadioOrder
<1>1. PICK d \in Devices, e \in RadioEvent :
              /\ d = Selected /\ d \in fds /\ queue[d] # <<>> /\ e = queue[d][1]
              /\ \A c \in Devices : queue[c] # <<>> /\ c \in fds => d <= c
              /\ queue' = [queue EXCEPT ![d] = Tail(@)]
              /\ \/ e.known /\ got' = Append(got, [n |-> e.n, dev |-> d])
                 \/ ~e.known /\ got' = got
  BY <1>0, WhatIsRead
<1>2. /\ queue' \in [Devices -> Seq(RadioEvent)]
      /\ \A c \in Devices : c # d => queue'[c] = queue[c]
      /\ Len(queue[d]) \in Nat \ {0} /\ Len(queue'[d]) = Len(queue[d]) - 1
      /\ \A i \in 1 .. Len(queue[d]) - 1 : queue'[d][i] = queue[d][i + 1]
  BY <1>0, <1>1, QueuePoll
<1> DEFINE key == [n |-> e.n, dev |-> d]
<1>3. key = [n |-> e.n, dev |-> d] /\ key.n = e.n /\ key.dev = d
  BY Zenon
<1> HIDE DEF key
<1>4. /\ fds' = fds /\ gone' = gone /\ keys' = keys /\ time' = time
      /\ time \in Nat /\ d \in Nat /\ e.n \in Nat /\ e.n <= time /\ key \in RadioKey
  <2>1. fds' = fds /\ gone' = gone /\ keys' = keys /\ time' = time /\ time \in Nat
    BY <1>0 DEF Poll, RadioTypes
  <2>2. d \in Nat /\ e.n \in Nat
    BY DEF Devices, RadioEvent
  <2>3. e.n <= time
    BY <1>0, <1>1, <1>2 DEF Queues
  <2>4. key \in RadioKey
    BY <1>3, <2>2 DEF RadioKey
  <2>5. QED
    BY <2>1, <2>2, <2>3, <2>4
<1>5. /\ \A c \in Devices : Len(queue[c]) \in Nat
      /\ \A c \in Devices : \A i \in 1 .. Len(queue[c]) : queue[c][i] \in RadioEvent
      /\ \A g \in 1 .. Len(got) : got[g] \in RadioKey
      /\ Len(got) \in Nat
  BY <1>0, ElementOfSeq, LenProperties DEF RadioTypes
\* What is in a queue now was there before, further behind, and after e.
<1>6. ASSUME NEW c \in Devices, NEW i \in 1 .. Len(queue'[c])
      PROVE  \E j \in 1 .. Len(queue[c]) :
                /\ queue'[c][i] = queue[c][j]
                /\ c = d => j = i + 1 /\ e.n < queue[c][j].n
                /\ c # d => j = i
  <2>1. CASE c # d
    <3>1. queue'[c] = queue[c]
      BY <1>2, <2>1
    <3>2. QED
      BY <1>6, <2>1, <3>1
  <2>2. CASE c = d
    <3>1. i \in 1 .. Len(queue[d]) - 1 /\ i + 1 \in 1 .. Len(queue[d])
          /\ 1 \in 1 .. Len(queue[d]) /\ 1 < i + 1
      BY <1>2, <1>6, <2>2
    <3>2. queue[d][1].n < queue[d][i + 1].n
      BY <1>0, <3>1 DEF Queues
    <3>3. QED
      BY <1>1, <1>2, <2>2, <3>1, <3>2
  <2>3. QED
    BY <2>1, <2>2
\* What was returned was returned before, or is the key of e.
<1>7. /\ got' \in Seq(RadioKey)
      /\ \/ e.known /\ Len(got') = Len(got) + 1 /\ got'[Len(got) + 1] = key
         \/ ~e.known /\ Len(got') = Len(got)
      /\ \A g \in 1 .. Len(got) : got'[g] = got[g]
  <2>1. CASE e.known /\ got' = Append(got, key)
    <3>1. /\ got' \in Seq(RadioKey) /\ Len(got') = Len(got) + 1
          /\ \A g \in 1 .. Len(got) : got'[g] = got[g]
          /\ got'[Len(got) + 1] = key
      BY <1>0, <1>4, <2>1, GotAppend
    <3>2. QED
      BY <2>1, <3>1
  <2>2. CASE ~e.known /\ got' = got
    BY <1>0, <2>2 DEF RadioTypes
  <2>3. QED
    BY <1>1, <1>3, <2>1, <2>2
<1>8. ASSUME NEW g \in 1 .. Len(got')
      PROVE  \/ g \in 1 .. Len(got) /\ got'[g] = got[g]
             \/ e.known /\ g = Len(got) + 1 /\ got'[g] = key
  <2>1. g \in 1 .. Len(got) \/ (e.known /\ g = Len(got) + 1)
    <3>1. CASE Len(got') = Len(got)
      BY <3>1
    <3>2. CASE e.known /\ Len(got') = Len(got) + 1
      BY <1>5, <3>2
    <3>3. QED
      BY <1>7, <3>1, <3>2
  <2>2. CASE g \in 1 .. Len(got)
    BY <1>7, <2>2
  <2>3. CASE e.known /\ g = Len(got) + 1
    BY <1>5, <1>7, <2>3
  <2>4. QED
    BY <2>1, <2>2, <2>3
<1>9. RadioTypes'
  BY <1>0, <1>2, <1>4, <1>7 DEF RadioTypes, RadioKey
<1>10. Queues'
  <2>1. ASSUME NEW c \in Devices, queue'[c] # <<>> PROVE c \in fds' \ gone'
    BY <1>0, <1>1, <1>2, <1>4, <2>1 DEF Queues
  <2>2. ASSUME NEW c \in Devices, NEW i \in 1 .. Len(queue'[c])
        PROVE  queue'[c][i].n <= time'
    <3>1. PICK j \in 1 .. Len(queue[c]) : queue'[c][i] = queue[c][j]
      BY <1>6, <2>2
    <3>2. QED
      BY <1>0, <1>4, <3>1 DEF Queues
  <2>3. ASSUME NEW c \in Devices, NEW i \in 1 .. Len(queue'[c]),
               NEW j \in 1 .. Len(queue'[c]), i < j
        PROVE  queue'[c][i].n < queue'[c][j].n
    <3>1. PICK x \in 1 .. Len(queue[c]) :
             queue'[c][i] = queue[c][x] /\ (c = d => x = i + 1) /\ (c # d => x = i)
      BY <1>6, <2>3
    <3>2. PICK y \in 1 .. Len(queue[c]) :
             queue'[c][j] = queue[c][y] /\ (c = d => y = j + 1) /\ (c # d => y = j)
      BY <1>6, <2>3
    <3>3. x < y
      BY <2>3, <3>1, <3>2
    <3>4. QED
      BY <1>0, <3>1, <3>2, <3>3 DEF Queues
  <2>4. QED
    BY <2>1, <2>2, <2>3 DEF Queues
<1>11. Passed'
  <2> SUFFICES ASSUME NEW g \in 1 .. Len(got'), NEW c \in Devices,
                      NEW i \in 1 .. Len(queue'[c]), got'[g].n >= queue'[c][i].n
               PROVE  got'[g].dev < c
    BY DEF Passed
  <2>1. PICK j \in 1 .. Len(queue[c]) :
           /\ queue'[c][i] = queue[c][j]
           /\ c = d => j = i + 1 /\ e.n < queue[c][j].n
           /\ c # d => j = i
    BY <1>6, Zenon
  <2>2. CASE g \in 1 .. Len(got) /\ got'[g] = got[g]
    BY <1>0, <2>1, <2>2 DEF Passed
  <2>3. CASE got'[g] = key
    <3>1. e.n >= queue[c][j].n /\ queue[c][j].n \in Nat
      BY <1>3, <1>5, <2>1, <2>3 DEF RadioEvent
    <3>2. c # d
      BY <1>4, <2>1, <3>1
    <3>3. queue[c] # <<>>
      BY <1>5, <2>1
    <3>4. d <= c /\ c \in Nat
      BY <1>0, <1>1, <3>3 DEF Queues, Devices
    <3>5. d < c
      BY <1>4, <3>2, <3>4
    <3>6. QED
      BY <1>3, <2>3, <3>5
  <2>4. QED
    BY <1>8, <2>2, <2>3
<1>12. OvertakesByDevice'
  <2>1. DOMAIN got' = 1 .. Len(got') /\ DOMAIN got = 1 .. Len(got)
    BY <1>0, <1>7, LenProperties DEF RadioTypes
  <2> SUFFICES ASSUME NEW i \in 1 .. Len(got'), NEW j \in 1 .. Len(got'),
                      i < j, got'[i].n > got'[j].n
               PROVE  got'[i].dev < got'[j].dev
    BY <2>1 DEF OvertakesByDevice
  <2>2. i \in 1 .. Len(got) /\ got'[i] = got[i]
    <3>1. Len(got') \in Nat /\ (Len(got') = Len(got) \/ Len(got') = Len(got) + 1)
      BY <1>5, <1>7
    <3>2. i # Len(got) + 1
      BY <1>5, <3>1
    <3>3. QED
      BY <1>8, <3>2
  <2>3. CASE j \in 1 .. Len(got) /\ got'[j] = got[j]
    BY <1>0, <2>1, <2>2, <2>3 DEF OvertakesByDevice
  <2>4. CASE got'[j] = key
    <3>1. got[i].n >= queue[d][1].n
      <4>1. queue[d][1] = e /\ got[i].n > key.n
        BY <1>1, <2>2, <2>4
      <4>2. got[i].n \in Nat
        BY <1>5, <2>2 DEF RadioKey
      <4>3. QED
        BY <1>3, <1>4, <4>1, <4>2
    <3>2. 1 \in 1 .. Len(queue[d])
      BY <1>2
    <3>3. got[i].dev < d
      BY <1>0, <2>2, <3>1, <3>2 DEF Passed
    <3>4. QED
      BY <1>3, <2>2, <2>4, <3>3
  <2>5. QED
    BY <1>8, <2>3, <2>4
\* The key of e was not returned before.
<1>13. ASSUME NEW g \in 1 .. Len(got) PROVE got[g] # key
  <2>1. SUFFICES ASSUME got[g] = key PROVE FALSE
    OBVIOUS
  <2>2. got[g].n >= queue[d][1].n /\ 1 \in 1 .. Len(queue[d])
    BY <1>1, <1>2, <1>3, <1>4, <2>1
  <2>3. got[g].dev < d
    BY <1>0, <2>2 DEF Passed
  <2>4. QED
    BY <1>3, <1>4, <2>1, <2>3
<1>14. NoneTwice'
  <2> SUFFICES ASSUME NEW g \in 1 .. Len(got'), NEW h \in 1 .. Len(got'), got'[g] = got'[h]
               PROVE  g = h
    BY DEF NoneTwice
  <2>1. CASE g \in 1 .. Len(got) /\ got'[g] = got[g] /\ h \in 1 .. Len(got) /\ got'[h] = got[h]
    BY <1>0, <2>1 DEF NoneTwice
  <2>2. QED
    BY <1>8, <1>13, <2>1
<1>15. KeysNumbered'
  <2>1. ASSUME NEW g \in 1 .. Len(got') PROVE got'[g].n <= time
    BY <1>0, <1>3, <1>4, <1>8, <2>1 DEF KeysNumbered
  <2>2. ASSUME NEW c \in Devices, NEW i \in 1 .. Len(queue'[c]), ~queue'[c][i].known
        PROVE  [n |-> queue'[c][i].n, dev |-> c] \notin keys
    <3>1. PICK j \in 1 .. Len(queue[c]) : queue'[c][i] = queue[c][j]
      BY <1>6, <2>2
    <3>2. QED
      BY <1>0, <2>2, <3>1 DEF KeysNumbered
  <2>3. QED
    BY <1>0, <1>4, <2>1, <2>2 DEF KeysNumbered
<1>16. OneOfTwo'
  <2> SUFFICES ASSUME NEW k \in keys, k.dev \notin gone
               PROVE  (Waiting(k)' \/ Given(k)') /\ ~(Waiting(k)' /\ Given(k)')
    BY <1>4 DEF OneOfTwo
  <2>1. /\ k \in RadioKey /\ k.dev \in Devices /\ k.n \in Nat
        /\ k = [n |-> k.n, dev |-> k.dev]
    BY <1>0 DEF RadioTypes, RadioKey
  <2>2. (Waiting(k) \/ Given(k)) /\ ~(Waiting(k) /\ Given(k))
    BY <1>0 DEF OneOfTwo
  <2>3. CASE k = key
    <3>1. Waiting(k)
      <4>1. 1 \in 1 .. Len(queue[d]) /\ queue[d][1].n = k.n /\ k.dev = d
        BY <1>1, <1>2, <1>3, <2>3
      <4>2. QED
        BY <4>1 DEF Waiting
    <3>2. e.known
      <4>1. 1 \in 1 .. Len(queue[d]) /\ queue[d][1] = e
        BY <1>1, <1>2
      <4>2. ~e.known => [n |-> e.n, dev |-> d] \notin keys
        BY <1>0, <4>1 DEF KeysNumbered
      <4>3. QED
        BY <1>3, <2>3, <4>2
    <3>3. Given(k)'
      <4>1. Len(got) + 1 \in 1 .. Len(got') /\ got'[Len(got) + 1] = key
        BY <1>5, <1>7, <3>2
      <4>2. QED
        BY <2>3, <4>1 DEF Given
    <3>4. ~Waiting(k)'
      <4> SUFFICES ASSUME NEW i \in 1 .. Len(queue'[d]), queue'[d][i].n = e.n PROVE FALSE
        BY <1>3, <2>3 DEF Waiting
      <4>1. PICK j \in 1 .. Len(queue[d]) : queue'[d][i] = queue[d][j] /\ e.n < queue[d][j].n
        BY <1>6
      <4>2. QED
        BY <1>4, <4>1
    <3>5. QED
      BY <3>3, <3>4
  <2>4. CASE k # key
    <3>1. Given(k)' <=> Given(k)
      <4>1. ASSUME Given(k) PROVE Given(k)'
        <5>1. PICK g \in 1 .. Len(got) : got[g] = k
          BY <4>1 DEF Given
        <5>2. g \in 1 .. Len(got') /\ got'[g] = k
          BY <1>5, <1>7, <5>1
        <5>3. QED
          BY <5>2 DEF Given
      <4>2. ASSUME Given(k)' PROVE Given(k)
        <5>1. PICK g \in 1 .. Len(got') : got'[g] = k
          BY <4>2 DEF Given
        <5>2. g \in 1 .. Len(got) /\ got[g] = k
          BY <1>8, <2>4, <5>1
        <5>3. QED
          BY <5>2 DEF Given
      <4>3. QED
        BY <4>1, <4>2
    <3>2. Waiting(k)' <=> Waiting(k)
      <4>1. ASSUME Waiting(k)' PROVE Waiting(k)
        <5>1. PICK i \in 1 .. Len(queue'[k.dev]) : queue'[k.dev][i].n = k.n
          BY <4>1 DEF Waiting
        <5>2. PICK j \in 1 .. Len(queue[k.dev]) : queue'[k.dev][i] = queue[k.dev][j]
          BY <1>6, <2>1, <5>1
        <5>3. QED
          BY <5>1, <5>2 DEF Waiting
      <4>2. ASSUME Waiting(k) PROVE Waiting(k)'
        <5>1. PICK i \in 1 .. Len(queue[k.dev]) : queue[k.dev][i].n = k.n
          BY <4>2 DEF Waiting
        <5>2. CASE k.dev # d
          <6>1. queue'[k.dev] = queue[k.dev]
            BY <1>2, <2>1, <5>2
          <6>2. QED
            BY <5>1, <6>1 DEF Waiting
        <5>3. CASE k.dev = d
          <6>1. i # 1
            <7>1. SUFFICES ASSUME i = 1 PROVE FALSE
              OBVIOUS
            <7>2. k.n = e.n
              BY <1>1, <5>1, <5>3, <7>1
            <7>3. QED
              BY <1>3, <2>1, <2>4, <5>3, <7>2
          <6>2. PICK j \in 1 .. Len(queue[d]) - 1 : i = j + 1
            <7>1. i - 1 \in 1 .. Len(queue[d]) - 1 /\ i = (i - 1) + 1
              BY <1>2, <5>1, <5>3, <6>1
            <7>2. QED
              BY <7>1
          <6>3. j \in 1 .. Len(queue'[d]) /\ queue'[d][j].n = k.n
            BY <1>2, <5>1, <5>3, <6>2
          <6>4. QED
            BY <5>3, <6>3 DEF Waiting
        <5>4. QED
          BY <5>2, <5>3
      <4>3. QED
        BY <4>1, <4>2
    <3>3. QED
      BY <2>2, <3>1, <3>2
  <2>5. QED
    BY <2>3, <2>4
<1>17. QED
  BY <1>9, <1>10, <1>11, <1>12, <1>14, <1>15, <1>16 DEF RadioInv, RadioOrder

\* A device that is taken away takes its queue along.
LEMMA RadioTakenAway ==
    ASSUME RadioInv, NEW d \in Devices, TakenAway(d)
    PROVE  RadioInv'
<1>0. /\ RadioTypes /\ Queues /\ Passed /\ OvertakesByDevice
      /\ KeysNumbered /\ NoneTwice /\ OneOfTwo
  BY DEF RadioInv, RadioOrder
<1>1. /\ fds' = fds /\ gone' = gone \cup {d} /\ d \in fds
      /\ keys' = keys /\ time' = time /\ got' = got
      /\ queue' = [queue EXCEPT ![d] = <<>>]
  BY DEF TakenAway
<1>2. /\ queue' \in [Devices -> Seq(RadioEvent)]
      /\ \A c \in Devices : c # d => queue'[c] = queue[c]
      /\ queue'[d] = <<>>
  BY <1>0, <1>1 DEF RadioTypes
<1>3. 1 .. Len(queue'[d]) = {}
  BY <1>2
<1>4. RadioTypes'
  BY <1>0, <1>1, <1>2 DEF RadioTypes, RadioKey
<1>5. Queues'
  BY <1>0, <1>1, <1>2, <1>3, Zenon DEF Queues
<1>6. Passed'
  BY <1>0, <1>1, <1>2, <1>3, Zenon DEF Passed
<1>7. KeysNumbered'
  BY <1>0, <1>1, <1>2, <1>3, Zenon DEF KeysNumbered
<1>8. NoneTwice' /\ OvertakesByDevice'
  BY <1>0, <1>1 DEF NoneTwice, OvertakesByDevice
<1>9. OneOfTwo'
  <2> SUFFICES ASSUME NEW k \in keys, k.dev \notin gone, k.dev # d
               PROVE  (Waiting(k)' \/ Given(k)') /\ ~(Waiting(k)' /\ Given(k)')
    BY <1>1 DEF OneOfTwo
  <2>1. queue'[k.dev] = queue[k.dev]
    BY <1>0, <1>2 DEF RadioTypes, RadioKey
  <2>2. (Waiting(k)' <=> Waiting(k)) /\ (Given(k)' <=> Given(k))
    BY <1>1, <2>1 DEF Waiting, Given
  <2>3. QED
    BY <1>0, <2>2 DEF OneOfTwo
<1>10. QED
  BY <1>4, <1>5, <1>6, <1>7, <1>8, <1>9 DEF RadioInv, RadioOrder

\* Every poll and every key keeps the invariant.
LEMMA RadioStep ==
    ASSUME RadioInv, [RadioNext]_radiovars
    PROVE  RadioInv'
<1>1. CASE PollGone \/ UNCHANGED radiovars
  <2>1. UNCHANGED <<fds, gone, queue, time, keys, got>>
    BY <1>1 DEF PollGone, radiovars
  <2>2. QED
    BY <2>1 DEF RadioInv, RadioOrder, RadioTypes, Queues, Passed, KeysNumbered, NoneTwice,
                OneOfTwo, Waiting, Given, OvertakesByDevice, RadioKey
<1>2. QED
  BY <1>1, RadioHappens, RadioTakenAway, RadioPoll DEF RadioNext

\* The invariant always holds on the radio.
LEMMA RadioInvariance == RadioSpec => []RadioInv
<1>1. key_init => RadioInv
  BY RadioInit
<1>2. RadioInv /\ [RadioNext]_radiovars => RadioInv'
  BY RadioStep
<1>3. QED
  BY <1>1, <1>2, PTL DEF RadioSpec

(***************************************************************************)
(* For any number of devices and events: key_poll returns a later key      *)
(* before an earlier one only when it is of a device with a lower number.  *)
(***************************************************************************)
THEOREM RadioKeysInOrder ==
    RadioSpec => []OvertakesByDevice
<1>1. RadioInv => OvertakesByDevice
  BY DEF RadioInv, RadioOrder
<1>2. RadioSpec => []RadioInv
  BY RadioInvariance
<1>3. QED
  BY <1>1, <1>2, PTL

\* A set with an element, and only one, has cardinality 1.
LEMMA One == ASSUME NEW X, NEW x \in X, \A y \in X : y = x PROVE Cardinality(X) = 1
<1>1. X = {x}
  OBVIOUS
<1>2. QED
  BY <1>1, FS_Singleton

(***************************************************************************)
(* For any number of devices and events: a key is not lost and is returned *)
(* once, as long as its device is there, whatever else the devices send    *)
(* and whichever of them are taken away.                                   *)
(***************************************************************************)
THEOREM RadioKeysOnce ==
    RadioSpec => []EachKeyOnce
<1>1. RadioInv => EachKeyOnce
  <2> SUFFICES ASSUME RadioInv, NEW k \in keys, k.dev \notin gone
               PROVE  Cardinality(Waits(k)) + Cardinality(Returned(k)) = 1
    BY DEF EachKeyOnce
  <2>1. RadioTypes /\ Queues /\ NoneTwice /\ k.dev \in Devices
    BY DEF RadioInv, RadioOrder, RadioTypes, RadioKey
  <2>2. /\ DOMAIN queue[k.dev] = 1 .. Len(queue[k.dev])
        /\ DOMAIN got = 1 .. Len(got)
        /\ \A i \in 1 .. Len(queue[k.dev]) : queue[k.dev][i].n \in Nat
    <3>1. queue[k.dev] \in Seq(RadioEvent) /\ got \in Seq(RadioKey)
      BY <2>1 DEF RadioTypes
    <3>2. \A i \in 1 .. Len(queue[k.dev]) : queue[k.dev][i] \in RadioEvent
      BY <3>1, ElementOfSeq
    <3>3. QED
      BY <3>1, <3>2, LenProperties DEF RadioEvent
  <2>3. (Waiting(k) \/ Given(k)) /\ ~(Waiting(k) /\ Given(k))
    BY DEF RadioInv, OneOfTwo
  <2>4. CASE Waiting(k) /\ ~Given(k)
    <3>1. PICK i \in 1 .. Len(queue[k.dev]) : queue[k.dev][i].n = k.n
      BY <2>4 DEF Waiting
    <3>2. i \in Waits(k) /\ \A j \in Waits(k) : j = i
      <4>1. ASSUME NEW j \in 1 .. Len(queue[k.dev]), queue[k.dev][j].n = k.n PROVE j = i
        <5>1. ~(i < j) /\ ~(j < i)
          BY <2>1, <2>2, <3>1, <4>1 DEF Queues
        <5>2. QED
          BY <5>1
      <4>2. QED
        BY <2>2, <3>1, <4>1 DEF Waits
    <3>3. Returned(k) = {}
      BY <2>2, <2>4 DEF Returned, Given
    <3>4. Cardinality(Waits(k)) = 1 /\ Cardinality(Returned(k)) = 0
      BY <3>2, <3>3, One, FS_EmptySet
    <3>5. QED
      BY <3>4
  <2>5. CASE Given(k) /\ ~Waiting(k)
    <3>1. PICK g \in 1 .. Len(got) : got[g] = k
      BY <2>5 DEF Given
    <3>2. g \in Returned(k) /\ \A h \in Returned(k) : h = g
      BY <2>1, <2>2, <3>1 DEF Returned, NoneTwice
    <3>3. Waits(k) = {}
      BY <2>2, <2>5 DEF Waits, Waiting
    <3>4. Cardinality(Returned(k)) = 1 /\ Cardinality(Waits(k)) = 0
      BY <3>2, <3>3, One, FS_EmptySet
    <3>5. QED
      BY <3>4
  <2>6. QED
    BY <2>3, <2>4, <2>5
<1>2. RadioSpec => []RadioInv
  BY RadioInvariance
<1>3. QED
  BY <1>1, <1>2, PTL
=============================================================================
