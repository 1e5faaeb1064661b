----------------------------- MODULE KeyReciva ------------------------------
(***************************************************************************)
(* The keys of the radio (key_reciva.c).  The keypad, the knob and the     *)
(* power button are input devices with a queue each in the kernel.         *)
(* key_poll asks select which of them have something, reads one event from *)
(* the first of those and translates it.                                   *)
(*                                                                         *)
(* An event is numbered by the time it happened.  Those translate_key has  *)
(* no key for (a code it does not know, a type it does not know) are read  *)
(* and dropped; the others stand for the key and its state.                *)
(*                                                                         *)
(* A device that is taken away reads as ready and fails every read.  The   *)
(* result -1 is compared with a size_t, is no smaller, and translate_key   *)
(* is given an event nobody wrote: a stray key, or none.                   *)
(***************************************************************************)
EXTENDS Integers, Sequences, FiniteSets, FiniteSetsExt

CONSTANTS EVENT_FD_COUNT,   \* number of devices key_init tries
          MaxEvents,        \* bound: events that happen
          MaxStray          \* bound: stray keys counted

ASSUME CountAssumption == EVENT_FD_COUNT \in Nat \ {0}
ASSUME BoundsAssumption == MaxEvents \in Nat /\ MaxStray \in Nat

Devices == 0 .. EVENT_FD_COUNT - 1

VARIABLES
    fds,        \* the devices key_init opened
    gone,       \* those that were taken away since
    queue,      \* events a device has and nobody read
    time,       \* events so far
    keys,       \* history: [n, dev] of the events that are keys
    got,        \* what key_poll returned: [n, dev]
    stray       \* how many stray keys it returned

radiovars == <<fds, gone, queue, time, keys, got, stray>>

\* key_init: a device that is not there has no descriptor.
key_init == /\ fds \in SUBSET Devices
            /\ gone = {} /\ queue = [d \in Devices |-> <<>>]
            /\ time = 0 /\ keys = {} /\ got = <<>> /\ stray = 0

(***************************************************************************)
(* The devices.                                                            *)
(***************************************************************************)
Happens(d, known) == /\ d \in fds \ gone /\ time < MaxEvents
                     /\ time' = time + 1
                     /\ queue' = [queue EXCEPT ![d] = Append(@, [n |-> time + 1, known |-> known])]
                     /\ keys' = IF known THEN keys \cup {[n |-> time + 1, dev |-> d]} ELSE keys
                     /\ UNCHANGED <<fds, gone, got, stray>>

\* The kernel drops what the device had.
TakenAway(d) == /\ d \in fds \ gone
                /\ gone' = gone \cup {d}
                /\ queue' = [queue EXCEPT ![d] = <<>>]
                /\ UNCHANGED <<fds, time, keys, got, stray>>

(***************************************************************************)
(* key_poll.  Without a ready device it returns 0 and changes nothing.     *)
(***************************************************************************)
Ready == {d \in fds : d \in gone \/ queue[d] # <<>>}

\* A slip: the last of the ready devices is read.
SelectedLast == Max(Ready)

Selected == Min(Ready)

\* What the caller gets for an event of device d.
translate_key(d, e) == IF e.known THEN Append(got, [n |-> e.n, dev |-> d]) ELSE got

\* A slip: a device without a known key in front keeps its event.
PollStuck == /\ Ready # {} /\ Selected \notin gone
             /\ got' = translate_key(Selected, Head(queue[Selected]))
             /\ queue' = IF Head(queue[Selected]).known
                         THEN [queue EXCEPT ![Selected] = Tail(@)] ELSE queue
             /\ UNCHANGED <<fds, gone, time, keys, stray>>

\* A slip: every ready device is read, and only one event is returned.
PollAll == /\ Ready # {} /\ Selected \notin gone
           /\ got' = translate_key(Selected, Head(queue[Selected]))
           /\ queue' = [d \in Devices |-> IF queue[d] = <<>> THEN <<>> ELSE Tail(queue[d])]
           /\ UNCHANGED <<fds, gone, time, keys, stray>>

Poll == /\ Ready # {} /\ Selected \notin gone
        /\ got' = translate_key(Selected, Head(queue[Selected]))
        /\ queue' = [queue EXCEPT ![Selected] = Tail(@)]
        /\ UNCHANGED <<fds, gone, time, keys, stray>>

\* The read fails; what is translated is not defined.
PollGone == /\ Ready # {} /\ Selected \in gone
            /\ stray' \in {stray, stray + 1} /\ stray' <= MaxStray
            /\ UNCHANGED <<fds, gone, queue, time, keys, got>>

RadioNext == \/ \E d \in Devices : TakenAway(d) \/ \E known \in BOOLEAN : Happens(d, known)
             \/ Poll \/ PollGone

RadioSpec == key_init /\ [][RadioNext]_radiovars
FairRadioSpec == RadioSpec /\ WF_radiovars(Poll \/ PollGone)

(***************************************************************************)
(* Properties.                                                             *)
(***************************************************************************)
(***************************************************************************)
(* Of two keys the later one is returned first only when it comes from a   *)
(* device with a lower number; the keys of one device keep their order.    *)
(***************************************************************************)
OvertakesByDevice == \A i, j \in DOMAIN got :
                        i < j /\ got[i].n > got[j].n => got[i].dev < got[j].dev

(***************************************************************************)
(* A key waits in the queue of its device, once, or was returned, once,    *)
(* and not both, as long as its device is there.                           *)
(***************************************************************************)
Waits(k) == {i \in DOMAIN queue[k.dev] : queue[k.dev][i].n = k.n}
Returned(k) == {i \in DOMAIN got : got[i] = k}
EachKeyOnce == \A k \in keys : k.dev \notin gone =>
                 Cardinality(Waits(k)) + Cardinality(Returned(k)) = 1

(***************************************************************************)
(* A key that was hit is returned, or a device with its number or a lower    *)
(* one is taken away: that device is read for ever.                        *)
(***************************************************************************)
KeysArrive == \A d \in Devices, n \in 1 .. MaxEvents :
    [n |-> n, dev |-> d] \in keys
      ~> (Returned([n |-> n, dev |-> d]) # {} \/ \E l \in gone : l <= d)
=============================================================================
