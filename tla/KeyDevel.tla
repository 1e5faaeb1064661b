------------------------------ MODULE KeyDevel ------------------------------
(***************************************************************************)
(* The radio's keys on a developer's keyboard (key_devel.c).  A terminal   *)
(* reports that a key was typed, not when it goes down and up, and the     *)
(* radio has keys 1 to 5 and a shift key for 6 to 0.  key_poll makes the   *)
(* missing events: it returns the first one of a keystroke and queues the  *)
(* others for the next calls.                                              *)
(*                                                                         *)
(* The application is any program that polls.  It follows which keys are   *)
(* down, and takes a digit key for one of 6 to 10 while shift is down.     *)
(*                                                                         *)
(* F1 to F10 stand for keys held down.  The code fills the queue for them  *)
(* and leaves its size at 0, so that nothing follows the first event.      *)
(* Their delay is not there either: KEY_STATE_RELEASED & HOLDME is 0, and  *)
(* the branch of key_poll that looks for HOLDME is never taken.            *)
(***************************************************************************)
EXTENDS Integers, Sequences

CONSTANTS OtherKeys     \* the keys that are neither digits nor shift

SHIFT == 6
Digits == 1 .. 5
Keys == Digits \cup {SHIFT} \cup OtherKeys
Events == [state : {"PRESSED", "RELEASED"}, id : Keys]
Press(k) == [state |-> "PRESSED", id |-> k]
Release(k) == [state |-> "RELEASED", id |-> k]

ASSUME KeysAssumption == OtherKeys \subseteq Nat \ (0 .. SHIFT)

VARIABLES
    qk,                     \* qk[0] to qk[2]
    queuesize, queuepos,
    down,                   \* application: the keys it believes to be down
    decoded,                \* application: the digit it made of the keystroke
    typed,                  \* history: the digit of the last keystroke, or 0
    held                    \* history: keys whose release was never queued

vars == <<qk, queuesize, queuepos, down, decoded, typed, held>>

Init == /\ qk = [i \in 0 .. 2 |-> Release(1)]
        /\ queuesize = 0 /\ queuepos = 0
        /\ down = {} /\ decoded = 0 /\ typed = 0 /\ held = {}

(***************************************************************************)
(* The application gets an event.                                          *)
(***************************************************************************)
Gets(e) == down' = IF e.state = "PRESSED" THEN down \cup {e.id} ELSE down \ {e.id}
Decode(e, old) == IF e.state = "PRESSED" /\ e.id \in Digits
                  THEN e.id + (IF SHIFT \in down THEN 5 ELSE 0) ELSE old

(***************************************************************************)
(* key_poll with events in the queue.                                      *)
(***************************************************************************)
\* A slip: HOLDME is not cleared, and the queue waits for ever.
PollQueueHolds == queuesize # 0 /\ UNCHANGED vars

PollQueue == /\ queuesize # 0
             /\ LET e == qk[queuepos] IN
                  /\ Gets(e)
                  /\ decoded' = Decode(e, decoded)
                  /\ held' = IF e.state = "RELEASED" THEN held \ {e.id} ELSE held
             /\ IF queuepos + 1 = queuesize
                THEN queuepos' = 0 /\ queuesize' = 0
                ELSE queuepos' = queuepos + 1 /\ UNCHANGED queuesize
             /\ UNCHANGED <<qk, typed>>

(***************************************************************************)
(* key_poll with an empty queue and a character typed.                     *)
(***************************************************************************)
\* 1 to 5, and keys that are no digits.
KeyPressed(k) == /\ queuesize = 0
                 /\ queuesize' = 1
                 /\ qk' = [qk EXCEPT ![0] = Release(k)]
                 /\ Gets(Press(k))
                 /\ decoded' = Decode(Press(k), 0)
                 /\ typed' = IF k \in Digits THEN k ELSE 0
                 /\ UNCHANGED <<queuepos, held>>

\* A slip: the release of shift is queued before that of the digit.
Key6To10Early(k) == /\ queuesize = 0
                    /\ queuesize' = 3
                    /\ qk' = [i \in 0 .. 2 |-> <<Release(SHIFT), Press(k), Release(k)>>[i + 1]]
                    /\ Gets(Press(SHIFT))
                    /\ decoded' = 0 /\ typed' = k + 5
                    /\ UNCHANGED <<queuepos, held>>

\* A slip: the third event is not counted.
Key6To10Two(k) == /\ queuesize = 0
                  /\ queuesize' = 2
                  /\ qk' = [i \in 0 .. 2 |-> <<Press(k), Release(k), Release(SHIFT)>>[i + 1]]
                  /\ Gets(Press(SHIFT))
                  /\ decoded' = 0 /\ typed' = k + 5
                  /\ UNCHANGED <<queuepos, held>>

\* 6 to 0: shift, the digit, and both up again.
Key6To10Pressed(k) == /\ queuesize = 0
                      /\ queuesize' = 3
                      /\ qk' = [i \in 0 .. 2 |-> <<Press(k), Release(k), Release(SHIFT)>>[i + 1]]
                      /\ Gets(Press(SHIFT))
                      /\ decoded' = 0 /\ typed' = k + 5
                      /\ UNCHANGED <<queuepos, held>>

\* F1 to F5.
KeyHeld(k) == /\ queuesize = 0
              /\ qk' = [qk EXCEPT ![0] = Release(k)]
              /\ Gets(Press(k))
              /\ decoded' = Decode(Press(k), 0)
              /\ typed' = k
              /\ held' = held \cup {k}
              /\ UNCHANGED <<queuesize, queuepos>>

\* F6 to F10: the digit itself is never delivered.
Key6To10Held(k) == /\ queuesize = 0
                   /\ qk' = [i \in 0 .. 2 |-> <<Press(k), Release(k), Release(SHIFT)>>[i + 1]]
                   /\ Gets(Press(SHIFT))
                   /\ decoded' = 0 /\ typed' = k + 5
                   /\ held' = held \cup {SHIFT}
                   /\ UNCHANGED <<queuesize, queuepos>>

Typed == \/ \E k \in Digits \cup OtherKeys : KeyPressed(k)
         \/ \E k \in Digits : Key6To10Pressed(k) \/ KeyHeld(k) \/ Key6To10Held(k)

Next == PollQueue \/ Typed
Spec == Init /\ [][Next]_vars
FairSpec == Spec /\ WF_vars(PollQueue)

(***************************************************************************)
(* Properties.                                                             *)
(***************************************************************************)
\* The state is well formed; the position is inside the queue.
TypeOK == /\ qk \in [0 .. 2 -> Events]
          /\ queuesize \in 0 .. 3 /\ queuepos \in 0 .. 2
          /\ IF queuesize = 0 THEN queuepos = 0 ELSE queuepos < queuesize
          /\ down \subseteq Keys /\ held \subseteq Keys
          /\ decoded \in 0 .. 10 /\ typed \in 0 .. 10

(***************************************************************************)
(* Every key the application believes to be down will be released by an    *)
(* event that is already queued; only keys typed as held stay down.        *)
(***************************************************************************)
Queued == {qk[i] : i \in queuepos .. (queuesize - 1)}
NoKeyStaysDown == \A k \in down \ held : Release(k) \in Queued

(***************************************************************************)
(* The application reads the digit that was typed, through the events of   *)
(* the keystrokes before it, unless a shift typed as held is still down.   *)
(***************************************************************************)
DigitAsTyped == decoded # 0 => decoded = typed \/ SHIFT \in held

(***************************************************************************)
(* A digit typed with shift is eventually read as that digit, whatever was *)
(* typed before it and is typed while its events are queued.               *)
(***************************************************************************)
DigitIsRead == (typed > 5 /\ queuesize # 0) ~> decoded = typed
=============================================================================
