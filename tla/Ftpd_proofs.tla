---------------------------- MODULE Ftpd_proofs ----------------------------
(***************************************************************************)
(* Proofs about an FTP session (Ftpd), for every timeout, set of ports,    *)
(* backlog and size of file, and about the main process (FtpdMain), for    *)
(* every set of clients and number of descriptors.                         *)
(***************************************************************************)
EXTENDS Ftpd, FtpdMain, TLAPS

USE TimeoutAssumption, PortsAssumption, BacklogAssumption, StoreAssumption

(***************************************************************************)
(* What makes TypeOK inductive: select leaves the time that was not        *)
(* waited, a file is written into the room there was, a handle is closed   *)
(* once, and the client does not speak while a file is transferred.        *)
(***************************************************************************)
Sums == tv + idle <= Timeout /\ written + room <= MaxRoom

Turns == Active =>
           /\ line # "none" => replies = <<>> /\ sent = 0 /\ written = 0
           /\ pc \in {"retr", "stor"} => line = "none" /\ replies = <<"1xx">>
           /\ pc = "stor" => /\ asked = "STOR"
                             /\ (written = sent \/ (room = 0 /\ sent - written < last))
           /\ pc = "retr" => asked # "STOR"

Base == TypeOK /\ Sums /\ Turns /\ NoSocketLeft /\ ConnectionIsCurrent

(***************************************************************************)
(* "150" alone is no answer.                                               *)
(***************************************************************************)
LEMMA NotYet == replies = <<"1xx">> => ~Answered
  BY DEF Answered, Final

(***************************************************************************)
(* Replies stay replies.                                                   *)
(***************************************************************************)
LEMMA RepliesType ==
    ASSUME NEW r \in Replies, replies \in Seq(Replies)
    PROVE  Append(replies, r) \in Seq(Replies)
  OBVIOUS

(***************************************************************************)
(* Up to two replies are a sequence of replies.                            *)
(***************************************************************************)
LEMMA ShortReplies ==
    ASSUME NEW r \in Replies, NEW s \in Replies
    PROVE  <<>> \in Seq(Replies) /\ <<r>> \in Seq(Replies) /\ <<r, s>> \in Seq(Replies)
  OBVIOUS

(***************************************************************************)
(* The first reply to a command.                                           *)
(***************************************************************************)
LEMMA FirstReply == ASSUME NEW r PROVE Append(<<>>, r) = <<r>>
  OBVIOUS

(***************************************************************************)
(* The reply that follows "150".                                           *)
(***************************************************************************)
LEMMA SecondReply ==
    ASSUME NEW r \in Final, NEW s, s = Append(<<"1xx">>, r)
    PROVE  s # <<>> /\ Len(s) = 2 /\ s[1] = "1xx" /\ s[2] = r /\ s[Len(s)] \in Final
<1>1. Len(s) = 2 /\ s[1] = "1xx" /\ s[2] = r
  OBVIOUS
<1>2. Len(<<>>) = 0
  OBVIOUS
<1>3. QED
  BY <1>1, <1>2

(***************************************************************************)
(* The inductive invariant of a session.                                   *)
(***************************************************************************)
LEMMA BaseInvariant == Spec => []Base
<1>1. Init => Base
  BY DEF Init, Base, TypeOK, Sums, Turns, NoSocketLeft, ConnectionIsCurrent,
       Open, Replies, Active, Users, Commands, Silence
<1>2. Base /\ [Next]_vars => Base'
  <2> SUFFICES ASSUME Base, [Next]_vars PROVE Base'
    OBVIOUS
  <2> USE NotYet, FirstReply DEF Base, TypeOK, Sums, Turns, NoSocketLeft,
       ConnectionIsCurrent, Open, Active, Users, Commands, main, login, data,
       client, file, Silence
  <2>1. CASE Accept
    <3>1. pc' \in {"select", "none"} /\ replies' \in {<<"2xx">>, <<>>}
      BY <2>1 DEF Accept
    <3>2. replies' \in Seq(Replies)
      <4>1. "2xx" \in Replies
        BY DEF Replies
      <4>2. <<>> \in Seq(Replies) /\ <<"2xx">> \in Seq(Replies)
        BY <4>1, ShortReplies
      <4>3. QED
        BY <3>1, <4>2
    <3>3. QED
      BY <3>1, <3>2, <2>1 DEF Accept, NewSession
  <2>2. CASE AcceptFails
    BY <2>2 DEF AcceptFails, Replies, vars
  <2>3. ASSUME NEW c \in Commands, Send(c) PROVE Base'
    BY <2>3 DEF Send, Replies
  <2>4. CASE FinishLine
    BY <2>4 DEF FinishLine, Replies
  <2>5. CASE Hangup
    BY <2>5 DEF Hangup, Replies
  <2>6. CASE ConnectData
    BY <2>6 DEF ConnectData, Replies
  <2>7. CASE CloseData
    BY <2>7 DEF CloseData, Replies
  <2>8. CASE AcceptData
    BY <2>8 DEF AcceptData, ftpd_accept, Replies
  <2>9. CASE StartLine
    BY <2>9 DEF StartLine, Replies
  <2>10. CASE Elapse
    BY <2>10 DEF Elapse, Replies
  <2>11. CASE TimesOut
    BY <2>11 DEF TimesOut, Reply, End, Close, Replies
  <2>12. CASE LineFails
    BY <2>12 DEF LineFails, Reply, End, Close, Replies
  <2>13. CASE Quit
    BY <2>13 DEF Quit, Got, Reply, End, Close, Replies
  <2>14. CASE Noop
    BY <2>14 DEF Noop, Got, Reply, Done, Return, Replies
  <2>15. CASE Refused
    BY <2>15 DEF Refused, In, Out, Got, Reply, Done, Return, Replies
  <2>16. CASE Cwd
    BY <2>16 DEF Cwd, In, Got, Reply, Done, Return, Replies
  <2>17. CASE Rnfr
    <3>1. PICK r \in Replies : replies' = Append(replies, r)
      BY <2>17 DEF Rnfr, Reply, Replies
    <3>2. replies' \in Seq(Replies)
      BY <3>1, RepliesType
    <3>3. QED
      BY <3>2, <2>17 DEF Rnfr, In, Got, Done, Return
  <2>18. CASE Rnto
    <3>1. PICK r \in Replies : replies' = Append(replies, r)
      BY <2>18 DEF Rnto, Reply, Replies
    <3>2. replies' \in Seq(Replies)
      BY <3>1, RepliesType
    <3>3. QED
      BY <3>2, <2>18 DEF Rnto, In, Got, Done, Return
  <2>19. CASE User
    BY <2>19 DEF User, Out, Got, Reply, Done, Return, Replies
  <2>20. CASE Pass
    <3>1. PICK r \in Replies : replies' = Append(replies, r)
      BY <2>20 DEF Pass, PassAnonymous, PassUser, Fail, LogIn, Reply, Replies
    <3>2. replies' \in Seq(Replies)
      BY <3>1, RepliesType
    <3>3. QED
      BY <3>2, <2>20 DEF Pass, PassAnonymous, PassUser, Fail, LogIn, Out, Got, Done, Return
  <2>21. CASE Pasv
    <3>1. PICK r \in Replies : replies' = Append(replies, r)
      BY <2>21 DEF Pasv, ftpd_pasv, Reply, Replies
    <3>2. replies' \in Seq(Replies)
      BY <3>1, RepliesType
    <3>3. datal' \in Ports \cup {0}
      BY <2>21 DEF Pasv, ftpd_openlistener
    <3>4. sockets' = Open(datal') /\ datap' = 0
      BY <2>21, <3>3 DEF Pasv, PasvCloses
    <3>5. sockets' \in 0 .. 2 /\ (NoSocketLeft /\ ConnectionIsCurrent)'
      BY <3>3, <3>4, <2>21 DEF Pasv, Done, Return
    <3>6. QED
      BY <3>2, <3>3, <3>4, <3>5, <2>21 DEF Pasv, In, Got, Done, Return
  <2>22. CASE NoConnection
    BY <2>22 DEF NoConnection, In, Got, Reply, Return, Replies
  <2>23. CASE TransferRefused
    <3>1. PICK r \in Refusals : replies' = replies \o r
      BY <2>23 DEF TransferRefused
    <3>2. r \in Seq(Replies)
      <4>1. "1xx" \in Replies /\ "5xx" \in Replies
        BY DEF Replies
      <4>2. <<"5xx">> \in Seq(Replies) /\ <<"1xx", "5xx">> \in Seq(Replies)
        BY <4>1, ShortReplies
      <4>3. QED
        BY <4>2 DEF Refusals
    <3>3. replies' \in Seq(Replies)
      BY <3>1, <3>2
    <3>4. QED
      BY <3>3, <2>23 DEF TransferRefused, In, Got, Done, Return, CloseDatap
  <2>24. CASE Retr
    <3>1. Active /\ line = "whole" /\ asked \in {"LIST", "RETR"}
      BY <2>24 DEF Retr, In, Got
    <3>2. replies = <<>> /\ replies' = <<"1xx">>
      BY <2>24, <3>1 DEF Retr, Begin, Reply
    <3>3. replies' \in Seq(Replies)
      BY <3>2 DEF Replies
    <3>4. QED
      BY <3>1, <3>2, <3>3, <2>24 DEF Retr, Begin
  <2>25. CASE Stor
    <3>1. Active /\ line = "whole" /\ asked = "STOR"
      BY <2>25 DEF Stor, In, Got
    <3>2. replies = <<>> /\ replies' = <<"1xx">>
      BY <2>25, <3>1 DEF Stor, Begin, Reply
    <3>3. replies' \in Seq(Replies)
      BY <3>2 DEF Replies
    <3>4. sent = 0 /\ written = 0 /\ sent' = 0 /\ written' = 0
      BY <2>25, <3>1 DEF Stor
    <3>5. PICK n \in 0 .. MaxRoom : room' = n
      BY <2>25 DEF Stor
    <3>6. QED
      BY <3>1, <3>2, <3>3, <3>4, <3>5, <2>25 DEF Stor, Begin
  <2>26. CASE RetrEnds
    BY <2>26 DEF RetrEnds, Finish, CloseDatap, Reply, Replies
  <2>27. CASE StorEnds
    <3>1. PICK r \in Replies : replies' = Append(replies, r)
      BY <2>27 DEF StorEnds, Finish, Reply, Replies
    <3>2. replies' \in Seq(Replies)
      BY <3>1, RepliesType
    <3>3. QED
      BY <3>2, <2>27 DEF StorEnds, Finish, CloseDatap
  <2>28. CASE BrokenPipe
    BY <2>28 DEF BrokenPipe, EndSilently, Close, Replies
  <2>29. CASE SelectFails
    BY <2>29 DEF SelectFails, EndSilently, Close, Replies
  <2>30. CASE StorWriteFails
    BY <2>30 DEF StorWriteFails, Finish, CloseDatap, Reply, Replies
  <2>31. ASSUME NEW n \in 1 .. MaxSent, StorReads(n) PROVE Base'
    BY <2>31 DEF StorReads, Replies
  <2>32. CASE UNCHANGED vars
    BY <2>32 DEF vars, Replies
  <2>33. QED
    BY <2>1, <2>2, <2>3, <2>4, <2>5, <2>6, <2>7, <2>8, <2>9, <2>10, <2>11,
         <2>12, <2>13, <2>14, <2>15, <2>16, <2>17, <2>18, <2>19, <2>20,
         <2>21, <2>22, <2>23, <2>24, <2>25, <2>26, <2>27, <2>28, <2>29,
         <2>30, <2>31, <2>32 DEF Next, Client, Server, Failure, Storing
<1>3. QED
  BY <1>1, <1>2, PTL DEF Spec

(***************************************************************************)
(* Type correctness: counters, handles and replies stay in their ranges,   *)
(* whatever the client does and whichever calls fail.                      *)
(***************************************************************************)
THEOREM TypeCorrect == Spec => []TypeOK
  BY BaseInvariant, PTL DEF Base

(***************************************************************************)
(* The session holds the data sockets that datal and datap name and no     *)
(* others, through every order of PASV, connections and transfers.         *)
(***************************************************************************)
THEOREM SocketsAccounted == Spec => []NoSocketLeft
  BY BaseInvariant, PTL DEF Base

(***************************************************************************)
(* A transfer uses an open connection, to the listener of the last PASV.   *)
(***************************************************************************)
THEOREM TransfersUseCurrent == Spec => []ConnectionIsCurrent
  BY BaseInvariant, PTL DEF Base

(***************************************************************************)
(* A session is root until it logs in and is afterwards the user that      *)
(* logged in; a failed login changes neither.                              *)
(***************************************************************************)
THEOREM LoginStaysConsistent == Spec => []LoginConsistent
<1>1. Init => LoginConsistent
  BY DEF Init, LoginConsistent, Active
<1>2. TypeOK /\ LoginConsistent /\ [Next]_vars => LoginConsistent'
  <2> SUFFICES ASSUME TypeOK, LoginConsistent, [Next]_vars PROVE LoginConsistent'
    OBVIOUS
  <2> USE DEF TypeOK, LoginConsistent, Active, main, login, data, client, file, Silence
  <2>1. CASE Accept
    BY <2>1 DEF Accept, NewSession
  <2>2. CASE AcceptFails
    BY <2>2 DEF AcceptFails, vars
  <2>3. ASSUME NEW c \in Commands, Send(c) PROVE LoginConsistent'
    BY <2>3 DEF Send
  <2>4. CASE FinishLine
    BY <2>4 DEF FinishLine
  <2>5. CASE Hangup
    BY <2>5 DEF Hangup
  <2>6. CASE ConnectData
    BY <2>6 DEF ConnectData
  <2>7. CASE CloseData
    BY <2>7 DEF CloseData
  <2>8. CASE AcceptData
    BY <2>8 DEF AcceptData, ftpd_accept
  <2>9. CASE StartLine
    BY <2>9 DEF StartLine
  <2>10. CASE Elapse
    BY <2>10 DEF Elapse
  <2>11. CASE TimesOut
    BY <2>11 DEF TimesOut, Reply, End, Close
  <2>12. CASE LineFails
    BY <2>12 DEF LineFails, Reply, End, Close
  <2>13. CASE Quit
    BY <2>13 DEF Quit, Got, Reply, End, Close
  <2>14. CASE Noop
    BY <2>14 DEF Noop, Got, Reply, Done, Return
  <2>15. CASE Refused
    BY <2>15 DEF Refused, In, Out, Got, Reply, Done, Return
  <2>16. CASE Cwd
    BY <2>16 DEF Cwd, In, Got, Reply, Done, Return
  <2>17. CASE Rnfr
    BY <2>17 DEF Rnfr, In, Got, Reply, Done, Return
  <2>18. CASE Rnto
    BY <2>18 DEF Rnto, In, Got, Reply, Done, Return
  <2>19. CASE User
    BY <2>19 DEF User, Out, Got, Reply, Done, Return, Users
  <2>20. CASE Pass
    BY <2>20 DEF Pass, Out, Got, Reply, Done, Return, PassAnonymous, PassUser, Fail, LogIn
  <2>21. CASE Pasv
    BY <2>21 DEF Pasv, In, Got, Reply, Done, Return, PasvCloses, ftpd_openlistener, ftpd_pasv
  <2>22. CASE NoConnection
    BY <2>22 DEF NoConnection, In, Got, Reply, Return
  <2>23. CASE TransferRefused
    BY <2>23 DEF TransferRefused, In, Got, Done, Return, CloseDatap, Refusals
  <2>24. CASE Retr
    BY <2>24 DEF Retr, In, Got, Begin, Reply
  <2>25. CASE Stor
    BY <2>25 DEF Stor, In, Got, Begin, Reply
  <2>26. CASE RetrEnds
    BY <2>26 DEF RetrEnds, Finish, CloseDatap, Reply
  <2>27. CASE StorEnds
    BY <2>27 DEF StorEnds, Finish, CloseDatap, Reply
  <2>28. CASE BrokenPipe
    BY <2>28 DEF BrokenPipe, EndSilently, Close
  <2>29. CASE SelectFails
    BY <2>29 DEF SelectFails, EndSilently, Close
  <2>30. CASE StorWriteFails
    BY <2>30 DEF StorWriteFails, Finish, CloseDatap, Reply
  <2>31. ASSUME NEW n \in 1 .. MaxSent, StorReads(n) PROVE LoginConsistent'
    BY <2>31 DEF StorReads
  <2>32. CASE UNCHANGED vars
    BY <2>32 DEF vars
  <2>33. QED
    BY <2>1, <2>2, <2>3, <2>4, <2>5, <2>6, <2>7, <2>8, <2>9, <2>10, <2>11,
         <2>12, <2>13, <2>14, <2>15, <2>16, <2>17, <2>18, <2>19, <2>20,
         <2>21, <2>22, <2>23, <2>24, <2>25, <2>26, <2>27, <2>28, <2>29,
         <2>30, <2>31, <2>32 DEF Next, Client, Server, Failure, Storing
<1>3. QED
  BY <1>1, <1>2, TypeCorrect, PTL DEF Spec

(***************************************************************************)
(* A file whose transfer is confirmed lacks at most the end of the last    *)
(* block that was sent.  While ftpd_stor runs this is the part of Turns    *)
(* about the loop: a short write leaves no room, and the next block fails. *)
(* Afterwards no other command can give these replies.                     *)
(***************************************************************************)
THEOREM ConfirmedFilesWhole == Spec => []StoredWhole
<1>1. Init => StoredWhole
  BY DEF Init, StoredWhole, Confirmed
<1>2. Base /\ StoredWhole /\ [Next]_vars => StoredWhole'
  <2> SUFFICES ASSUME Base, StoredWhole, [Next]_vars PROVE StoredWhole'
    OBVIOUS
  <2> USE DEF Base, TypeOK, Turns, StoredWhole, Confirmed, Active, main, login, data, client, file, Silence
  <2>1. CASE Accept
    BY <2>1 DEF Accept, NewSession
  <2>2. CASE AcceptFails
    BY <2>2 DEF AcceptFails, vars
  <2>3. ASSUME NEW c \in Commands, Send(c) PROVE StoredWhole'
    BY <2>3 DEF Send
  <2>4. CASE FinishLine
    BY <2>4 DEF FinishLine
  <2>5. CASE Hangup
    BY <2>5 DEF Hangup
  <2>6. CASE ConnectData
    BY <2>6 DEF ConnectData
  <2>7. CASE CloseData
    BY <2>7 DEF CloseData
  <2>8. CASE AcceptData
    BY <2>8 DEF AcceptData, ftpd_accept
  <2>9. CASE StartLine
    BY <2>9 DEF StartLine
  <2>10. CASE Elapse
    BY <2>10 DEF Elapse
  <2>11. CASE TimesOut
    BY <2>11 DEF TimesOut, Reply, End, Close
  <2>12. CASE LineFails
    BY <2>12 DEF LineFails, Reply, End, Close
  <2>13. CASE Quit
    BY <2>13 DEF Quit, Got, Reply, End, Close
  <2>14. CASE Noop
    BY <2>14 DEF Noop, Got, Reply, Done, Return
  <2>15. CASE Refused
    BY <2>15 DEF Refused, In, Out, Got, Reply, Done, Return
  <2>16. CASE Cwd
    BY <2>16 DEF Cwd, In, Got, Reply, Done, Return
  <2>17. CASE Rnfr
    BY <2>17 DEF Rnfr, In, Got, Reply, Done, Return
  <2>18. CASE Rnto
    BY <2>18 DEF Rnto, In, Got, Reply, Done, Return
  <2>19. CASE User
    BY <2>19 DEF User, Out, Got, Reply, Done, Return, Users
  <2>20. CASE Pass
    BY <2>20 DEF Pass, Out, Got, Reply, Done, Return, PassAnonymous, PassUser, Fail, LogIn
  <2>21. CASE Pasv
    BY <2>21 DEF Pasv, In, Got, Reply, Done, Return, PasvCloses, ftpd_openlistener, ftpd_pasv
  <2>22. CASE NoConnection
    BY <2>22 DEF NoConnection, In, Got, Reply, Return
  <2>23. CASE TransferRefused
    BY <2>23 DEF TransferRefused, In, Got, Done, Return, CloseDatap, Refusals
  <2>24. CASE Retr
    BY <2>24 DEF Retr, In, Got, Begin, Reply
  <2>25. CASE Stor
    BY <2>25 DEF Stor, In, Got, Begin, Reply
  <2>26. CASE RetrEnds
    BY <2>26 DEF RetrEnds, Finish, CloseDatap, Reply
  <2>27. CASE StorEnds
    BY <2>27 DEF StorEnds, Finish, CloseDatap, Reply
  <2>28. CASE BrokenPipe
    BY <2>28 DEF BrokenPipe, EndSilently, Close
  <2>29. CASE SelectFails
    BY <2>29 DEF SelectFails, EndSilently, Close
  <2>30. CASE StorWriteFails
    BY <2>30 DEF StorWriteFails, Finish, CloseDatap, Reply
  <2>31. ASSUME NEW n \in 1 .. MaxSent, StorReads(n) PROVE StoredWhole'
    BY <2>31 DEF StorReads
  <2>32. CASE UNCHANGED vars
    BY <2>32 DEF vars
  <2>33. QED
    BY <2>1, <2>2, <2>3, <2>4, <2>5, <2>6, <2>7, <2>8, <2>9, <2>10, <2>11,
         <2>12, <2>13, <2>14, <2>15, <2>16, <2>17, <2>18, <2>19, <2>20,
         <2>21, <2>22, <2>23, <2>24, <2>25, <2>26, <2>27, <2>28, <2>29,
         <2>30, <2>31, <2>32 DEF Next, Client, Server, Failure, Storing
<1>3. QED
  BY <1>1, <1>2, BaseInvariant, PTL DEF Spec

(***************************************************************************)
(* Every command gets one final reply before the session waits for the     *)
(* next, a transfer that has begun too; only RETR and STOR that find no    *)
(* data connection get none.                                               *)
(***************************************************************************)
THEOREM CommandsAnsweredOnce == Spec => []OneReply
<1>1. Init => OneReply
  BY DEF Init, OneReply, Active
<1>2. Base /\ OneReply /\ [Next]_vars => OneReply'
  <2> SUFFICES ASSUME Base, OneReply, [Next]_vars PROVE OneReply'
    OBVIOUS
  <2> USE DEF Base, TypeOK, Turns, OneReply, Answered, Final, Replies, Active,
       main, login, data, client, file, Silence
  <2>1. CASE Accept
    BY <2>1 DEF Accept, NewSession
  <2>2. CASE AcceptFails
    BY <2>2 DEF AcceptFails, vars
  <2>3. ASSUME NEW c \in Commands, Send(c) PROVE OneReply'
    BY <2>3 DEF Send
  <2>4. CASE FinishLine
    BY <2>4 DEF FinishLine
  <2>5. CASE Hangup
    BY <2>5 DEF Hangup
  <2>6. CASE ConnectData
    BY <2>6 DEF ConnectData
  <2>7. CASE CloseData
    BY <2>7 DEF CloseData
  <2>8. CASE AcceptData
    BY <2>8 DEF AcceptData, ftpd_accept
  <2>9. CASE StartLine
    BY <2>9 DEF StartLine
  <2>10. CASE Elapse
    BY <2>10 DEF Elapse
  <2>11. CASE TimesOut
    BY <2>11 DEF TimesOut, Reply, End, Close
  <2>12. CASE LineFails
    BY <2>12 DEF LineFails, Reply, End, Close
  <2>13. CASE Quit
    BY <2>13 DEF Quit, Got, Reply, End, Close
  <2>14. CASE Noop
    BY <2>14 DEF Noop, Got, Reply, Done, Return
  <2>15. CASE Refused
    BY <2>15 DEF Refused, In, Out, Got, Reply, Done, Return
  <2>16. CASE Cwd
    BY <2>16 DEF Cwd, In, Got, Reply, Done, Return
  <2>17. CASE Rnfr
    BY <2>17 DEF Rnfr, In, Got, Reply, Done, Return
  <2>18. CASE Rnto
    BY <2>18 DEF Rnto, In, Got, Reply, Done, Return
  <2>19. CASE User
    BY <2>19 DEF User, Out, Got, Reply, Done, Return, Users
  <2>20. CASE Pass
    <3>1. replies = <<>>
      BY <2>20 DEF Pass, Out, Got
    <3>2. PICK r \in Final : replies' = Append(replies, r)
      BY <2>20 DEF Pass, PassAnonymous, PassUser, Fail, LogIn, Reply
    <3>3. replies' = <<r>>
      BY <3>1, <3>2
    <3>4. QED
      BY <3>3
  <2>21. CASE Pasv
    <3>1. replies = <<>>
      BY <2>21 DEF Pasv, In, Got
    <3>2. PICK r \in Final : replies' = Append(replies, r)
      BY <2>21 DEF Pasv, ftpd_pasv, Reply
    <3>3. replies' = <<r>>
      BY <3>1, <3>2
    <3>4. QED
      BY <3>3
  <2>22. CASE NoConnection
    <3>1. replies = <<>>
      BY <2>22 DEF NoConnection, In, Got
    <3>2. \/ replies' = <<"5xx">>
          \/ replies' = <<>> /\ silent' = "unserved"
      BY <2>22, <3>1, FirstReply DEF NoConnection, Reply
    <3>3. CASE replies' = <<"5xx">>
      BY <3>3
    <3>4. CASE replies' = <<>> /\ silent' = "unserved"
      <4>1. Len(replies') = 0
        BY <3>4
      <4>2. QED
        BY <3>4, <4>1
    <3>5. QED
      BY <3>2, <3>3, <3>4
  <2>23. CASE TransferRefused
    <3>1. replies = <<>>
      BY <2>23 DEF TransferRefused, In, Got
    <3>2. replies' = <<"5xx">> \/ replies' = <<"1xx", "5xx">>
      BY <2>23, <3>1 DEF TransferRefused, Refusals
    <3>3. CASE replies' = <<"5xx">>
      BY <3>3
    <3>4. CASE replies' = <<"1xx", "5xx">>
      <4>1. Len(replies') = 2 /\ replies'[1] = "1xx" /\ replies'[2] = "5xx"
        BY <3>4
      <4>2. Answered'
        BY <3>4, <4>1
      <4>3. QED
        BY <4>1, <4>2
    <3>5. QED
      BY <3>2, <3>3, <3>4
  <2>24. CASE Retr
    BY <2>24 DEF Retr, In, Got, Begin, Reply
  <2>25. CASE Stor
    BY <2>25 DEF Stor, In, Got, Begin, Reply
  <2>26. CASE RetrEnds
    <3>1. replies = <<"1xx">>
      BY <2>26 DEF RetrEnds
    <3>2. PICK r \in Final : replies' = Append(replies, r)
      BY <2>26 DEF RetrEnds, Finish, Reply
    <3>3. /\ Len(replies') = 2 /\ replies'[1] = "1xx" /\ replies'[2] = r
          /\ Answered'
      BY <3>1, <3>2, SecondReply
    <3>4. QED
      BY <3>3
  <2>27. CASE StorEnds
    <3>1. replies = <<"1xx">>
      BY <2>27 DEF StorEnds
    <3>2. PICK r \in Final : replies' = Append(replies, r)
      BY <2>27 DEF StorEnds, Finish, Reply
    <3>3. /\ Len(replies') = 2 /\ replies'[1] = "1xx" /\ replies'[2] = r
          /\ Answered'
      BY <3>1, <3>2, SecondReply
    <3>4. QED
      BY <3>3
  <2>28. CASE BrokenPipe
    BY <2>28 DEF BrokenPipe, EndSilently, Close
  <2>29. CASE SelectFails
    BY <2>29 DEF SelectFails, EndSilently, Close
  <2>30. CASE StorWriteFails
    <3>1. replies = <<"1xx">>
      BY <2>30 DEF StorWriteFails
    <3>2. PICK r \in Final : replies' = Append(replies, r)
      BY <2>30 DEF StorWriteFails, Finish, Reply
    <3>3. /\ Len(replies') = 2 /\ replies'[1] = "1xx" /\ replies'[2] = r
          /\ Answered'
      BY <3>1, <3>2, SecondReply
    <3>4. QED
      BY <3>3
  <2>31. ASSUME NEW n \in 1 .. MaxSent, StorReads(n) PROVE OneReply'
    BY <2>31 DEF StorReads
  <2>32. CASE UNCHANGED vars
    BY <2>32 DEF vars
  <2>33. QED
    BY <2>1, <2>2, <2>3, <2>4, <2>5, <2>6, <2>7, <2>8, <2>9, <2>10, <2>11,
         <2>12, <2>13, <2>14, <2>15, <2>16, <2>17, <2>18, <2>19, <2>20,
         <2>21, <2>22, <2>23, <2>24, <2>25, <2>26, <2>27, <2>28, <2>29,
         <2>30, <2>31, <2>32 DEF Next, Client, Server, Failure, Storing
<1>3. QED
  BY <1>1, <1>2, BaseInvariant, PTL DEF Spec

----------------------------------------------------------------------------
(***************************************************************************)
(* The main process is well formed, for every set of clients.              *)
(***************************************************************************)
THEOREM MainTypeCorrect == MainSpec => []MainTypeOK
<1>1. MainInit => MainTypeOK
  BY DEF MainInit, MainTypeOK, NoClient
<1>2. MainTypeOK /\ [MainNext]_mainvars => MainTypeOK'
  <2> SUFFICES ASSUME MainTypeOK, [MainNext]_mainvars PROVE MainTypeOK'
    OBVIOUS
  <2> USE DEF MainTypeOK, mainvars
  <2>1. CASE Main
    BY <2>1 DEF Main, MainAccept, Fork
  <2>2. CASE Handler
    BY <2>2 DEF Handler, Signal, Reap, ReapEnds
  <2>3. CASE Others
    BY <2>3 DEF Others, MainAcceptFails, ForkFails,
                Connect, SessionEnds
  <2>4. CASE UNCHANGED mainvars
    BY <2>4
  <2> QED
    BY <2>1, <2>2, <2>3, <2>4 DEF MainNext
<1> QED
  BY <1>1, <1>2, PTL DEF MainSpec

(***************************************************************************)
(* However processes end and signals merge, the handler runs or will run   *)
(* while there is a process to wait for.  Only the end of a process makes  *)
(* a zombie, and it leaves a signal; the handler stops when it has seen    *)
(* that there is none.                                                     *)
(***************************************************************************)
THEOREM ZombiesRemembered == MainSpec => []NoZombieForgotten
<1>1. MainInit => NoZombieForgotten
  BY DEF MainInit, NoZombieForgotten
<1>2. MainTypeOK /\ NoZombieForgotten /\ [MainNext]_mainvars
      => NoZombieForgotten'
  <2> SUFFICES ASSUME MainTypeOK, NoZombieForgotten,
                      [MainNext]_mainvars
               PROVE  NoZombieForgotten'
    OBVIOUS
  <2> USE DEF MainTypeOK, NoZombieForgotten, mainvars
  <2>1. CASE Main
    BY <2>1 DEF Main, MainAccept, Fork
  <2>2. CASE Signal \/ ReapEnds
    BY <2>2 DEF Signal, ReapEnds
  <2>3. CASE \E c \in Clients : Reap(c)
    BY <2>3 DEF Reap
  <2>4. CASE Others
    BY <2>4 DEF Others, MainAcceptFails, ForkFails,
                Connect, SessionEnds
  <2>5. CASE UNCHANGED mainvars
    BY <2>5
  <2> QED
    BY <2>1, <2>2, <2>3, <2>4, <2>5 DEF MainNext, Handler
<1> QED
  BY <1>1, <1>2, MainTypeCorrect, PTL DEF MainSpec
============================================================================
