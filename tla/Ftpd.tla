-------------------------------- MODULE Ftpd --------------------------------
(***************************************************************************)
(* The radio's FTP server: the main process, which accepts clients and     *)
(* forks, and one session at a time with its client.  A session waits in   *)
(* select for a command line or a data connection.  Reading a line and     *)
(* taking or sending a file block without a timeout.                       *)
(*                                                                         *)
(* The client sends its next command when the last one is answered, may    *)
(* send a line in two pieces, connects to the data listener and closes any *)
(* of its connections at any time.  Replies are kept by their first digit, *)
(* arguments by what they lead to; results of file system calls are free,  *)
(* since other processes use the same files; but while a file is stored    *)
(* nobody makes room on the flash.  A handle of -1 is 0 here.              *)
(***************************************************************************)
EXTENDS Integers, Sequences

CONSTANTS
    Timeout,        \* tv at the start of a session: 30 seconds
    Ports,          \* what CONFIG_ANY_PORT may lead to
    Backlog,        \* data connections the kernel queues for a listener
    MaxFds,         \* descriptors the main process may have
    MaxRoom,        \* bytes left on the flash when a file is stored
    MaxSent         \* bound: bytes of a file sent by the client

ASSUME TimeoutAssumption == Timeout \in Nat
ASSUME PortsAssumption == Ports \subseteq Nat \ {0}
ASSUME BacklogAssumption == Backlog \in Nat /\ MaxFds \in Nat
ASSUME StoreAssumption == MaxRoom \in Nat /\ MaxSent \in Nat

VARIABLES
    anonusername,   \* given with anonroot, or NULL
    kept,           \* client connections open in the main process
    pc,             \* where the session is; "none" before fork
    state,          \* logged in or out
    username,
    uid, root,      \* what setuid and chroot made of the process
    rnfr,           \* the file to be renamed, "none" at first
    datal, datap,   \* port of the listener, of the connection's listener
    sockets,        \* number of data sockets the process has open
    tv,             \* what select leaves of its timeout
    asked,          \* client: its last command
    line,           \* client: how much of it is on its way
    control,        \* client: its end of the control connection
    replies,        \* client: replies to its last command
    waiting,        \* client: data connections not yet accepted
    peer,           \* client: its end of the data connection
    sent, written,  \* bytes of the file stored: sent by the client, in the file
    old,            \* length of the file that was there before
    room,           \* bytes left on the flash
    last,           \* history: bytes of the last read of ftpd_stor
    silent,         \* history: why the last command gets no reply (see Silence)
    idle            \* history: time since a client last did something

login == <<state, username, uid, root, rnfr>>
data == <<datal, datap, sockets, waiting, peer>>
file == <<sent, written, old, room, last>>
client == <<asked, line, control, replies, silent>>
main == <<anonusername, kept>>
vars == <<main, pc, login, data, tv, client, file, idle>>

(***************************************************************************)
(* Commands.  NOOP also stands for FEAT and for lines that are no command, *)
(* CWD for PWD, TYPE, MKD, RMD, DELE and PORT.                             *)
(***************************************************************************)
Commands == {"NOOP", "QUIT", "USER", "PASS", "PASV", "LIST", "RETR", "STOR",
             "CWD", "RNFR", "RNTO"}
Replies == {"1xx", "2xx", "3xx", "4xx", "5xx"}
Users == {"none", "anonymous", "known", "unknown"}

\* "unserved": RETR or STOR without a data connection; "killed": fork failed,
\* or the session's process has ended without a word.
Silence == {"no", "unserved", "killed"}

Active == pc \notin {"none", "ended"}
Final == Replies \ {"1xx"}
Answered == replies # <<>> /\ replies[Len(replies)] \in Final
Reply(r) == replies' = Append(replies, r)

Open(fd) == IF fd = 0 THEN 0 ELSE 1

Init == /\ anonusername \in {"NULL", "user"} /\ kept = 0
        /\ pc = "none" /\ state = "LOGOUT" /\ username = "none"
        /\ uid = "root" /\ root = "system" /\ rnfr = "none"
        /\ datal = 0 /\ datap = 0 /\ sockets = 0 /\ waiting = 0 /\ peer = "none"
        /\ tv = 0 /\ idle = 0
        /\ asked = "NOOP" /\ line = "none" /\ control = "open" /\ replies = <<>>
        /\ sent = 0 /\ written = 0 /\ old = 0 /\ room = 0 /\ last = 0
        /\ silent = "no"

(***************************************************************************)
(* The main process.  It forks for each client and keeps its own copy of   *)
(* the connection; when it has no descriptor left accept fails, for ever.  *)
(***************************************************************************)
\* The start of ftpd_session, in a process that is still root.
NewSession ==
    /\ state' = "LOGOUT" /\ username' = "none" /\ rnfr' = "none"
    /\ uid' = "root" /\ root' = "system"
    /\ datal' = 0 /\ datap' = 0 /\ sockets' = 0 /\ waiting' = 0 /\ peer' = "none"
    /\ tv' = Timeout /\ idle' = 0
    /\ asked' = "NOOP" /\ line' = "none" /\ control' = "open"
    /\ sent' = 0 /\ written' = 0 /\ old' = 0 /\ room' = 0 /\ last' = 0

\* fork may fail; if not, the session greets the client.
Accept == /\ ~Active
          /\ kept < MaxFds
          /\ kept' = kept + 1
          /\ pc' \in {"select", "none"}
          /\ replies' = IF pc' = "select" THEN <<"2xx">> ELSE <<>>
          /\ silent' = IF pc' = "select" THEN "no" ELSE "killed"
          /\ NewSession
          /\ UNCHANGED anonusername

AcceptFails == ~Active /\ kept = MaxFds /\ UNCHANGED vars

(***************************************************************************)
(* The client.                                                             *)
(***************************************************************************)
Send(c) == /\ Active /\ control = "open" /\ Answered /\ line = "none"
           /\ asked' = c
           /\ line' \in {"half", "whole"}
           /\ replies' = <<>>
           /\ silent' = "no"
           /\ sent' = 0 /\ written' = 0 /\ old' = 0 /\ room' = 0 /\ last' = 0
           /\ UNCHANGED <<main, pc, login, data, tv, control, idle>>

FinishLine == /\ Active /\ line = "half" /\ control = "open"
              /\ line' = "whole"
              /\ UNCHANGED <<main, pc, login, data, tv, asked, control, replies, silent, file, idle>>

Hangup == /\ Active /\ control = "open"
          /\ control' = "closed"
          /\ UNCHANGED <<main, pc, login, data, tv, asked, line, replies, silent, file, idle>>

ConnectData == /\ Active /\ datal # 0 /\ waiting < Backlog
               /\ waiting' = waiting + 1
               /\ UNCHANGED <<main, pc, login, datal, datap, sockets, peer, tv, client, file, idle>>

CloseData == /\ Active /\ peer = "open"
             /\ peer' = "closed"
             /\ UNCHANGED <<main, pc, login, datal, datap, sockets, waiting, tv, client, file, idle>>

(***************************************************************************)
(* The end of ftpd_session, whichever way it comes about.  The control     *)
(* connection stays open in the main process: the client does not see it.  *)
(***************************************************************************)
Close == /\ pc' = "ended"
         /\ datal' = 0 /\ datap' = 0 /\ sockets' = 0 /\ waiting' = 0 /\ peer' = "none"
         /\ UNCHANGED <<main, login, tv, asked, line, control, file, idle>>

End == Close /\ UNCHANGED silent
EndSilently == Close /\ silent' = "killed" /\ UNCHANGED replies

\* Writing to a connection that the client has closed may raise SIGPIPE.
BrokenPipe == /\ \/ control = "closed" /\ pc \in {"getline", "stor", "retr"}
                 \/ pc = "retr" /\ peer = "closed"
              /\ EndSilently

(***************************************************************************)
(* The select loop of ftpd_session.  A data connection goes first.  Linux  *)
(* leaves in tv the time that was not waited, and tv is not set again.     *)
(***************************************************************************)
Ready == waiting > 0 \/ line # "none" \/ control = "closed"

ftpd_accept(listener) == {listener, 0}

AcceptData == /\ pc = "select" /\ waiting > 0
              /\ waiting' = waiting - 1
              /\ datap' \in ftpd_accept(datal)
              /\ peer' = IF datap' = 0 THEN "none" ELSE "open"
              /\ sockets' = (sockets - Open(datap)) + Open(datap')
              /\ idle' = 0
              /\ UNCHANGED <<main, pc, login, datal, tv, client, file>>

StartLine == /\ pc = "select" /\ waiting = 0 /\ Ready
             /\ pc' = "getline"
             /\ idle' = 0
             /\ UNCHANGED <<main, login, data, tv, client, file>>

\* A slip: the time may run out unnoticed.
ElapseOn == /\ pc = "select" /\ ~Ready
            /\ tv' = tv - 1
            /\ idle' = idle + 1
            /\ UNCHANGED <<main, pc, login, data, client, file>>

Elapse == /\ pc = "select" /\ ~Ready /\ tv > 0
          /\ tv' = tv - 1
          /\ idle' = idle + 1
          /\ UNCHANGED <<main, pc, login, data, client, file>>

\* A slip: the session is told and goes on.
TimesOutOnly == /\ pc = "select" /\ ~Ready /\ tv = 0
                /\ UNCHANGED vars

TimesOut == /\ pc = "select" /\ ~Ready /\ tv = 0
            /\ Reply("4xx")
            /\ End

SelectFails == pc = "select" /\ EndSilently

\* net_getline meets the end of the connection.
LineFails == /\ pc = "getline" /\ control = "closed" /\ line # "whole"
             /\ Reply("5xx")
             /\ End

(***************************************************************************)
(* ftpd_cmd: a whole line has been read.  Commands answered at once:       *)
(***************************************************************************)
Got(c) == pc = "getline" /\ line = "whole" /\ asked = c

Return == /\ pc' = "select" /\ line' = "none"
          /\ UNCHANGED <<main, tv, asked, control, idle>>

Done == Return /\ UNCHANGED silent

In(c) == Got(c) /\ state = "LOGIN"
Out(c) == Got(c) /\ state = "LOGOUT"

Quit == Got("QUIT") /\ Reply("2xx") /\ End

Noop == /\ Got("NOOP")
        /\ \E r \in {"2xx", "5xx"} : Reply(r)
        /\ Done /\ UNCHANGED <<login, data, file>>

\* Log in first, or USER and PASS when logged in.
Refused == /\ \E c \in Commands \ {"NOOP", "QUIT"} :
                 IF c \in {"USER", "PASS"} THEN In(c) ELSE Out(c)
           /\ Reply("5xx")
           /\ Done /\ UNCHANGED <<login, data, file>>

Cwd == /\ In("CWD")
       /\ \E r \in {"2xx", "5xx"} : Reply(r)
       /\ Done /\ UNCHANGED <<login, data, file>>

Rnfr == /\ In("RNFR")
        /\ \/ Reply("5xx") /\ UNCHANGED rnfr
           \/ Reply("3xx") /\ rnfr' = "file"
        /\ Done /\ UNCHANGED <<state, username, uid, root, data, file>>

Rnto == /\ In("RNTO")
        /\ \/ Reply("5xx")
           \/ rnfr # "none" /\ Reply("2xx")
        /\ Done /\ UNCHANGED <<login, data, file>>

(***************************************************************************)
(* Logging in.  An anonymous user is put into a directory of its own       *)
(* before the process gives up being root, which it can do only once.      *)
(***************************************************************************)
User == /\ Out("USER")
        /\ username' \in Users
        /\ Reply("3xx")
        /\ Done /\ UNCHANGED <<state, uid, root, rnfr, data, file>>

Fail == Reply("5xx") /\ UNCHANGED <<state, uid>>

LogIn(as) == state' = "LOGIN" /\ uid' = as /\ Reply("2xx")

\* A slip: setuid goes before chroot, which then fails.
PassAnonymousLate ==
    /\ username = "anonymous" /\ anonusername # "NULL"
    /\ \/ uid' = "anonymous" /\ Reply("5xx") /\ UNCHANGED <<root, state>>
       \/ Fail /\ UNCHANGED root

PassAnonymous ==
    /\ username = "anonymous" /\ anonusername # "NULL"
    /\ \/ Fail /\ UNCHANGED root                    \* chroot fails
       \/ root' = "anonroot" /\ Fail                \* no such user
       \/ root' = "anonroot" /\ LogIn("anonymous")

PassUser == /\ username = "known"
            /\ UNCHANGED root
            /\ Fail \/ LogIn("known")

Pass == /\ Out("PASS")
        /\ \/ PassAnonymous
           \/ PassUser
           \/ /\ \/ username \in {"none", "unknown"}
                 \/ username = "anonymous" /\ anonusername = "NULL"
              /\ Fail /\ UNCHANGED root
        /\ Done /\ UNCHANGED <<username, rnfr, data, file>>

(***************************************************************************)
(* PASV closes what there is and opens a listener on a new port.           *)
(***************************************************************************)
\* A slip: the data connection is not closed.
PasvClosesListener == Open(datal)

PasvCloses == Open(datal) + Open(datap)

\* A slip: the data connection of the old listener is kept.
PasvKeeps == /\ In("PASV")
             /\ \E p \in Ports : datal' = p /\ Reply("2xx")
             /\ waiting' = 0
             /\ sockets' = (sockets - Open(datal)) + Open(datal')
             /\ Done /\ UNCHANGED <<login, file, datap, peer>>

ftpd_openlistener == Ports \cup {0}

\* Tells the client the port, if there is a listener and its name is found.
ftpd_pasv(dp) == IF dp = 0 THEN {"5xx"} ELSE {"2xx", "5xx"}

Pasv == /\ In("PASV")
        /\ datal' \in ftpd_openlistener
        /\ \E r \in ftpd_pasv(datal') : Reply(r)
        /\ datap' = 0 /\ peer' = "none" /\ waiting' = 0
        /\ sockets' = (sockets - PasvCloses) + Open(datal')
        /\ Done /\ UNCHANGED <<login, file>>

(***************************************************************************)
(* Transfers, and closing the data connection after one.  Without a data   *)
(* connection LIST complains, RETR and STOR return without a reply.        *)
(***************************************************************************)
CloseDatap == /\ datap' = 0 /\ peer' = "none"
              /\ sockets' = sockets - 1
              /\ UNCHANGED <<datal, waiting>>

NoConnection == /\ datap = 0
                /\ \/ In("LIST") /\ Reply("5xx") /\ UNCHANGED silent
                   \/ /\ In("RETR") \/ In("STOR")
                      /\ silent' = "unserved" /\ UNCHANGED replies
                /\ Return /\ UNCHANGED <<login, data, file>>

\* stat and open, before and after the first reply.
Refusals == {<<"5xx">>, <<"1xx", "5xx">>}

TransferRefused == /\ datap # 0
                   /\ In("RETR") \/ In("STOR")
                   /\ \E r \in Refusals : replies' = replies \o r
                   /\ CloseDatap
                   /\ Done /\ UNCHANGED <<login, file>>

Begin == /\ datap # 0
         /\ Reply("1xx")
         /\ line' = "none"
         /\ UNCHANGED <<main, login, data, tv, asked, control, silent, idle>>

\* LIST, and RETR, which lists a directory.
Retr == /\ In("LIST") \/ In("RETR")
        /\ Begin /\ pc' = "retr" /\ UNCHANGED file

\* A new file, or one that is there already: open does not truncate it.
Stor == /\ In("STOR")
        /\ Begin /\ pc' = "stor"
        /\ room' \in 0 .. MaxRoom /\ old' \in {0, MaxSent}
        /\ UNCHANGED <<sent, written, last>>

Finish(r) == /\ Reply(r)
             /\ CloseDatap
             /\ pc' = "select"
             /\ UNCHANGED <<main, login, tv, asked, line, control, silent, idle>>

\* A slip: no reply follows the "150".
RetrEndsSilently == /\ pc = "retr" /\ CloseDatap /\ pc' = "select"
                    /\ UNCHANGED <<main, login, tv, client, file, idle>>

RetrEnds == pc = "retr" /\ Finish("2xx") /\ UNCHANGED file

\* A slip: the loop reads on after a write that failed.
StorReadsOn(n) == /\ pc = "stor" /\ peer = "open" /\ sent + n <= MaxSent
                  /\ sent' = sent + n /\ last' = n
                  /\ written' = written + (IF n <= room THEN n ELSE room)
                  /\ room' = room - (IF n <= room THEN n ELSE room)
                  /\ UNCHANGED <<main, pc, login, data, tv, client, old, idle>>

\* One turn of the loop in ftpd_stor: the client's bytes, as far as they fit;
\* a write that was short is taken for one that was made.
StorReads(n) == /\ pc = "stor" /\ peer = "open" /\ room > 0 /\ sent + n <= MaxSent
                /\ sent' = sent + n /\ last' = n
                /\ written' = written + (IF n <= room THEN n ELSE room)
                /\ room' = room - (IF n <= room THEN n ELSE room)
                /\ UNCHANGED <<main, pc, login, data, tv, client, old, idle>>

\* The write fails, and the loop ends.
StorWriteFails == /\ pc = "stor" /\ peer = "open" /\ room = 0 /\ sent < MaxSent
                  /\ sent' = sent + 1 /\ last' = 1
                  /\ UNCHANGED <<written, old, room>>
                  /\ Finish("5xx")

\* The client has closed its end, or the read fails.
StorEnds == /\ pc = "stor" /\ peer = "closed"
            /\ Finish("2xx") \/ Finish("5xx")
            /\ UNCHANGED file
----------------------------------------------------------------------------
Client == \/ \E c \in Commands : Send(c)
          \/ FinishLine \/ Hangup \/ ConnectData \/ CloseData

\* What the session does without the client's help.
Server == \/ AcceptData \/ StartLine \/ Elapse \/ TimesOut \/ LineFails
          \/ Quit \/ Noop \/ Refused \/ Cwd \/ Rnfr \/ Rnto \/ User \/ Pass \/ Pasv
          \/ NoConnection \/ TransferRefused \/ Retr \/ Stor
          \/ RetrEnds \/ StorEnds

Failure == BrokenPipe \/ SelectFails

Storing == StorWriteFails \/ \E n \in 1 .. MaxSent : StorReads(n)

Next == Accept \/ AcceptFails \/ Client \/ Server \/ Failure \/ Storing

Spec == Init /\ [][Next]_vars

\* The session is a sequential program: it goes on unless it waits for the client.
FairSpec == Spec /\ WF_vars(Server)
----------------------------------------------------------------------------
TypeOK == /\ anonusername \in {"NULL", "user"} /\ kept \in 0 .. MaxFds
          /\ pc \in {"none", "select", "getline", "retr", "stor", "ended"}
          /\ state \in {"LOGOUT", "LOGIN"} /\ username \in Users
          /\ uid \in {"root", "anonymous", "known"} /\ root \in {"system", "anonroot"}
          /\ rnfr \in {"none", "file"}
          /\ datal \in Ports \cup {0} /\ datap \in Ports \cup {0}
          /\ sockets \in 0 .. 2 /\ waiting \in 0 .. Backlog
          /\ peer \in {"none", "open", "closed"}
          /\ tv \in 0 .. Timeout /\ idle \in 0 .. Timeout
          /\ asked \in Commands /\ line \in {"none", "half", "whole"}
          /\ control \in {"open", "closed"} /\ replies \in Seq(Replies)
          /\ sent \in 0 .. MaxSent /\ written \in 0 .. MaxRoom /\ room \in 0 .. MaxRoom
          /\ old \in 0 .. MaxSent /\ last \in 0 .. MaxSent /\ silent \in Silence

(***************************************************************************)
(* A client gets one final reply to a command, after at most one "150",    *)
(* and when the session is back in select it has got it: a transfer that   *)
(* has begun is always reported.  Only RETR and STOR without a data        *)
(* connection go unanswered, ftpd_stor and ftpd_retr returning at once.    *)
(***************************************************************************)
OneReply ==
    Active =>
      /\ Len(replies) <= 2
      /\ Len(replies) = 2 => replies[1] = "1xx" /\ replies[2] \in Final
      /\ pc = "select" /\ line = "none" => Answered \/ silent = "unserved"

(***************************************************************************)
(* No data socket is left open: the process has those that datal and datap *)
(* hold, through every order of PASV, connections and transfers.           *)
(***************************************************************************)
NoSocketLeft == sockets = Open(datal) + Open(datap)

(***************************************************************************)
(* A transfer uses a connection to the listener of the last PASV, never    *)
(* one that was made for an earlier one, and never a closed handle.        *)
(***************************************************************************)
ConnectionIsCurrent ==
    /\ datap # 0 => datap = datal
    /\ pc \in {"retr", "stor"} => datap # 0

(***************************************************************************)
(* "226 Transfer OK" is not sent for a file with a hole: ftpd_stor does    *)
(* not compare what write took with what it was given, but a write that    *)
(* was short leaves no room for the next one, which fails and is reported. *)
(* So all that a confirmed file may lack is the end of the last block.     *)
(***************************************************************************)
Confirmed == asked = "STOR" /\ replies = <<"1xx", "2xx">>
StoredWhole == Confirmed => written = sent \/ sent - written < last

(***************************************************************************)
(* ftpd.h: "226 Transfer OK", and "524 Download interrupted, created file  *)
(* may be incomplete" otherwise.  A file whose transfer was confirmed is   *)
(* what the client sent: all of it, and nothing of an older file.          *)
(***************************************************************************)
StoredExactly == Confirmed => written = sent /\ old <= written

(***************************************************************************)
(* A session is root until a login succeeds, so that every failed attempt  *)
(* leaves the next one possible, and afterwards is the user it logged in;  *)
(* an anonymous user is in the anonymous directory.                        *)
(***************************************************************************)
LoginConsistent ==
    Active => IF state = "LOGOUT" THEN uid = "root"
              ELSE uid = username /\ (uid = "anonymous" => root = "anonroot")

(***************************************************************************)
(* A client that waits for a reply gets one, as long as the session does   *)
(* not wait for the client: in the middle of a line, for the bytes of a    *)
(* file, or for the client to take them; and as long as the client does    *)
(* not go on making data connections, which come before the command.       *)
(*                                                                         *)
(* Not so when fork fails, a broken pipe kills the session or select fails *)
(* (silent = "killed"): the main process holds the connection open, so     *)
(* that such a client gets neither a reply nor the end of the connection,  *)
(* and waits for ever.                                                     *)
(***************************************************************************)
OnClient == \/ pc = "getline" /\ line = "half"
            \/ pc \in {"retr", "stor"} /\ peer = "open"
            \/ pc = "select" /\ waiting > 0
ClientNotStuck ==
    []<>(kept = 0 \/ Answered \/ control = "closed" \/ OnClient \/ silent = "killed")
=============================================================================
