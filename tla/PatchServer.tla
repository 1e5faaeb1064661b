---------------------------- MODULE PatchServer ----------------------------
(***************************************************************************)
(* The patch server on the developer's PC.  The radio uses it as its name  *)
(* server: two names are answered with the PC's own address, all others    *)
(* are relayed to the real name server.  A web server in the same thread   *)
(* tells the radio where the patch is, and hands it out when it is a local *)
(* file.  Each command blocks the whole loop while it lasts.               *)
(*                                                                         *)
(* The radio asks again until it is answered, and starts again when its    *)
(* download is not what was announced.  A datagram may be lost, late or    *)
(* repeated.  The identifier of a lookup is its name here: the radio takes *)
(* an answer that carries the identifier it waits for.  The addresses of   *)
(* the real name server, the last of which to answer replaces the one that *)
(* was given, are one.  A file is its size in blocks; size 0 is no file.   *)
(***************************************************************************)
EXTENDS Integers, Sequences

CONSTANTS
    Ports,          \* what the kernel may give to a relay socket
    QueueLen,       \* datagrams the kernel keeps for the DNS listener
    Backlog,        \* connections the kernel keeps for the web listener
    MaxSize,        \* the largest patch file
    MaxFaults       \* bound: things that go wrong

ASSUME PortsAssumption == Ports \subseteq Nat \ {0}
ASSUME BoundsAssumption ==
    QueueLen \in Nat /\ Backlog \in Nat /\ MaxSize \in Nat /\ MaxFaults \in Nat

VARIABLES
    isurl,          \* _webserver_tarfile_isurl: "url" or "file"
    file,           \* the patch file on the PC's disk
    enter,          \* whether the user has pressed Enter
    pc,             \* where the server is
    isset,          \* whether the last select found the DNS listener readable
    dnsq, webq,     \* waiting at the two listeners
    conn,           \* the peer of the accepted connection
    relay,          \* port of the relay socket, 0 when there is none
    dnsnet,         \* relayed queries on their way to the name server and back
    len,            \* the size announced
    fs, sent,       \* the file that is read, and blocks of it sent
    counted,        \* history: the file that was there when it was counted
    stage, addr,    \* radio: how far it is, and the address it found last
    inbox,          \* radio: answers on their way to it
    image,          \* radio: what it has downloaded
    faults

server == <<isurl, pc, isset, conn, relay>>
net == <<dnsq, webq, dnsnet, inbox>>
transfer == <<len, fs, sent, counted>>
radio == <<stage, addr, image>>
world == <<file, enter, faults>>
vars == <<server, net, transfer, radio, world>>

\* ForgedOne is a slip: FAKESERVER is relayed.
\* www.reciva.com, FAKESERVER, the host of the patch's URL, a radio station.
ForgedOne == {"reciva"}
Forged == {"reciva", "fakeserver"}
Names == {"reciva", "fakeserver", "mirror", "station"}
Clients == {"radio", "browser", "gone"}
NoImage == [size |-> 0, blocks |-> 0, len |-> 0, counted |-> 0]

\* The name the radio looks up, by stage; the URL it got names the second.
Wanted == IF stage = "ask1" THEN "reciva"
          ELSE IF isurl = "url" THEN "mirror" ELSE "fakeserver"

Init == /\ isurl \in {"url", "file"} /\ file \in 1 .. MaxSize /\ enter = "no"
        /\ pc = "select" /\ isset = "no"
        /\ dnsq = <<>> /\ webq = <<>> /\ conn = "none" /\ relay = 0 /\ dnsnet = {}
        /\ len = 0 /\ fs = 0 /\ sent = 0 /\ counted = 0
        /\ stage = "ask1" /\ addr = "none" /\ inbox = {} /\ image = NoImage
        /\ faults = 0

Fault == faults < MaxFaults /\ faults' = faults + 1
Running == pc # "down"

\* The process is gone, and with it its sockets and what waited there.
Down == /\ pc' = "down" /\ isset' = "no" /\ conn' = "none" /\ relay' = 0
        /\ dnsq' = <<>> /\ webq' = <<>>
        /\ UNCHANGED isurl

(***************************************************************************)
(* mainloop.  Both listeners are looked at once; the web server is first.  *)
(* Enter is noticed only when nothing is waiting.                          *)
(***************************************************************************)
\* A slip: the DNS listener is read whether or not it is readable.
SelectReadsBoth == /\ pc = "select"
                   /\ webq # <<>> \/ dnsq # <<>>
                   /\ isset' = "dns"
                   /\ pc' = IF webq # <<>> THEN "accept" ELSE "dns"
                   /\ UNCHANGED <<isurl, conn, relay, net, transfer, radio, world>>

Select == /\ pc = "select"
          /\ webq # <<>> \/ dnsq # <<>>
          /\ isset' = IF dnsq # <<>> THEN "dns" ELSE "no"
          /\ pc' = IF webq # <<>> THEN "accept" ELSE "dns"
          /\ UNCHANGED <<isurl, conn, relay, net, transfer, radio, world>>

Tick == /\ pc = "select" /\ webq = <<>> /\ dnsq = <<>>
        /\ enter = "pressed"
        /\ Down
        /\ UNCHANGED <<dnsnet, inbox, transfer, radio, world>>

SelectFails == /\ pc = "select"
               /\ Down
               /\ UNCHANGED <<dnsnet, inbox, transfer, radio, world>>

(***************************************************************************)
(* webserver_command.  It ends with the connection closed, and the DNS     *)
(* listener's turn if select had found it readable.                        *)
(***************************************************************************)
CloseConn == /\ conn' = "none"
             /\ pc' = IF isset = "dns" THEN "dns" ELSE "select"
             /\ UNCHANGED <<isurl, isset, relay>>

Accept == /\ pc = "accept"
          /\ conn' = Head(webq) /\ webq' = Tail(webq)
          /\ pc' = "scan"
          /\ UNCHANGED <<isurl, isset, relay, dnsq, dnsnet, inbox, transfer, radio, world>>

AcceptFails == /\ pc = "accept" /\ Fault
               /\ webq' = Tail(webq)
               /\ CloseConn
               /\ UNCHANGED <<dnsq, dnsnet, inbox, transfer, radio, file, enter>>

\* A request of another kind, or the end of the connection instead of one.
ScanNothing == /\ pc = "scan" /\ conn \in {"browser", "gone"}
               /\ CloseConn
               /\ UNCHANGED <<net, transfer, radio, world>>

\* GET /cgi-local: where the patch is.  The radio then looks up that host.
SendInfo == /\ pc = "scan" /\ (conn = "radio" => stage = "conn1")
            /\ CloseConn
            /\ stage' = IF conn = "radio" THEN "ask2" ELSE stage
            /\ UNCHANGED <<net, transfer, addr, image, world>>

\* GET of anything else, when the patch is a URL or cannot be opened.
NoFile == /\ pc = "scan" /\ (conn = "radio" => stage = "conn2")
          /\ isurl = "url" \/ file = 0
          /\ CloseConn
          /\ UNCHANGED <<net, transfer, radio, world>>

\* The file is read once to count it, for the header ...
\* The first is a slip: the last block is not counted.
MeasureShort == /\ pc = "scan" /\ (conn = "radio" => stage = "conn2")
                /\ isurl = "file" /\ file # 0
                /\ len' = file - 1 /\ sent' = 0 /\ counted' = file
                /\ image' = IF conn = "radio" THEN NoImage ELSE image
                /\ pc' = "open"
                /\ UNCHANGED <<isurl, isset, conn, relay, net, fs, stage, addr, world>>

MeasureFile == /\ pc = "scan" /\ (conn = "radio" => stage = "conn2")
               /\ isurl = "file" /\ file # 0
               /\ len' = file /\ sent' = 0 /\ counted' = file
               /\ image' = IF conn = "radio" THEN NoImage ELSE image
               /\ pc' = "open"
               /\ UNCHANGED <<isurl, isset, conn, relay, net, fs, stage, addr, world>>

\* ... and is opened again to be sent.  It may have been replaced.
OpenFile == /\ pc = "open"
            /\ fs' = file
            /\ pc' = "send"
            /\ UNCHANGED <<isurl, isset, conn, relay, net, len, sent, counted, radio, world>>

\* The radio reads as much as the header announced.
\* The first is a slip: one block is sent after the end of the file.
SendPastEnd == /\ pc = "send" /\ sent <= fs
               /\ sent' = sent + 1
               /\ UNCHANGED <<server, net, len, fs, counted, radio, world>>

SendBlock == /\ pc = "send" /\ sent < fs
             /\ sent' = sent + 1
             /\ image' = IF conn = "radio" /\ sent < len
                         THEN [size |-> fs, blocks |-> sent + 1,
                               len |-> len, counted |-> counted]
                         ELSE image
             /\ UNCHANGED <<server, net, len, fs, counted, stage, addr, world>>

SendEnds == /\ pc = "send" /\ sent = fs
            /\ CloseConn
            /\ UNCHANGED <<net, transfer, radio, world>>

\* SIGPIPE: something is written to a peer known to be gone.
BrokenPipe == /\ conn = "gone"
              /\ pc = "scan" \/ (pc = "send" /\ sent < fs)
              /\ Down
              /\ UNCHANGED <<dnsnet, inbox, transfer, radio, world>>

(***************************************************************************)
(* dnsserver_command.                                                      *)
(***************************************************************************)
NextQuery == dnsq' = Tail(dnsq)
ToRadio(n, a) == inbox' = inbox \cup {[name |-> n, addr |-> a]}
DnsDone == pc' = "select" /\ isset' = "no" /\ relay' = 0 /\ UNCHANGED <<isurl, conn>>

Forge == /\ pc = "dns" /\ Head(dnsq) \in Forged
         /\ ToRadio(Head(dnsq), "here")
         /\ NextQuery /\ DnsDone
         /\ UNCHANGED <<webq, dnsnet, transfer, radio, world>>

Relay(p) == /\ pc = "dns" /\ Head(dnsq) \notin Forged
            /\ relay' = p
            /\ dnsnet' = dnsnet \cup {[port |-> p, name |-> Head(dnsq)]}
            /\ NextQuery
            /\ pc' = "relay"
            /\ UNCHANGED <<isurl, isset, conn, webq, inbox, transfer, radio, world>>

\* The first datagram to arrive is sent on, whatever it answers.
RelayAnswer == \E a \in dnsnet :
    /\ pc = "relay" /\ a.port = relay
    /\ ToRadio(a.name, "real")
    /\ dnsnet' = dnsnet \ {a}
    /\ DnsDone
    /\ UNCHANGED <<dnsq, webq, transfer, radio, world>>

\* The datagram cannot be read after all: nothing is sent on.
RelayRecvFails == \E a \in dnsnet :
    /\ pc = "relay" /\ a.port = relay /\ Fault
    /\ dnsnet' = dnsnet \ {a}
    /\ DnsDone
    /\ UNCHANGED <<dnsq, webq, inbox, transfer, radio, file, enter>>

OnItsWay == \E a \in dnsnet : a.port = relay

\* The answer may still be on its way, to a port that is then closed.
\* The first is a slip: without an answer the relay waits for ever.
RelayWaits == /\ pc = "relay" /\ OnItsWay /\ Fault
              /\ DnsDone
              /\ UNCHANGED <<net, transfer, radio, file, enter>>

RelayTimeout == /\ pc = "relay"
                /\ IF OnItsWay THEN Fault ELSE UNCHANGED faults
                /\ DnsDone
                /\ UNCHANGED <<net, transfer, radio, file, enter>>

\* No socket for the relay: the query is dropped.
RelaySocketFails == /\ pc = "dns" /\ Head(dnsq) \notin Forged /\ Fault
                    /\ NextQuery /\ DnsDone
                    /\ UNCHANGED <<webq, dnsnet, inbox, transfer, radio, file, enter>>

\* An error other than ECONNRESET leaves the listener as it is.
DnsRecvFails == /\ pc = "dns" /\ Fault
                /\ DnsDone
                /\ UNCHANGED <<net, transfer, radio, file, enter>>

\* After ECONNRESET the listener is opened again; what waited there is lost.
ReopenListener == /\ pc = "dns" /\ Fault
                  /\ dnsq' = <<>>
                  /\ DnsDone
                  /\ UNCHANGED <<webq, dnsnet, inbox, transfer, radio, file, enter>>

ReopenFails == /\ pc = "dns" /\ Fault
               /\ Down
               /\ UNCHANGED <<dnsnet, inbox, transfer, radio, file, enter>>

(***************************************************************************)
(* The radio: look up www.reciva.com, ask there where the patch is, look   *)
(* up that host, download.  Meanwhile it looks up stations.                *)
(***************************************************************************)
Ask(n) == /\ Running /\ Len(dnsq) < QueueLen
          /\ dnsq' = Append(dnsq, n)
          /\ UNCHANGED <<server, webq, dnsnet, inbox, transfer, radio, world>>

RadioAsks == stage \in {"ask1", "ask2"} /\ Ask(Wanted)

StationAsks == Ask("station")

RadioHears(a) ==
    /\ a \in inbox
    /\ inbox' = inbox \ {a}
    /\ IF stage \in {"ask1", "ask2"} /\ a.name = Wanted
       THEN addr' = a.addr /\ stage' = IF stage = "ask1" THEN "get1" ELSE "get2"
       ELSE UNCHANGED <<addr, stage>>
    /\ UNCHANGED <<server, dnsq, webq, dnsnet, transfer, image, world>>

RadioConnects == /\ stage \in {"get1", "get2"} /\ addr = "here"
                 /\ Running /\ Len(webq) < Backlog
                 /\ webq' = Append(webq, "radio")
                 /\ stage' = IF stage = "get1" THEN "conn1" ELSE "conn2"
                 /\ image' = NoImage
                 /\ UNCHANGED <<server, dnsq, dnsnet, inbox, transfer, addr, world>>

\* The patch is somewhere else; that download is not this server's.
RadioElsewhere == /\ stage = "get2" /\ addr = "real"
                  /\ stage' = "done"
                  /\ UNCHANGED <<server, net, transfer, addr, image, world>>

Downloaded == image.blocks > 0 /\ image.blocks = image.len
Connected == conn = "radio" \/ \E i \in 1 .. Len(webq) : webq[i] = "radio"

\* All that was announced has come.
RadioFinishes == /\ stage = "conn2" /\ Downloaded
                 /\ stage' = "done"
                 /\ conn' = IF conn = "radio" THEN "gone" ELSE conn
                 /\ UNCHANGED <<isurl, pc, isset, relay, net, transfer, addr, image, world>>

\* The connection has ended without that: the user starts again.
RadioRestarts == /\ stage \in {"conn1", "conn2"} /\ ~Connected
                 /\ stage = "conn2" => ~Downloaded
                 /\ stage' = "ask1" /\ image' = NoImage
                 /\ UNCHANGED <<server, net, transfer, addr, world>>

\* The radio gives up a connection, waiting or accepted.
RadioHangsUp ==
    /\ stage \in {"conn1", "conn2"} /\ Connected /\ Fault
    /\ stage' = "ask1" /\ image' = NoImage
    /\ conn' = IF conn = "radio" THEN "gone" ELSE conn
    /\ webq' = [i \in 1 .. Len(webq) |-> IF webq[i] = "radio" THEN "gone" ELSE webq[i]]
    /\ UNCHANGED <<isurl, pc, isset, relay, dnsq, dnsnet, inbox, transfer, addr, file, enter>>

(***************************************************************************)
(* The rest of the world.                                                  *)
(***************************************************************************)
BrowserConnects == /\ Running /\ Len(webq) < Backlog /\ Fault
                   /\ webq' = Append(webq, "browser")
                   /\ UNCHANGED <<server, dnsq, dnsnet, inbox, transfer, radio, file, enter>>

BrowserHangsUp == /\ conn = "browser" /\ conn' = "gone"
                  /\ UNCHANGED <<isurl, pc, isset, relay, net, transfer, radio, world>>

LoseAnswer(a) == /\ Fault /\ inbox' = inbox \ {a}
                 /\ UNCHANGED <<server, dnsq, webq, dnsnet, transfer, radio, file, enter>>

LoseRelayed(a) == /\ Fault /\ dnsnet' = dnsnet \ {a}
                  /\ UNCHANGED <<server, dnsq, webq, inbox, transfer, radio, file, enter>>

\* An answer reaches a port that is closed.
LateAnswer(a) == /\ a.port # relay /\ dnsnet' = dnsnet \ {a}
                 /\ UNCHANGED <<server, dnsq, webq, inbox, transfer, radio, world>>

ReplaceFile == /\ Fault
               /\ file' \in (0 .. MaxSize) \ {file}
               /\ UNCHANGED <<server, net, transfer, radio, enter>>

PressEnter == /\ enter = "no" /\ enter' = "pressed"
              /\ UNCHANGED <<server, net, transfer, radio, file, faults>>

(***************************************************************************)
(* The specification.  A browser may stall in its request; the radio sends *)
(* its requests, repeats its queries, and hears the answers that are not   *)
(* lost.  Failures and Enter are never forced.                             *)
(***************************************************************************)
Web == \/ Accept \/ ScanNothing \/ SendInfo \/ NoFile \/ MeasureFile \/ OpenFile
       \/ SendBlock \/ SendEnds
Dns == Forge \/ (\E p \in Ports : Relay(p)) \/ RelayAnswer \/ RelayTimeout
Failure == \/ SelectFails \/ AcceptFails \/ BrokenPipe \/ RelayRecvFails
           \/ RelaySocketFails \/ DnsRecvFails \/ ReopenListener \/ ReopenFails
Server == Select \/ Tick \/ Web \/ Dns
Radio == RadioConnects \/ RadioElsewhere \/ RadioFinishes \/ RadioRestarts
World == \/ StationAsks \/ RadioHangsUp \/ BrowserConnects \/ BrowserHangsUp
         \/ (\E a \in inbox : LoseAnswer(a))
         \/ (\E a \in dnsnet : LoseRelayed(a) \/ LateAnswer(a))
         \/ ReplaceFile \/ PressEnter

Answers == [name : Names, addr : {"here", "real"}]
Next == \/ Server \/ Failure \/ Radio \/ RadioAsks
        \/ (\E a \in inbox : RadioHears(a)) \/ World
Spec == Init /\ [][Next]_vars

Stalled == pc = "scan" /\ conn = "browser"
FairSpec == /\ Spec
            /\ WF_vars(Server /\ ~Stalled)
            /\ WF_vars(Radio) /\ SF_vars(RadioAsks)
            /\ \A a \in Answers : WF_vars(RadioHears(a))

(***************************************************************************)
(* Properties.                                                             *)
(***************************************************************************)
\* The state is well formed.
TypeOK ==
    /\ isurl \in {"url", "file"} /\ file \in 0 .. MaxSize /\ enter \in {"no", "pressed"}
    /\ pc \in {"select", "accept", "scan", "open", "send", "dns", "relay", "down"}
    /\ isset \in {"no", "dns"}
    /\ dnsq \in Seq(Names) /\ Len(dnsq) <= QueueLen
    /\ webq \in Seq(Clients) /\ Len(webq) <= Backlog
    /\ conn \in Clients \cup {"none"} /\ relay \in Ports \cup {0}
    /\ dnsnet \subseteq [port : Ports, name : Names] /\ inbox \subseteq Answers
    /\ len \in 0 .. MaxSize /\ counted \in 0 .. MaxSize
    /\ fs \in 0 .. MaxSize /\ sent \in 0 .. MaxSize
    /\ stage \in {"ask1", "get1", "conn1", "ask2", "get2", "conn2", "done"}
    /\ addr \in {"none", "here", "real"}
    /\ image \in [size : 0 .. MaxSize, blocks : 0 .. MaxSize,
                  len : 0 .. MaxSize, counted : 0 .. MaxSize]
    /\ faults \in 0 .. MaxFaults

(***************************************************************************)
(* Whatever is lost, late, repeated or sent to the socket of another query *)
(* the radio asks this PC where the patch is, and goes for the patch to    *)
(* this PC if it is a local file and to the host of its URL otherwise.     *)
(*                                                                         *)
(* (commandline.cpp:33 says that the DNS server "returns the local         *)
(* machine's ip address in response to all lookup queries"; the code does  *)
(* so for the forged names only and relays the others, and the upgrade     *)
(* from a URL depends on that.)                                            *)
(***************************************************************************)
RadioDirected ==
    /\ stage \in {"get1", "conn1"} => addr = "here"
    /\ stage \in {"get2", "conn2"} => addr = IF isurl = "url" THEN "real" ELSE "here"

(***************************************************************************)
(* A radio that takes its download for complete has the whole file, unless *)
(* the file was replaced between being counted and being opened.           *)
(***************************************************************************)
ImageWhole ==
    stage = "done" /\ image.counted = image.size => image.blocks = image.size

(***************************************************************************)
(* A query that select has announced is there when the DNS server comes to *)
(* read it, however long the web server took before: recvfrom on the       *)
(* blocking listener returns, and so does the loop.                        *)
(***************************************************************************)
QueryIsThere == isset = "dns" \/ pc = "dns" => dnsq # <<>> \/ pc = "relay"

(***************************************************************************)
(* The upgrade is completed, unless the server ends, the file is gone, or  *)
(* another client keeps its connection open without sending its request,   *)
(* which stops the DNS server too.                                         *)
(***************************************************************************)
UpgradeCompletes ==
    \/ <>(stage = "done") \/ <>[](pc = "down") \/ <>[](file = 0) \/ <>[]Stalled
=============================================================================
