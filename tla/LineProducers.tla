--------------------------- MODULE LineProducers ---------------------------
(***************************************************************************)
(* The producers that feed the parse loop from outside the file system:    *)
(* TcpServerProducer, UdpServerProducer and StdinBytesProducer.  A worker  *)
(* thread fills a LineBytesQueue, which drops old lines when it is full;   *)
(* RunStreamingParseLoop empties it on the parser's thread; the GUI thread *)
(* stops both.                                                             *)
(*                                                                         *)
(* The kind of producer is chosen in the initial state.  A byte names the  *)
(* peer that sent it and its place in what the peer sent, and knows        *)
(* whether it begins a line and whether it is a newline.                   *)
(***************************************************************************)
EXTENDS Integers, Sequences, FiniteSets, FiniteSetsExt, SequencesExt

CONSTANTS
    Kinds,       \* the producers of the scenario
    Peers,       \* TCP clients or UDP senders; 1 is the process that feeds stdin
    MaxBytes,    \* bound: bytes the peers send
    Cap,         \* maxQueueBytes, queueCapBytes; 0 for no cap
    ReadChunk,   \* readChunkBytes
    ReadBuffer,  \* STREAMING_READ_BUFFER_SIZE
    ClientLimits, \* values of maxConcurrentClients
    Stoppers     \* threads that call Stop; one of them is the GUI

AllKinds == {"tcp", "udp", "stdin"}

ASSUME ProducersAssumption ==
    /\ Kinds \subseteq AllKinds
    /\ Peers \subseteq Nat \ {0} /\ 1 \in Peers /\ IsFiniteSet(Peers)
    /\ MaxBytes \in Nat /\ Cap \in Nat /\ ClientLimits \subseteq Nat
    /\ ReadChunk \in Nat \ {0} /\ ReadBuffer \in Nat \ {0}
    /\ "gui" \in Stoppers

VARIABLES
    kind, maxClients,
    \* the peers
    wire,        \* what a peer sent and nobody received: bytes, or datagrams
    sent,        \* bytes a peer sent
    midLine,     \* the peer is in the middle of a line
    link,        \* the connection of a TCP client
    hungUp,      \* peers that closed their end
    \* the producer's worker
    armed,       \* an accept or a receive is pending
    clients,     \* mActiveSessions
    sessionCarry, \* Session::mCarry
    closedSockets, \* sessions whose socket Stop closed
    worker,      \* the event loop, or where the stdin worker is
    queue, droppedBytes, \* LineBytesQueue and DroppedByteCount
    running,     \* mLastReportedStatus is Running
    accepted, rejected, datagrams, \* the counters of the accessors
    closed,      \* mClosed of the stdin producer
    \* Stop
    stopRequested, posted, wake, stopFinished, stopper,
    \* the parse loop
    loopStop, loop, reachedEof, carry,
    parsed, last, \* bytes it processed, and the last one of every peer
    \* history, read by properties only
    taken,       \* bytes received
    added,       \* newlines the producer added
    drops,       \* times the queue dropped something
    payload,     \* length of the longest append
    torn         \* processed lines that are not lines of a peer

configVars == <<kind, maxClients>>
peerVars == <<wire, sent, midLine, link, hungUp>>
sessionVars == <<clients, sessionCarry, closedSockets, accepted, rejected>>
byteQueueVars == <<queue, droppedBytes, running, taken, added, drops, payload>>
stopVars == <<stopRequested, posted, wake, stopFinished, stopper, closed>>
loopVars == <<loopStop, loop, reachedEof, carry, parsed, last, torn>>

linesVars == <<configVars, peerVars, armed, sessionVars, worker, byteQueueVars, datagrams, stopVars, loopVars>>

Byte == [peer : Peers \union {0}, at : Nat, first : BOOLEAN, nl : BOOLEAN]

(* The newline a producer adds.                                            *)
Synthetic == [peer |-> 0, at |-> 0, first |-> FALSE, nl |-> TRUE]

Senders == IF kind = "stdin" THEN {1} ELSE Peers

WorkerExited == worker = "done"

Least(a, b) == IF a < b THEN a ELSE b

-----------------------------------------------------------------------------
(* The peers.                                                              *)

SumSent == MapThenSumSet(LAMBDA p : sent[p], Peers)

(* A stream carries a byte; UDP a datagram of one or more lines, the last  *)
(* of them with or without its newline.                                    *)
Send(p) ==
    /\ p \in Senders /\ p \notin hungUp
    /\ kind = "tcp" => link[p] = "open"
    /\ \E n \in 1 .. Least(IF kind = "udp" THEN MaxBytes ELSE 1, MaxBytes - SumSent) :
       \E nls \in [1 .. n -> BOOLEAN] :
          LET begins(i) == IF i = 1 THEN kind = "udp" \/ ~midLine[p] ELSE nls[i - 1]
              bytes == [i \in 1 .. n |-> [peer |-> p, at |-> sent[p] + i, first |-> begins(i), nl |-> nls[i]]]
          IN  /\ wire' = [wire EXCEPT ![p] = IF kind = "udp" THEN Append(@, bytes) ELSE @ \o bytes]
              /\ sent' = [sent EXCEPT ![p] = @ + n]
              /\ midLine' = [midLine EXCEPT ![p] = ~nls[n]]
    /\ UNCHANGED <<link, hungUp, configVars, armed, sessionVars, worker, byteQueueVars, datagrams, stopVars, loopVars>>

(* A TCP client reaches the listen backlog.                                *)
Connect(p) ==
    /\ kind = "tcp" /\ armed
    /\ link[p] = "none"
    /\ link' = [link EXCEPT ![p] = "backlog"]
    /\ UNCHANGED <<wire, sent, midLine, hungUp>>
    /\ UNCHANGED <<configVars, armed, sessionVars, worker, byteQueueVars, datagrams, stopVars, loopVars>>

(* A client disconnects, or the process that feeds stdin exits.            *)
HangUp(p) ==
    /\ kind # "udp" /\ p \in Senders /\ p \notin hungUp
    /\ kind = "tcp" => link[p] = "open"
    /\ hungUp' = hungUp \union {p}
    /\ UNCHANGED <<wire, sent, midLine, link>>
    /\ UNCHANGED <<configVars, armed, sessionVars, worker, byteQueueVars, datagrams, stopVars, loopVars>>

(* The network loses a datagram.                                           *)
LoseLine(p) ==
    /\ kind = "udp"
    /\ \E i \in DOMAIN wire[p] : wire' = [wire EXCEPT ![p] = RemoveAt(@, i)]
    /\ UNCHANGED <<sent, midLine, link, hungUp>>
    /\ UNCHANGED <<configVars, armed, sessionVars, worker, byteQueueVars, datagrams, stopVars, loopVars>>

-----------------------------------------------------------------------------
(* LineBytesQueue.                                                         *)

(* Variant of DropCount: the incoming bytes are forgotten.                 *)
DropCountOld(q, size) ==
    LET over == Len(q) - Cap
        end == SelectInSubSeq(q, over + 1, Len(q), LAMBDA b : b.nl)
    IN  IF size = 0 \/ Cap = 0 \/ over <= 0 THEN 0 ELSE IF end = 0 THEN Len(q) ELSE end

(* Bytes Append drops to make room: down to the cap, then to the end of    *)
(* the line the cut falls in, or all when no line ends in the queue.       *)
DropCount(q, size) ==
    LET over == Len(q) + size - Cap
        end == SelectInSubSeq(q, Least(over, Len(q)) + 1, Len(q), LAMBDA b : b.nl)
    IN  IF size = 0 \/ Cap = 0 \/ over <= 0 THEN 0 ELSE IF end = 0 THEN Len(q) ELSE end

(* Append.                                                                 *)
Appended(q, data) == SubSeq(q, DropCount(q, Len(data)) + 1, Len(q)) \o data

(* Two Appends under one lock, the second for a newline or for nothing.    *)
Enqueue(data, newline) ==
    LET once == Appended(queue, data)
        cuts == << DropCount(queue, Len(data)), DropCount(once, Len(newline)) >>
    IN  /\ queue' = Appended(once, newline)
        /\ droppedBytes' = droppedBytes + cuts[1] + cuts[2]
        /\ drops' = drops + Cardinality({i \in 1 .. 2 : cuts[i] > 0})
        /\ payload' = Max({payload, Len(data), Len(newline)})

(* MarkRunning, which only the servers have.                               *)
MarkRunning == running' = (running \/ kind # "stdin")

-----------------------------------------------------------------------------
(* TcpServerProducer, on its worker thread.                                *)

(* Variant of Admits: one client too many.                                 *)
AdmitsOneMore == Cardinality(clients) <= maxClients

(* AdmitOrReject.                                                          *)
Admits == Cardinality(clients) < maxClients

(* OnAcceptPlain, and StartAccept, which it ends with.                     *)
OnAccept(p) ==
    /\ kind = "tcp" /\ armed /\ worker = "run"
    /\ link[p] = "backlog"
    /\ \/ /\ stopRequested
          /\ armed' = FALSE
          /\ link' = [link EXCEPT ![p] = "refused"]
          /\ UNCHANGED sessionVars
       \/ /\ ~stopRequested /\ Admits
          /\ link' = [link EXCEPT ![p] = "open"]
          /\ clients' = clients \union {p}
          /\ accepted' = accepted + 1
          /\ UNCHANGED <<armed, sessionCarry, closedSockets, rejected>>
       \/ /\ ~stopRequested /\ ~Admits
          /\ link' = [link EXCEPT ![p] = "refused"]
          /\ rejected' = rejected + 1
          /\ UNCHANGED <<armed, clients, sessionCarry, closedSockets, accepted>>
    /\ UNCHANGED <<wire, sent, midLine, hungUp>>
    /\ UNCHANGED <<configVars, worker, byteQueueVars, datagrams, stopVars, loopVars>>

(* Variant of CompleteLines: whatever was received is forwarded.           *)
CompleteLinesAll(bytes) == Len(bytes)

(* Length of the lines that are complete.                                  *)
CompleteLines(bytes) == SelectLastInSeq(bytes, LAMBDA b : b.nl)

(* Variant of Kept: the lines that were forwarded are kept too.            *)
KeptAll(bytes) == bytes

(* mCarry after the complete lines were forwarded.                         *)
Kept(bytes) == SubSeq(bytes, CompleteLines(bytes) + 1, Len(bytes))

(* Session::OnRead with bytes: complete lines go to the queue.             *)
OnRead(p) ==
    /\ kind = "tcp" /\ p \in clients /\ p \notin closedSockets
    /\ \E n \in 1 .. Least(ReadChunk, Len(wire[p])) :
          LET bytes == sessionCarry[p] \o SubSeq(wire[p], 1, n)
              lines == SubSeq(bytes, 1, CompleteLines(bytes))
          IN  /\ wire' = [wire EXCEPT ![p] = SubSeq(@, n + 1, Len(@))]
              /\ taken' = taken + n
              /\ sessionCarry' = [sessionCarry EXCEPT ![p] = IF lines = <<>> THEN bytes ELSE Kept(bytes)]
              /\ IF lines = <<>> THEN UNCHANGED <<queue, droppedBytes, running, drops, payload>>
                                 ELSE Enqueue(lines, <<>>) /\ MarkRunning
    /\ UNCHANGED <<sent, midLine, link, hungUp, clients, closedSockets, accepted, rejected, added>>
    /\ UNCHANGED <<configVars, armed, worker, datagrams, stopVars, loopVars>>

(* Variant of Unterminated: a partial line is dropped with its session.    *)
UnterminatedNone(p) == <<>>

(* What Finalize flushes: the partial line and a newline.                  *)
Unterminated(p) == IF sessionCarry[p] = <<>> THEN <<>> ELSE Append(sessionCarry[p], Synthetic)

(* Session::OnRead with an error, for a client that disconnected (a reset  *)
(* may discard what it sent) or a socket that Stop closed: Finalize, and   *)
(* OnSessionEnded.                                                         *)
OnReadError(p) ==
    /\ kind = "tcp" /\ p \in clients
    /\ p \in closedSockets \/ p \in hungUp
    /\ LET lines == Unterminated(p)
       IN  IF lines = <<>> THEN UNCHANGED <<queue, droppedBytes, running, drops, payload, added>>
                           ELSE Enqueue(lines, <<>>) /\ MarkRunning /\ added' = added + 1
    /\ sessionCarry' = [sessionCarry EXCEPT ![p] = <<>>]
    /\ clients' = clients \ {p}
    /\ link' = [link EXCEPT ![p] = "ended"]
    /\ UNCHANGED <<wire, sent, midLine, hungUp, closedSockets, accepted, rejected, taken>>
    /\ UNCHANGED <<configVars, armed, worker, datagrams, stopVars, loopVars>>

-----------------------------------------------------------------------------
(* UdpServerProducer, on its worker thread.                                *)

(* The completion of async_receive_from, with any datagram on its way:     *)
(* AppendDatagramLocked ends it with a newline.  Nothing is received and   *)
(* nothing armed again once a stop was requested.                          *)
OnReceive(p) ==
    /\ kind = "udp" /\ armed /\ worker = "run"
    /\ \E i \in DOMAIN wire[p] :
          LET data == wire[p][i]
              newline == IF Last(data).nl THEN <<>> ELSE <<Synthetic>>
          IN  /\ wire' = [wire EXCEPT ![p] = RemoveAt(@, i)]
              /\ \/ /\ stopRequested
                    /\ armed' = FALSE
                    /\ UNCHANGED <<byteQueueVars, datagrams>>
                 \/ /\ ~stopRequested
                    /\ Enqueue(data, newline)
                    /\ MarkRunning
                    /\ taken' = taken + Len(data)
                    /\ added' = added + Len(newline)
                    /\ datagrams' = datagrams + 1
                    /\ UNCHANGED armed
    /\ UNCHANGED <<sent, midLine, link, hungUp>>
    /\ UNCHANGED <<configVars, sessionVars, worker, stopVars, loopVars>>

(* The handler Stop posted: the acceptor or the socket is closed, and with *)
(* it every session.                                                       *)
OnPostedClose ==
    /\ posted /\ worker = "run"
    /\ posted' = FALSE
    /\ armed' = FALSE
    /\ closedSockets' = closedSockets \union clients
    /\ UNCHANGED <<clients, sessionCarry, accepted, rejected>>
    /\ UNCHANGED <<stopRequested, wake, stopFinished, stopper, closed>>
    /\ UNCHANGED <<configVars, peerVars, worker, byteQueueVars, datagrams, loopVars>>

(* Nothing is pending: io_context::run returns.                            *)
RunReturns ==
    /\ worker = "run"
    /\ ~armed /\ ~posted /\ clients = {}
    /\ worker' = "done"
    /\ UNCHANGED <<configVars, peerVars, armed, sessionVars, byteQueueVars, datagrams, stopVars, loopVars>>

-----------------------------------------------------------------------------
(* StdinBytesProducer, on its worker thread.                               *)

(* The head of the loop, and poll: it returns for input, for the end of    *)
(* the input or for the wake byte.                                         *)
StdinHead ==
    /\ worker = "head"
    /\ worker' = IF stopRequested THEN "exit" ELSE "poll"
    /\ UNCHANGED <<configVars, peerVars, armed, sessionVars, byteQueueVars, datagrams, stopVars, loopVars>>

StdinPoll ==
    /\ worker = "poll"
    /\ \/ wake /\ worker' = "exit"
       \/ ~wake /\ (wire[1] # <<>> \/ 1 \in hungUp) /\ worker' = "read"
    /\ UNCHANGED <<configVars, peerVars, armed, sessionVars, byteQueueVars, datagrams, stopVars, loopVars>>

(* read: some bytes, or the end of the input or an error.                  *)
StdinRead ==
    /\ worker = "read"
    /\ \/ \E n \in 1 .. Least(ReadChunk, Len(wire[1])) :
             /\ Enqueue(SubSeq(wire[1], 1, n), <<>>)
             /\ taken' = taken + n
             /\ wire' = [wire EXCEPT ![1] = SubSeq(@, n + 1, Len(@))]
             /\ worker' = "head"
       \/ /\ worker' = "exit"
          /\ UNCHANGED <<queue, droppedBytes, drops, payload, taken, wire>>
    /\ UNCHANGED <<running, added, sent, midLine, link, hungUp>>
    /\ UNCHANGED <<configVars, armed, sessionVars, datagrams, stopVars, loopVars>>

(* Variant of ClosedAtExit: only a stop closes the producer.               *)
ClosedAtExitNot == closed

(* mClosed when the worker is done.                                        *)
ClosedAtExit == TRUE

StdinExit ==
    /\ worker = "exit"
    /\ worker' = "done"
    /\ closed' = ClosedAtExit
    /\ UNCHANGED <<stopRequested, posted, wake, stopFinished, stopper>>
    /\ UNCHANGED <<configVars, peerVars, armed, sessionVars, byteQueueVars, datagrams, loopVars>>

-----------------------------------------------------------------------------
(* Stop, from any thread.                                                  *)

(* Variant of LoserWaits: the second caller returns at once.               *)
LoserWaitsNot == FALSE

(* Only the stdin producer makes a second caller wait for the first.       *)
LoserWaits == kind = "stdin"

(* The exchange of mStopRequested picks the caller that does the work.     *)
StopBegin(s) ==
    /\ stopper[s] = "idle"
    /\ stopRequested' = TRUE
    /\ stopper' = [stopper EXCEPT ![s] = CASE ~stopRequested -> "won"
                                           [] stopRequested /\ LoserWaits -> "latch"
                                           [] OTHER -> "returned"]
    /\ UNCHANGED <<posted, wake, stopFinished, closed>>
    /\ UNCHANGED <<configVars, peerVars, armed, sessionVars, worker, byteQueueVars, datagrams, loopVars>>

(* Variant of Waked: nobody writes to the self-pipe.                       *)
WakedNot == FALSE

(* The wake byte.                                                          *)
Waked == TRUE

(* The servers post the close to their event loop and return; stdin closes *)
(* the producer, wakes the worker and joins it.                            *)
StopWon(s) ==
    /\ stopper[s] = "won"
    /\ \/ /\ kind = "stdin"
          /\ closed' = TRUE
          /\ wake' = Waked
          /\ stopper' = [stopper EXCEPT ![s] = "join"]
          /\ UNCHANGED posted
       \/ /\ kind # "stdin"
          /\ posted' = TRUE
          /\ stopper' = [stopper EXCEPT ![s] = "returned"]
          /\ UNCHANGED <<closed, wake>>
    /\ UNCHANGED <<stopRequested, stopFinished>>
    /\ UNCHANGED <<configVars, peerVars, armed, sessionVars, worker, byteQueueVars, datagrams, loopVars>>

StopJoined(s) ==
    /\ stopper[s] = "join"
    /\ WorkerExited
    /\ stopFinished' = TRUE
    /\ stopper' = [stopper EXCEPT ![s] = "returned"]
    /\ UNCHANGED <<stopRequested, posted, wake, closed>>
    /\ UNCHANGED <<configVars, peerVars, armed, sessionVars, worker, byteQueueVars, datagrams, loopVars>>

StopLatched(s) ==
    /\ stopper[s] = "latch"
    /\ stopFinished
    /\ stopper' = [stopper EXCEPT ![s] = "returned"]
    /\ UNCHANGED <<stopRequested, posted, wake, stopFinished, closed>>
    /\ UNCHANGED <<configVars, peerVars, armed, sessionVars, worker, byteQueueVars, datagrams, loopVars>>

(* The teardown of the model: Stop, and then the stop token of the sink.   *)
RequestLoopStop ==
    /\ stopper["gui"] = "returned"
    /\ ~loopStop
    /\ loopStop' = TRUE
    /\ UNCHANGED <<loop, reachedEof, carry, parsed, last, torn>>
    /\ UNCHANGED <<configVars, peerVars, armed, sessionVars, worker, byteQueueVars, datagrams, stopVars>>

-----------------------------------------------------------------------------
(* RunStreamingParseLoop, on the thread of the parser.                     *)

(* The head of the loop, and Read.                                         *)
LoopRead ==
    /\ loop = "head"
    /\ \/ /\ loopStop
          /\ loop' = "end"
          /\ UNCHANGED <<carry, queue>>
       \/ /\ ~loopStop
          /\ LET n == Least(ReadBuffer, Len(queue))
             IN  /\ carry' = carry \o SubSeq(queue, 1, n)
                 /\ queue' = SubSeq(queue, n + 1, Len(queue))
                 /\ loop' = IF n > 0 THEN "scan" ELSE "check"
    /\ UNCHANGED <<loopStop, reachedEof, parsed, last, torn>>
    /\ UNCHANGED <<droppedBytes, running, taken, added, drops, payload>>
    /\ UNCHANGED <<configVars, peerVars, armed, sessionVars, worker, datagrams, stopVars>>

(* Variant of IsClosed: the servers too look at their worker alone.        *)
IsClosedEarly == IF kind = "stdin" THEN closed ELSE WorkerExited

(* IsClosed: the servers wait for the queue to be empty, stdin does not.   *)
IsClosed == IF kind = "stdin" THEN closed ELSE WorkerExited /\ queue = <<>>

(* Read returned nothing.                                                  *)
LoopCheck ==
    /\ loop = "check"
    /\ reachedEof' = IsClosed
    /\ loop' = IF IsClosed THEN "scan" ELSE "wait"
    /\ UNCHANGED <<loopStop, carry, parsed, last, torn>>
    /\ UNCHANGED <<configVars, peerVars, armed, sessionVars, worker, byteQueueVars, datagrams, stopVars>>

(* WaitForBytes returns: there are bytes, a stop, an end, or the timeout.  *)
LoopWait ==
    /\ loop = "wait"
    /\ loop' = "head"
    /\ UNCHANGED <<loopStop, reachedEof, carry, parsed, last, torn>>
    /\ UNCHANGED <<configVars, peerVars, armed, sessionVars, worker, byteQueueVars, datagrams, stopVars>>

(* A line of one peer, from its beginning; a newline may have been added.  *)
Whole(line) ==
    /\ line[1].first
    /\ \A i \in 2 .. Len(line) :
          \/ line[i] = Synthetic
          \/ /\ line[i].peer = line[i - 1].peer
             /\ line[i].at = line[i - 1].at + 1
             /\ ~line[i].first

(* processLine.                                                            *)
ProcessLine(line) ==
    /\ parsed' = parsed + Len(line)
    /\ last' = [p \in Peers |-> Max({last[p]} \union {b.at : b \in {c \in Range(line) : c.peer = p}})]
    /\ torn' = torn + IF Whole(line) THEN 0 ELSE 1

(* One line of scanCarry; after the last one the loop goes on, or ends and *)
(* what is left is a line as well.                                         *)
LoopScan ==
    LET end == SelectInSeq(carry, LAMBDA b : b.nl)
    IN  /\ loop = "scan"
        /\ \/ /\ end > 0
              /\ ProcessLine(SubSeq(carry, 1, end))
              /\ carry' = SubSeq(carry, end + 1, Len(carry))
              /\ loop' = IF loopStop THEN "head" ELSE "scan"
           \/ /\ end = 0 /\ ~reachedEof
              /\ loop' = "head"
              /\ UNCHANGED <<carry, parsed, last, torn>>
           \/ /\ end = 0 /\ reachedEof
              /\ loop' = "end"
              /\ IF carry # <<>> /\ ~loopStop
                   THEN ProcessLine(carry) /\ carry' = <<>>
                   ELSE UNCHANGED <<carry, parsed, last, torn>>
        /\ UNCHANGED <<loopStop, reachedEof>>
        /\ UNCHANGED <<configVars, peerVars, armed, sessionVars, worker, byteQueueVars, datagrams, stopVars>>

-----------------------------------------------------------------------------
PeerStep == \E p \in Peers : Send(p) \/ Connect(p) \/ HangUp(p) \/ LoseLine(p)

ProducerWorker ==
    \/ \E p \in Peers : OnAccept(p) \/ OnRead(p) \/ OnReadError(p) \/ OnReceive(p)
    \/ OnPostedClose \/ RunReturns
    \/ StdinHead \/ StdinPoll \/ StdinRead \/ StdinExit

(* A second Stop of a server returns at once and changes nothing.          *)
Callers == IF kind = "stdin" THEN Stoppers ELSE {"gui"}

StopReturns == \E s \in Stoppers : StopWon(s) \/ StopJoined(s) \/ StopLatched(s)

Loop == LoopRead \/ LoopCheck \/ LoopWait \/ LoopScan

LinesInit ==
    /\ kind \in Kinds /\ maxClients \in IF kind = "tcp" THEN ClientLimits ELSE {0}
    /\ wire = [p \in Peers |-> <<>>]
    /\ sent = [p \in Peers |-> 0]
    /\ midLine = [p \in Peers |-> FALSE]
    /\ link = [p \in Peers |-> "none"]
    /\ hungUp = {}
    /\ armed = (kind # "stdin")
    /\ clients = {} /\ closedSockets = {}
    /\ sessionCarry = [p \in Peers |-> <<>>]
    /\ accepted = 0 /\ rejected = 0 /\ datagrams = 0
    /\ worker = IF kind = "stdin" THEN "head" ELSE "run"
    /\ queue = <<>> /\ droppedBytes = 0 /\ running = FALSE
    /\ taken = 0 /\ added = 0 /\ drops = 0 /\ payload = 0
    /\ stopRequested = FALSE /\ posted = FALSE /\ wake = FALSE
    /\ stopFinished = FALSE /\ closed = FALSE
    /\ stopper = [s \in Stoppers |-> "idle"]
    /\ loopStop = FALSE /\ loop = "head" /\ reachedEof = FALSE
    /\ carry = <<>> /\ parsed = 0 /\ last = [p \in Peers |-> 0] /\ torn = 0

LinesNext == PeerStep \/ ProducerWorker \/ (\E s \in Callers : StopBegin(s)) \/ StopReturns \/ RequestLoopStop \/ Loop

(* Threads run; nobody need send, disconnect or stop.                      *)
LinesFairness ==
    /\ WF_linesVars(ProducerWorker)
    /\ WF_linesVars(StopReturns \/ RequestLoopStop)
    /\ WF_linesVars(Loop)

LinesSpec == LinesInit /\ [][LinesNext]_linesVars
LinesFairSpec == LinesSpec /\ LinesFairness

-----------------------------------------------------------------------------
(* Properties.                                                             *)

(* Every variable has its type, and mActiveSessions stays within the limit *)
(* of concurrent clients.                                                  *)
LinesTypeOK ==
    /\ kind \in Kinds /\ maxClients \in Nat
    /\ wire \in [Peers -> Seq(IF kind = "udp" THEN Seq(Byte) ELSE Byte)] /\ sent \in [Peers -> 0 .. MaxBytes]
    /\ midLine \in [Peers -> BOOLEAN] /\ hungUp \subseteq Peers
    /\ link \in [Peers -> {"none", "backlog", "open", "refused", "ended"}]
    /\ armed \in BOOLEAN /\ clients \subseteq Peers /\ Cardinality(clients) <= maxClients
    /\ sessionCarry \in [Peers -> Seq(Byte)] /\ closedSockets \subseteq Peers
    /\ worker \in {"run", "head", "poll", "read", "exit", "done"}
    /\ queue \in Seq(Byte) /\ droppedBytes \in Nat /\ running \in BOOLEAN
    /\ accepted \in Nat /\ rejected \in Nat /\ datagrams \in Nat
    /\ closed \in BOOLEAN /\ stopRequested \in BOOLEAN /\ posted \in BOOLEAN
    /\ wake \in BOOLEAN /\ stopFinished \in BOOLEAN
    /\ stopper \in [Stoppers -> {"idle", "won", "join", "latch", "returned"}]
    /\ loopStop \in BOOLEAN /\ loop \in {"head", "check", "wait", "scan", "end"}
    /\ reachedEof \in BOOLEAN /\ carry \in Seq(Byte) /\ parsed \in Nat /\ last \in [Peers -> Nat]
    /\ taken \in Nat /\ added \in Nat /\ drops \in Nat /\ payload \in Nat /\ torn \in Nat

(* DroppedByteCount is exact: every byte that was received, and every      *)
(* newline that was added, was parsed, is held in a buffer, or was dropped *)
(* by the queue and counted.                                               *)
EveryByteAccounted ==
    taken + added =
        parsed + Len(carry) + Len(queue) + droppedBytes
        + MapThenSumSet(LAMBDA p : Len(sessionCarry[p]), Peers)

(* Lines of concurrent peers interleave whole: a line the parser sees is   *)
(* torn or joined to another only where the full queue dropped something,  *)
(* and then only one.                                                      *)
TornOnlyByDrops == torn <= drops

(* The bytes of a peer on their way through the program, among others.     *)
Held(p) == carry \o queue \o sessionCarry[p]

(* Whatever is dropped, a stream is never reordered and nothing of it is   *)
(* delivered twice.                                                        *)
StreamInOrder ==
    kind # "udp" =>
        \A p \in Peers : \A i \in DOMAIN Held(p) :
            Held(p)[i].peer = p =>
                /\ last[p] < Held(p)[i].at
                /\ \A j \in 1 .. i - 1 : Held(p)[j].peer = p => Held(p)[j].at < Held(p)[i].at

(* The queue exceeds its cap only while one payload does.                  *)
QueueWithinCap == Cap > 0 => Len(queue) <= Max({Cap, payload})

(* A parse that ends because a server was stopped, and not because it was  *)
(* cancelled itself, has taken everything the server received, the partial *)
(* lines of the sessions included.                                         *)
ServerDrainedAtEof ==
    loop = "end" /\ ~loopStop /\ kind # "stdin" =>
        /\ queue = <<>> /\ carry = <<>>
        /\ \A p \in Peers : sessionCarry[p] = <<>>
        /\ WorkerExited

(* Whoever called it, Stop of the stdin producer returns with the worker   *)
(* gone and the input closed.                                              *)
StopQuiesces ==
    kind = "stdin" /\ (\E s \in Stoppers : stopper[s] = "returned") => WorkerExited

(* A teardown is never stuck: the worker ends, Stop returns and the parse  *)
(* loop ends, wherever they were.                                          *)
StopCompletes == (stopper["gui"] # "idle") ~> (loopStop /\ loop = "end" /\ WorkerExited)

(* The end of stdin ends the parse without anybody's help.                 *)
EndOfInputEndsParse == (kind = "stdin" /\ 1 \in hungUp) ~> (loop = "end")

(* LineBytesQueue's accounts are exact at every interleaving of Append,    *)
(* Read and the drops in between, and its cap holds.                       *)
QueueAccountsExact == LinesTypeOK /\ EveryByteAccounted /\ QueueWithinCap

(* Lines of concurrent peers stay whole and in order but for the drops.    *)
LinesKeptWhole == TornOnlyByDrops /\ StreamInOrder

(* Whoever ends it, and at whatever step of the other threads, an ended    *)
(* producer has been drained and has no thread left.                       *)
EndsDrained == ServerDrainedAtEof /\ StopQuiesces

(* Teardown and the natural end both end the parse under fair scheduling.  *)
ProducersEnd == StopCompletes /\ EndOfInputEndsParse
====
