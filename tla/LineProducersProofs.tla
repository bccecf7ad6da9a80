------------------------ MODULE LineProducersProofs ------------------------
(***************************************************************************)
(* Proofs about the producers of LineProducers.                            *)
(*                                                                         *)
(* They end drained: a parse that ends after a server was stopped leaves   *)
(* nothing the server received, and Stop of the stdin producer returns to  *)
(* nobody before its worker is gone.  An ended parse is drained because    *)
(* the end it read is final.  The event loop of a server returns only when *)
(* no session is left, a session leaves with its carry flushed, and after  *)
(* that nothing reaches the queue; so a queue that IsClosed found empty    *)
(* stays empty.                                                            *)
(*                                                                         *)
(* And the accounts of the byte queue are exact: every step moves bytes    *)
(* between the peers, the sessions, the queue and the parser, or drops and *)
(* counts them.  The sum over the sessions is a recursive function over    *)
(* sets of peers; what is said of it is proved by taking the least         *)
(* number of peers for which it might fail.                                *)
(*                                                                         *)
(* And lines stay whole and streams in order but for the drops.  A seam is *)
(* a byte that does not go on from the one before it.  The bytes a session *)
(* or a datagram hands to the queue are whole lines, so they bring no      *)
(* seam; every drop leaves one more, at most; and the parser tears a line  *)
(* only where it takes a seam away.  Dropping bytes from the front of the  *)
(* queue thins the stream of a peer and never reorders it.                 *)
(***************************************************************************)
EXTENDS LineProducers, TLAPS, FiniteSetTheorems, SequenceTheorems, WellFoundedInduction

(* What the argument follows are functions of the peers and the callers.   *)
Shaped ==
    /\ DOMAIN sessionCarry = Peers /\ sessionCarry = [p \in Peers |-> sessionCarry[p]]
    /\ DOMAIN stopper = Stoppers /\ stopper = [s \in Stoppers |-> stopper[s]]

(* A partial line belongs to a session that is still there.                *)
CarriesHeld == \A p \in Peers : sessionCarry[p] # <<>> => p \in clients

(* The event loop of a server returns when no session is left.             *)
ReturnedLoop == kind # "stdin" => worker = "run" \/ (WorkerExited /\ clients = {})

(* What the parse loop took for the end is the end.                        *)
EofIsFinal == kind # "stdin" /\ reachedEof => WorkerExited /\ queue = <<>>

(* A parse that was not cancelled ends at the end, its carry parsed.       *)
EndsAtEof == loop = "end" /\ ~loopStop => reachedEof /\ carry = <<>>

(* The callers of stdin's Stop that wait do so until the join is over.     *)
LatchAfterJoin == kind = "stdin" /\ stopFinished => WorkerExited

DrainInv ==
    /\ Shaped /\ CarriesHeld /\ ReturnedLoop
    /\ EofIsFinal /\ EndsAtEof
    /\ LatchAfterJoin /\ StopQuiesces

-----------------------------------------------------------------------------
(* Nothing runs and nothing is queued at first.                            *)
LEMMA DrainInit == LinesInit => DrainInv
<1> SUFFICES ASSUME LinesInit PROVE DrainInv
  OBVIOUS
<1> USE ProducersAssumption DEF LinesInit
<1>1. Shaped
  BY DEF Shaped
<1>2. CarriesHeld /\ ReturnedLoop /\ EofIsFinal /\ EndsAtEof /\ LatchAfterJoin /\ StopQuiesces
  BY DEF CarriesHeld, ReturnedLoop, EofIsFinal, EndsAtEof, LatchAfterJoin, StopQuiesces, WorkerExited
<1> QED BY <1>1, <1>2 DEF DrainInv

(* A worker that is done stays done.                                       *)
LEMMA WorkerStaysDone ==
    ASSUME [LinesNext]_linesVars, WorkerExited PROVE WorkerExited'
<1> USE ProducersAssumption DEF configVars, peerVars, sessionVars, byteQueueVars, stopVars, loopVars, WorkerExited
<1>1. ASSUME NEW p \in Peers, Send(p) PROVE WorkerExited'
  BY <1>1 DEF Send
<1>2. ASSUME NEW p \in Peers, Connect(p) PROVE WorkerExited'
  BY <1>2 DEF Connect
<1>3. ASSUME NEW p \in Peers, HangUp(p) PROVE WorkerExited'
  BY <1>3 DEF HangUp
<1>4. ASSUME NEW p \in Peers, LoseLine(p) PROVE WorkerExited'
  BY <1>4 DEF LoseLine
<1>5. ASSUME NEW p \in Peers, OnAccept(p) PROVE WorkerExited'
  BY <1>5 DEF OnAccept
<1>6. ASSUME NEW p \in Peers, OnRead(p) PROVE WorkerExited'
  BY <1>6 DEF OnRead
<1>7. ASSUME NEW p \in Peers, OnReadError(p) PROVE WorkerExited'
  BY <1>7 DEF OnReadError
<1>8. ASSUME NEW p \in Peers, OnReceive(p) PROVE WorkerExited'
  BY <1>8 DEF OnReceive
<1>9. CASE OnPostedClose
  BY <1>9 DEF OnPostedClose
<1>10. CASE RunReturns
  BY <1>10 DEF RunReturns
<1>11. CASE StdinHead
  BY <1>11 DEF StdinHead
<1>12. CASE StdinPoll
  BY <1>12 DEF StdinPoll
<1>13. CASE StdinRead
  BY <1>13 DEF StdinRead
<1>14. CASE StdinExit
  BY <1>14 DEF StdinExit
<1>15. ASSUME NEW s \in Stoppers, StopBegin(s) PROVE WorkerExited'
  BY <1>15 DEF StopBegin
<1>16. ASSUME NEW s \in Stoppers, StopWon(s) PROVE WorkerExited'
  BY <1>16 DEF StopWon
<1>17. ASSUME NEW s \in Stoppers, StopJoined(s) PROVE WorkerExited'
  BY <1>17 DEF StopJoined
<1>18. ASSUME NEW s \in Stoppers, StopLatched(s) PROVE WorkerExited'
  BY <1>18 DEF StopLatched
<1>19. CASE RequestLoopStop
  BY <1>19 DEF RequestLoopStop
<1>20. CASE LoopRead
  BY <1>20 DEF LoopRead
<1>21. CASE LoopCheck
  BY <1>21 DEF LoopCheck
<1>22. CASE LoopWait
  BY <1>22 DEF LoopWait
<1>23. CASE LoopScan
  BY <1>23 DEF LoopScan
<1>24. CASE UNCHANGED linesVars
  BY <1>24 DEF linesVars
<1> QED
  BY <1>1, <1>2, <1>3, <1>4, <1>5, <1>6, <1>7, <1>8, <1>9, <1>10, <1>11, <1>12, <1>13, <1>14,
     <1>15, <1>16, <1>17, <1>18, <1>19, <1>20, <1>21, <1>22, <1>23, <1>24
  DEF LinesNext, PeerStep, ProducerWorker, StopReturns, Callers, Loop

(* One case per action of the producers, the parse loop and Stop.          *)
LEMMA DrainStep == DrainInv /\ [LinesNext]_linesVars => DrainInv'
<1> SUFFICES ASSUME DrainInv, [LinesNext]_linesVars PROVE DrainInv'
  OBVIOUS
<1> USE ProducersAssumption DEF configVars, peerVars, sessionVars, byteQueueVars, stopVars, loopVars, DrainInv
<1>1. ASSUME NEW p \in Peers, Send(p) PROVE DrainInv'
  <2>1. Shaped'
    BY <1>1 DEF Send, Shaped, WorkerExited
  <2>2. CarriesHeld'
    BY <1>1 DEF Send, CarriesHeld, WorkerExited
  <2>3. ReturnedLoop'
    BY <1>1 DEF Send, ReturnedLoop, WorkerExited
  <2>4. EofIsFinal'
    BY <1>1 DEF Send, EofIsFinal, WorkerExited
  <2>5. EndsAtEof'
    BY <1>1 DEF Send, EndsAtEof, WorkerExited
  <2>6. LatchAfterJoin'
    BY <1>1 DEF Send, LatchAfterJoin, WorkerExited
  <2>7. StopQuiesces'
    BY <1>1 DEF Send, StopQuiesces, WorkerExited
  <2> QED BY <2>1, <2>2, <2>3, <2>4, <2>5, <2>6, <2>7
<1>2. ASSUME NEW p \in Peers, Connect(p) PROVE DrainInv'
  <2>1. Shaped'
    BY <1>2 DEF Connect, Shaped, WorkerExited
  <2>2. CarriesHeld'
    BY <1>2 DEF Connect, CarriesHeld, WorkerExited
  <2>3. ReturnedLoop'
    BY <1>2 DEF Connect, ReturnedLoop, WorkerExited
  <2>4. EofIsFinal'
    BY <1>2 DEF Connect, EofIsFinal, WorkerExited
  <2>5. EndsAtEof'
    BY <1>2 DEF Connect, EndsAtEof, WorkerExited
  <2>6. LatchAfterJoin'
    BY <1>2 DEF Connect, LatchAfterJoin, WorkerExited
  <2>7. StopQuiesces'
    BY <1>2 DEF Connect, StopQuiesces, WorkerExited
  <2> QED BY <2>1, <2>2, <2>3, <2>4, <2>5, <2>6, <2>7
<1>3. ASSUME NEW p \in Peers, HangUp(p) PROVE DrainInv'
  <2>1. Shaped'
    BY <1>3 DEF HangUp, Shaped, WorkerExited
  <2>2. CarriesHeld'
    BY <1>3 DEF HangUp, CarriesHeld, WorkerExited
  <2>3. ReturnedLoop'
    BY <1>3 DEF HangUp, ReturnedLoop, WorkerExited
  <2>4. EofIsFinal'
    BY <1>3 DEF HangUp, EofIsFinal, WorkerExited
  <2>5. EndsAtEof'
    BY <1>3 DEF HangUp, EndsAtEof, WorkerExited
  <2>6. LatchAfterJoin'
    BY <1>3 DEF HangUp, LatchAfterJoin, WorkerExited
  <2>7. StopQuiesces'
    BY <1>3 DEF HangUp, StopQuiesces, WorkerExited
  <2> QED BY <2>1, <2>2, <2>3, <2>4, <2>5, <2>6, <2>7
<1>4. ASSUME NEW p \in Peers, LoseLine(p) PROVE DrainInv'
  <2>1. Shaped'
    BY <1>4 DEF LoseLine, Shaped, WorkerExited
  <2>2. CarriesHeld'
    BY <1>4 DEF LoseLine, CarriesHeld, WorkerExited
  <2>3. ReturnedLoop'
    BY <1>4 DEF LoseLine, ReturnedLoop, WorkerExited
  <2>4. EofIsFinal'
    BY <1>4 DEF LoseLine, EofIsFinal, WorkerExited
  <2>5. EndsAtEof'
    BY <1>4 DEF LoseLine, EndsAtEof, WorkerExited
  <2>6. LatchAfterJoin'
    BY <1>4 DEF LoseLine, LatchAfterJoin, WorkerExited
  <2>7. StopQuiesces'
    BY <1>4 DEF LoseLine, StopQuiesces, WorkerExited
  <2> QED BY <2>1, <2>2, <2>3, <2>4, <2>5, <2>6, <2>7
<1>5. ASSUME NEW p \in Peers, OnAccept(p) PROVE DrainInv'
  <2>1. Shaped'
    BY <1>5 DEF OnAccept, Shaped, WorkerExited
  <2>2. CarriesHeld'
    BY <1>5 DEF OnAccept, CarriesHeld, WorkerExited
  <2>3. ReturnedLoop'
    BY <1>5 DEF OnAccept, ReturnedLoop, WorkerExited
  <2>4. EofIsFinal'
    BY <1>5 DEF OnAccept, EofIsFinal, WorkerExited
  <2>5. EndsAtEof'
    BY <1>5 DEF OnAccept, EndsAtEof, WorkerExited
  <2>6. LatchAfterJoin'
    BY <1>5 DEF OnAccept, LatchAfterJoin, WorkerExited
  <2>7. StopQuiesces'
    BY <1>5 DEF OnAccept, StopQuiesces, WorkerExited
  <2> QED BY <2>1, <2>2, <2>3, <2>4, <2>5, <2>6, <2>7
<1>6. ASSUME NEW p \in Peers, OnRead(p) PROVE DrainInv'
  <2>1. Shaped'
    <3>1. UNCHANGED stopper /\ \E v : sessionCarry' = [sessionCarry EXCEPT ![p] = v]
      BY <1>6 DEF OnRead
    <3> QED BY <3>1 DEF Shaped
  <2>2. CarriesHeld'
    BY <1>6 DEF OnRead, CarriesHeld, WorkerExited, Shaped
  <2>3. ReturnedLoop'
    BY <1>6 DEF OnRead, ReturnedLoop, WorkerExited
  <2>4. EofIsFinal'
    BY <1>6 DEF OnRead, EofIsFinal, WorkerExited, ReturnedLoop
  <2>5. EndsAtEof'
    BY <1>6 DEF OnRead, EndsAtEof, WorkerExited
  <2>6. LatchAfterJoin'
    BY <1>6 DEF OnRead, LatchAfterJoin, WorkerExited
  <2>7. StopQuiesces'
    BY <1>6 DEF OnRead, StopQuiesces, WorkerExited
  <2> QED BY <2>1, <2>2, <2>3, <2>4, <2>5, <2>6, <2>7
<1>7. ASSUME NEW p \in Peers, OnReadError(p) PROVE DrainInv'
  <2>1. Shaped'
    BY <1>7 DEF OnReadError, Shaped, WorkerExited
  <2>2. CarriesHeld'
    BY <1>7 DEF OnReadError, CarriesHeld, WorkerExited, Shaped
  <2>3. ReturnedLoop'
    BY <1>7 DEF OnReadError, ReturnedLoop, WorkerExited
  <2>4. EofIsFinal'
    BY <1>7 DEF OnReadError, EofIsFinal, WorkerExited, ReturnedLoop
  <2>5. EndsAtEof'
    BY <1>7 DEF OnReadError, EndsAtEof, WorkerExited
  <2>6. LatchAfterJoin'
    BY <1>7 DEF OnReadError, LatchAfterJoin, WorkerExited
  <2>7. StopQuiesces'
    BY <1>7 DEF OnReadError, StopQuiesces, WorkerExited
  <2> QED BY <2>1, <2>2, <2>3, <2>4, <2>5, <2>6, <2>7
<1>8. ASSUME NEW p \in Peers, OnReceive(p) PROVE DrainInv'
  <2>1. Shaped'
    BY <1>8 DEF OnReceive, Shaped, WorkerExited
  <2>2. CarriesHeld'
    BY <1>8 DEF OnReceive, CarriesHeld, WorkerExited
  <2>3. ReturnedLoop'
    BY <1>8 DEF OnReceive, ReturnedLoop, WorkerExited
  <2>4. EofIsFinal'
    BY <1>8 DEF OnReceive, EofIsFinal, WorkerExited, ReturnedLoop
  <2>5. EndsAtEof'
    BY <1>8 DEF OnReceive, EndsAtEof, WorkerExited
  <2>6. LatchAfterJoin'
    BY <1>8 DEF OnReceive, LatchAfterJoin, WorkerExited
  <2>7. StopQuiesces'
    BY <1>8 DEF OnReceive, StopQuiesces, WorkerExited
  <2> QED BY <2>1, <2>2, <2>3, <2>4, <2>5, <2>6, <2>7
<1>9. CASE OnPostedClose
  <2>1. Shaped'
    BY <1>9 DEF OnPostedClose, Shaped, WorkerExited
  <2>2. CarriesHeld'
    BY <1>9 DEF OnPostedClose, CarriesHeld, WorkerExited
  <2>3. ReturnedLoop'
    BY <1>9 DEF OnPostedClose, ReturnedLoop, WorkerExited
  <2>4. EofIsFinal'
    BY <1>9 DEF OnPostedClose, EofIsFinal, WorkerExited
  <2>5. EndsAtEof'
    BY <1>9 DEF OnPostedClose, EndsAtEof, WorkerExited
  <2>6. LatchAfterJoin'
    BY <1>9 DEF OnPostedClose, LatchAfterJoin, WorkerExited
  <2>7. StopQuiesces'
    BY <1>9 DEF OnPostedClose, StopQuiesces, WorkerExited
  <2> QED BY <2>1, <2>2, <2>3, <2>4, <2>5, <2>6, <2>7
<1>10. CASE RunReturns
  <2>1. Shaped'
    BY <1>10 DEF RunReturns, Shaped, WorkerExited
  <2>2. CarriesHeld'
    BY <1>10 DEF RunReturns, CarriesHeld, WorkerExited
  <2>3. ReturnedLoop'
    BY <1>10 DEF RunReturns, ReturnedLoop, WorkerExited
  <2>4. EofIsFinal'
    BY <1>10 DEF RunReturns, EofIsFinal, WorkerExited
  <2>5. EndsAtEof'
    BY <1>10 DEF RunReturns, EndsAtEof, WorkerExited
  <2>6. LatchAfterJoin'
    BY <1>10 DEF RunReturns, LatchAfterJoin, WorkerExited
  <2>7. StopQuiesces'
    BY <1>10 DEF RunReturns, StopQuiesces, WorkerExited
  <2> QED BY <2>1, <2>2, <2>3, <2>4, <2>5, <2>6, <2>7
<1>11. CASE StdinHead
  <2>1. Shaped'
    BY <1>11 DEF StdinHead, Shaped, WorkerExited
  <2>2. CarriesHeld'
    BY <1>11 DEF StdinHead, CarriesHeld, WorkerExited
  <2>3. ReturnedLoop'
    BY <1>11 DEF StdinHead, ReturnedLoop, WorkerExited
  <2>4. EofIsFinal'
    BY <1>11 DEF StdinHead, EofIsFinal, WorkerExited
  <2>5. EndsAtEof'
    BY <1>11 DEF StdinHead, EndsAtEof, WorkerExited
  <2>6. LatchAfterJoin'
    BY <1>11 DEF StdinHead, LatchAfterJoin, WorkerExited
  <2>7. StopQuiesces'
    BY <1>11 DEF StdinHead, StopQuiesces, WorkerExited
  <2> QED BY <2>1, <2>2, <2>3, <2>4, <2>5, <2>6, <2>7
<1>12. CASE StdinPoll
  <2>1. Shaped'
    BY <1>12 DEF StdinPoll, Shaped, WorkerExited
  <2>2. CarriesHeld'
    BY <1>12 DEF StdinPoll, CarriesHeld, WorkerExited
  <2>3. ReturnedLoop'
    BY <1>12 DEF StdinPoll, ReturnedLoop, WorkerExited
  <2>4. EofIsFinal'
    BY <1>12 DEF StdinPoll, EofIsFinal, WorkerExited
  <2>5. EndsAtEof'
    BY <1>12 DEF StdinPoll, EndsAtEof, WorkerExited
  <2>6. LatchAfterJoin'
    BY <1>12 DEF StdinPoll, LatchAfterJoin, WorkerExited
  <2>7. StopQuiesces'
    BY <1>12 DEF StdinPoll, StopQuiesces, WorkerExited
  <2> QED BY <2>1, <2>2, <2>3, <2>4, <2>5, <2>6, <2>7
<1>13. CASE StdinRead
  <2>1. Shaped'
    BY <1>13 DEF StdinRead, Shaped, WorkerExited
  <2>2. CarriesHeld'
    BY <1>13 DEF StdinRead, CarriesHeld, WorkerExited
  <2>3. ReturnedLoop'
    BY <1>13 DEF StdinRead, ReturnedLoop, WorkerExited
  <2>4. EofIsFinal'
    BY <1>13 DEF StdinRead, EofIsFinal, WorkerExited
  <2>5. EndsAtEof'
    BY <1>13 DEF StdinRead, EndsAtEof, WorkerExited
  <2>6. LatchAfterJoin'
    BY <1>13 DEF StdinRead, LatchAfterJoin, WorkerExited
  <2>7. StopQuiesces'
    BY <1>13 DEF StdinRead, StopQuiesces, WorkerExited
  <2> QED BY <2>1, <2>2, <2>3, <2>4, <2>5, <2>6, <2>7
<1>14. CASE StdinExit
  <2>1. Shaped'
    BY <1>14 DEF StdinExit, Shaped, WorkerExited
  <2>2. CarriesHeld'
    BY <1>14 DEF StdinExit, CarriesHeld, WorkerExited
  <2>3. ReturnedLoop'
    BY <1>14 DEF StdinExit, ReturnedLoop, WorkerExited
  <2>4. EofIsFinal'
    BY <1>14 DEF StdinExit, EofIsFinal, WorkerExited
  <2>5. EndsAtEof'
    BY <1>14 DEF StdinExit, EndsAtEof, WorkerExited
  <2>6. LatchAfterJoin'
    BY <1>14 DEF StdinExit, LatchAfterJoin, WorkerExited
  <2>7. StopQuiesces'
    BY <1>14 DEF StdinExit, StopQuiesces, WorkerExited
  <2> QED BY <2>1, <2>2, <2>3, <2>4, <2>5, <2>6, <2>7
<1>15. ASSUME NEW s \in Stoppers, StopBegin(s) PROVE DrainInv'
  <2>1. Shaped'
    BY <1>15 DEF StopBegin, Shaped, WorkerExited
  <2>2. CarriesHeld'
    BY <1>15 DEF StopBegin, CarriesHeld, WorkerExited
  <2>3. ReturnedLoop'
    BY <1>15 DEF StopBegin, ReturnedLoop, WorkerExited
  <2>4. EofIsFinal'
    BY <1>15 DEF StopBegin, EofIsFinal, WorkerExited
  <2>5. EndsAtEof'
    BY <1>15 DEF StopBegin, EndsAtEof, WorkerExited
  <2>6. LatchAfterJoin'
    BY <1>15 DEF StopBegin, LatchAfterJoin, WorkerExited
  <2>7. StopQuiesces'
    BY <1>15 DEF StopBegin, StopQuiesces, WorkerExited, Shaped, LoserWaits
  <2> QED BY <2>1, <2>2, <2>3, <2>4, <2>5, <2>6, <2>7
<1>16. ASSUME NEW s \in Stoppers, StopWon(s) PROVE DrainInv'
  <2>1. Shaped'
    BY <1>16 DEF StopWon, Shaped, WorkerExited
  <2>2. CarriesHeld'
    BY <1>16 DEF StopWon, CarriesHeld, WorkerExited
  <2>3. ReturnedLoop'
    BY <1>16 DEF StopWon, ReturnedLoop, WorkerExited
  <2>4. EofIsFinal'
    BY <1>16 DEF StopWon, EofIsFinal, WorkerExited
  <2>5. EndsAtEof'
    BY <1>16 DEF StopWon, EndsAtEof, WorkerExited
  <2>6. LatchAfterJoin'
    BY <1>16 DEF StopWon, LatchAfterJoin, WorkerExited
  <2>7. StopQuiesces'
    BY <1>16 DEF StopWon, StopQuiesces, WorkerExited, Shaped
  <2> QED BY <2>1, <2>2, <2>3, <2>4, <2>5, <2>6, <2>7
<1>17. ASSUME NEW s \in Stoppers, StopJoined(s) PROVE DrainInv'
  <2>1. Shaped'
    BY <1>17 DEF StopJoined, Shaped, WorkerExited
  <2>2. CarriesHeld'
    BY <1>17 DEF StopJoined, CarriesHeld, WorkerExited
  <2>3. ReturnedLoop'
    BY <1>17 DEF StopJoined, ReturnedLoop, WorkerExited
  <2>4. EofIsFinal'
    BY <1>17 DEF StopJoined, EofIsFinal, WorkerExited
  <2>5. EndsAtEof'
    BY <1>17 DEF StopJoined, EndsAtEof, WorkerExited
  <2>6. LatchAfterJoin'
    BY <1>17 DEF StopJoined, LatchAfterJoin, WorkerExited
  <2>7. StopQuiesces'
    BY <1>17 DEF StopJoined, StopQuiesces, WorkerExited, Shaped
  <2> QED BY <2>1, <2>2, <2>3, <2>4, <2>5, <2>6, <2>7
<1>18. ASSUME NEW s \in Stoppers, StopLatched(s) PROVE DrainInv'
  <2>1. Shaped'
    BY <1>18 DEF StopLatched, Shaped, WorkerExited
  <2>2. CarriesHeld'
    BY <1>18 DEF StopLatched, CarriesHeld, WorkerExited
  <2>3. ReturnedLoop'
    BY <1>18 DEF StopLatched, ReturnedLoop, WorkerExited
  <2>4. EofIsFinal'
    BY <1>18 DEF StopLatched, EofIsFinal, WorkerExited
  <2>5. EndsAtEof'
    BY <1>18 DEF StopLatched, EndsAtEof, WorkerExited
  <2>6. LatchAfterJoin'
    BY <1>18 DEF StopLatched, LatchAfterJoin, WorkerExited
  <2>7. StopQuiesces'
    BY <1>18 DEF StopLatched, StopQuiesces, WorkerExited, Shaped, LatchAfterJoin
  <2> QED BY <2>1, <2>2, <2>3, <2>4, <2>5, <2>6, <2>7
<1>19. CASE RequestLoopStop
  <2>1. Shaped'
    BY <1>19 DEF RequestLoopStop, Shaped, WorkerExited
  <2>2. CarriesHeld'
    BY <1>19 DEF RequestLoopStop, CarriesHeld, WorkerExited
  <2>3. ReturnedLoop'
    BY <1>19 DEF RequestLoopStop, ReturnedLoop, WorkerExited
  <2>4. EofIsFinal'
    BY <1>19 DEF RequestLoopStop, EofIsFinal, WorkerExited
  <2>5. EndsAtEof'
    BY <1>19 DEF RequestLoopStop, EndsAtEof, WorkerExited
  <2>6. LatchAfterJoin'
    BY <1>19 DEF RequestLoopStop, LatchAfterJoin, WorkerExited
  <2>7. StopQuiesces'
    BY <1>19 DEF RequestLoopStop, StopQuiesces, WorkerExited
  <2> QED BY <2>1, <2>2, <2>3, <2>4, <2>5, <2>6, <2>7
<1>20. CASE LoopRead
  <2>1. Shaped'
    BY <1>20 DEF LoopRead, Shaped, WorkerExited
  <2>2. CarriesHeld'
    BY <1>20 DEF LoopRead, CarriesHeld, WorkerExited
  <2>3. ReturnedLoop'
    BY <1>20 DEF LoopRead, ReturnedLoop, WorkerExited
  <2>4. EofIsFinal'
    <3>1. UNCHANGED <<kind, reachedEof, worker>>
      BY <1>20 DEF LoopRead
    <3>2. ASSUME queue = <<>> PROVE queue' = <<>>
      <4>1. Least(ReadBuffer, Len(queue)) = 0
        BY <3>2 DEF Least
      <4>2. queue' = queue \/ queue' = SubSeq(queue, 1, 0) \/ queue' = SubSeq(queue, 0 + 1, Len(queue))
        BY <1>20, <4>1 DEF LoopRead
      <4> QED BY <3>2, <4>2
    <3> QED BY <3>1, <3>2 DEF EofIsFinal, WorkerExited
  <2>5. EndsAtEof'
    BY <1>20 DEF LoopRead, EndsAtEof, WorkerExited
  <2>6. LatchAfterJoin'
    BY <1>20 DEF LoopRead, LatchAfterJoin, WorkerExited
  <2>7. StopQuiesces'
    BY <1>20 DEF LoopRead, StopQuiesces, WorkerExited
  <2> QED BY <2>1, <2>2, <2>3, <2>4, <2>5, <2>6, <2>7
<1>21. CASE LoopCheck
  <2>1. Shaped'
    BY <1>21 DEF LoopCheck, Shaped, WorkerExited
  <2>2. CarriesHeld'
    BY <1>21 DEF LoopCheck, CarriesHeld, WorkerExited
  <2>3. ReturnedLoop'
    BY <1>21 DEF LoopCheck, ReturnedLoop, WorkerExited
  <2>4. EofIsFinal'
    BY <1>21 DEF LoopCheck, EofIsFinal, WorkerExited, IsClosed
  <2>5. EndsAtEof'
    BY <1>21 DEF LoopCheck, EndsAtEof, WorkerExited
  <2>6. LatchAfterJoin'
    BY <1>21 DEF LoopCheck, LatchAfterJoin, WorkerExited
  <2>7. StopQuiesces'
    BY <1>21 DEF LoopCheck, StopQuiesces, WorkerExited
  <2> QED BY <2>1, <2>2, <2>3, <2>4, <2>5, <2>6, <2>7
<1>22. CASE LoopWait
  <2>1. Shaped'
    BY <1>22 DEF LoopWait, Shaped, WorkerExited
  <2>2. CarriesHeld'
    BY <1>22 DEF LoopWait, CarriesHeld, WorkerExited
  <2>3. ReturnedLoop'
    BY <1>22 DEF LoopWait, ReturnedLoop, WorkerExited
  <2>4. EofIsFinal'
    BY <1>22 DEF LoopWait, EofIsFinal, WorkerExited
  <2>5. EndsAtEof'
    BY <1>22 DEF LoopWait, EndsAtEof, WorkerExited
  <2>6. LatchAfterJoin'
    BY <1>22 DEF LoopWait, LatchAfterJoin, WorkerExited
  <2>7. StopQuiesces'
    BY <1>22 DEF LoopWait, StopQuiesces, WorkerExited
  <2> QED BY <2>1, <2>2, <2>3, <2>4, <2>5, <2>6, <2>7
<1>23. CASE LoopScan
  <2>1. Shaped'
    BY <1>23 DEF LoopScan, Shaped, WorkerExited
  <2>2. CarriesHeld'
    BY <1>23 DEF LoopScan, CarriesHeld, WorkerExited
  <2>3. ReturnedLoop'
    BY <1>23 DEF LoopScan, ReturnedLoop, WorkerExited
  <2>4. EofIsFinal'
    BY <1>23 DEF LoopScan, EofIsFinal, WorkerExited
  <2>5. EndsAtEof'
    BY <1>23 DEF LoopScan, EndsAtEof, WorkerExited
  <2>6. LatchAfterJoin'
    BY <1>23 DEF LoopScan, LatchAfterJoin, WorkerExited
  <2>7. StopQuiesces'
    BY <1>23 DEF LoopScan, StopQuiesces, WorkerExited
  <2> QED BY <2>1, <2>2, <2>3, <2>4, <2>5, <2>6, <2>7
<1>24. CASE UNCHANGED linesVars
  BY <1>24 DEF linesVars, Shaped, CarriesHeld, ReturnedLoop, EofIsFinal, EndsAtEof,
     LatchAfterJoin, StopQuiesces, WorkerExited
<1> QED
  BY <1>1, <1>2, <1>3, <1>4, <1>5, <1>6, <1>7, <1>8, <1>9, <1>10, <1>11, <1>12, <1>13, <1>14,
     <1>15, <1>16, <1>17, <1>18, <1>19, <1>20, <1>21, <1>22, <1>23, <1>24
  DEF LinesNext, PeerStep, ProducerWorker, StopReturns, Callers, Loop

(* Whoever stops a producer, and at whatever step of the other threads: a  *)
(* server's parse ends with queue, carry and sessions empty and its event  *)
(* loop returned, and Stop of the stdin producer returns after the join.   *)
THEOREM ProducersEndDrained == LinesSpec => []EndsDrained
<1>1. LinesSpec => []DrainInv
  BY DrainInit, DrainStep, PTL DEF LinesSpec
<1>2. DrainInv => EndsDrained
  BY DEF DrainInv, EndsDrained, ServerDrainedAtEof, CarriesHeld, ReturnedLoop, EofIsFinal,
     EndsAtEof, WorkerExited
<1> QED BY <1>1, <1>2, PTL

-----------------------------------------------------------------------------
(* A set of numbers that is not empty has a least one.                     *)
LEMMA LeastNat ==
    ASSUME NEW T \in SUBSET Nat, T # {}
    PROVE  \E m \in T : \A k \in T : m <= k
<1> DEFINE R == OpToRel(<, Nat)
<1>1. IsWellFoundedOn(R, Nat)
  BY NatLessThanWellFounded
<1>2. PICK m \in T : \A k \in T : ~ (<<k, m>> \in R)
  BY <1>1, WFMin, Zenon
<1>3. \A k, n \in Nat : k < n => <<k, n>> \in R
  BY DEF OpToRel
<1> HIDE DEF R
<1>4. \A k \in T : ~ (k < m) /\ k \in Nat /\ m \in Nat
  BY <1>2, <1>3
<1> QED BY <1>4

Pick(s) == CHOOSE x \in s : TRUE

(* f sums v over every set of peers, the way MapThenSumSet does.           *)
Sums(f, v) == f = [s \in SUBSET Peers |-> IF s = {} THEN 0 ELSE v[Pick(s)] + f[s \ {Pick(s)}]]

(* The sets of at most n peers.                                            *)
AtMost(n) == {s \in SUBSET Peers : Cardinality(s) <= n}

LEMMA Picked ==
    ASSUME NEW s \in SUBSET Peers, s # {}
    PROVE  /\ Pick(s) \in s /\ Pick(s) \in Peers /\ s \ {Pick(s)} \in SUBSET Peers
           /\ IsFiniteSet(s) /\ Cardinality(s) \in Nat \ {0}
           /\ Cardinality(s \ {Pick(s)}) = Cardinality(s) - 1
<1>1. Pick(s) \in s
  BY DEF Pick
<1>2. IsFiniteSet(Peers)
  BY ProducersAssumption
<1>3. IsFiniteSet(s)
  BY <1>2, FS_Subset
<1>4. Cardinality(s) \in Nat /\ Cardinality(s) # 0
  BY <1>3, FS_CardinalityType, FS_EmptySet
<1>5. Cardinality(s \ {Pick(s)}) = Cardinality(s) - 1
  BY <1>1, <1>3, FS_RemoveElement
<1> QED BY <1>1, <1>3, <1>4, <1>5

(* The sums exist.                                                         *)
LEMMA SumsExist ==
    ASSUME NEW v
    PROVE  \E f : Sums(f, v)
<1> DEFINE Rec(h, s) == IF s = {} THEN 0 ELSE v[Pick(s)] + h[s \ {Pick(s)}]
           Fits(h, n) == DOMAIN h = AtMost(n) /\ h = [s \in AtMost(n) |-> h[s]] /\ \A s \in AtMost(n) : h[s] = Rec(h, s)
           Bad == {n \in Nat : ~ \E h : Fits(h, n)}
<1>0. \A s \in SUBSET Peers : Cardinality(s) \in Nat /\ (Cardinality(s) = 0 <=> s = {})
  BY ProducersAssumption, FS_Subset, FS_CardinalityType, FS_EmptySet
<1>1. 0 \notin Bad
  <2> DEFINE h == [s \in AtMost(0) |-> 0]
  <2>1. \A s \in AtMost(0) : s = {}
    BY <1>0 DEF AtMost
  <2>2. Fits(h, 0)
    BY <2>1
  <2> QED BY <2>2
<1>2. ASSUME NEW n \in Nat, n \notin Bad
      PROVE  n + 1 \notin Bad
  <2>1. PICK h : Fits(h, n)
    BY <1>2
  <2> DEFINE g == [s \in AtMost(n + 1) |-> Rec(h, s)]
  <2>2. ASSUME NEW s \in AtMost(n + 1), s # {}
        PROVE  g[s \ {Pick(s)}] = h[s \ {Pick(s)}]
    <3>1. s \ {Pick(s)} \in AtMost(n) /\ s \ {Pick(s)} \in AtMost(n + 1)
      BY <2>2, Picked DEF AtMost
    <3>2. h[s \ {Pick(s)}] = Rec(h, s \ {Pick(s)})
      BY <2>1, <3>1
    <3> QED BY <3>1, <3>2
  <2>3. ASSUME NEW s \in AtMost(n + 1)
        PROVE  g[s] = Rec(g, s)
    <3>1. CASE s = {}
      BY <3>1
    <3>2. CASE s # {}
      BY <3>2, <2>2
    <3> QED BY <3>1, <3>2
  <2>4. Fits(g, n + 1)
    BY <2>3
  <2> QED BY <2>4
<1>3. Bad = {}
  <2> SUFFICES ASSUME Bad # {} PROVE FALSE
    OBVIOUS
  <2>1. Bad \in SUBSET Nat
    OBVIOUS
  <2> HIDE DEF Bad
  <2>2. PICK m \in Bad : \A k \in Bad : m <= k
    BY <2>1, LeastNat
  <2>3. m \in Nat /\ m # 0
    BY <1>1, <2>1, <2>2
  <2>4. m - 1 \in Nat /\ m - 1 \notin Bad /\ (m - 1) + 1 = m
    BY <2>2, <2>3
  <2>5. m \notin Bad
    BY <1>2, <2>4
  <2> QED BY <2>2, <2>5
<1>4. PICK n : n \in Nat /\ AtMost(n) = SUBSET Peers
  <2>1. \A s \in SUBSET Peers : Cardinality(s) <= Cardinality(Peers)
    BY ProducersAssumption, FS_Subset
  <2>2. Cardinality(Peers) \in Nat
    BY ProducersAssumption, FS_CardinalityType
  <2> QED BY <2>1, <2>2 DEF AtMost
<1>5. PICK h : Fits(h, n)
  BY <1>3, <1>4
<1>6. h = [s \in SUBSET Peers |-> Rec(h, s)]
  BY <1>4, <1>5
<1> QED BY <1>6 DEF Sums

CarrySum(c) == MapThenSumSet(LAMBDA p : Len(c[p]), Peers)

LEMMA CarrySumIs ==
    ASSUME NEW c
    PROVE  \E f : Sums(f, [p \in Peers |-> Len(c[p])]) /\ CarrySum(c) = f[Peers]
<1> DEFINE v == [p \in Peers |-> Len(c[p])]
           P(f) == f = [s \in SUBSET Peers |-> IF s = {} THEN 0 ELSE Len(c[CHOOSE x \in s : TRUE]) + f[s \ {CHOOSE x \in s : TRUE}]]
           g == CHOOSE f : P(f)
<1>1. ASSUME NEW f PROVE  P(f) <=> Sums(f, v)
  <2>1. \A s \in SUBSET Peers : s # {} => v[Pick(s)] = Len(c[CHOOSE x \in s : TRUE])
    BY Picked DEF Pick
  <2> QED BY <2>1 DEF Sums, Pick
<1>2. P(g)
  <2>1. PICK h : Sums(h, v)
    BY SumsExist
  <2>2. P(h)
    BY <1>1, <2>1
  <2> HIDE DEF P
  <2> QED BY <2>2
<1>3. CarrySum(c) = g[Peers]
  BY DEF CarrySum, MapThenSumSet, MapThenFoldSet
<1> QED BY <1>1, <1>2, <1>3

(* What is proved of the sums over all sets of at most n peers holds of    *)
(* all sets of peers.                                                      *)
LEMMA SumsNat ==
    ASSUME NEW v \in [Peers -> Nat], NEW f, Sums(f, v)
    PROVE  \A s \in SUBSET Peers : f[s] \in Nat
<1> DEFINE Bad == {Cardinality(s) : s \in {t \in SUBSET Peers : f[t] \notin Nat}}
<1>1. \A s \in SUBSET Peers : Cardinality(s) \in Nat
  BY ProducersAssumption, FS_Subset, FS_CardinalityType
<1> SUFFICES ASSUME Bad # {} PROVE FALSE
  OBVIOUS
<1>2. Bad \in SUBSET Nat
  BY <1>1
<1>3. PICK m \in Bad : \A k \in Bad : m <= k
  <2> HIDE DEF Bad
  <2> QED BY <1>2, LeastNat
<1>4. PICK s \in SUBSET Peers : Cardinality(s) = m /\ f[s] \notin Nat
  BY <1>3
<1>5. f[s] = IF s = {} THEN 0 ELSE v[Pick(s)] + f[s \ {Pick(s)}]
  BY DEF Sums
<1>6. s # {}
  BY <1>4, <1>5
<1> DEFINE t == s \ {Pick(s)}
<1>7. t \in SUBSET Peers /\ Cardinality(t) = m - 1 /\ Pick(s) \in Peers /\ m \in Nat
  BY <1>4, <1>6, Picked
<1>8. f[t] \in Nat
  <2> SUFFICES ASSUME f[t] \notin Nat PROVE FALSE
    OBVIOUS
  <2>1. m - 1 \in Bad
    BY <1>7
  <2> QED BY <1>3, <1>7, <2>1
<1>9. v[Pick(s)] \in Nat
  BY <1>7
<1> QED BY <1>4, <1>5, <1>6, <1>8, <1>9

(* A sum is at least each of its terms.                                    *)
LEMMA SumsBound ==
    ASSUME NEW v \in [Peers -> Nat], NEW f, Sums(f, v), NEW p \in Peers
    PROVE  \A s \in SUBSET Peers : p \in s => v[p] <= f[s]
<1> DEFINE Bad == {Cardinality(s) : s \in {t \in SUBSET Peers : p \in t /\ ~ (v[p] <= f[t])}}
<1>1. \A s \in SUBSET Peers : Cardinality(s) \in Nat
  BY ProducersAssumption, FS_Subset, FS_CardinalityType
<1> SUFFICES ASSUME Bad # {} PROVE FALSE
  OBVIOUS
<1>2. Bad \in SUBSET Nat
  BY <1>1
<1>3. PICK m \in Bad : \A k \in Bad : m <= k
  <2> HIDE DEF Bad
  <2> QED BY <1>2, LeastNat
<1>4. PICK s \in SUBSET Peers : Cardinality(s) = m /\ p \in s /\ ~ (v[p] <= f[s])
  BY <1>3
<1>5. f[s] = v[Pick(s)] + f[s \ {Pick(s)}]
  BY <1>4 DEF Sums
<1> DEFINE t == s \ {Pick(s)}
<1>7. t \in SUBSET Peers /\ Cardinality(t) = m - 1 /\ Pick(s) \in Peers /\ m \in Nat
  BY <1>4, Picked
<1>8. f[t] \in Nat
  BY <1>7, SumsNat
<1>9. v[Pick(s)] \in Nat /\ v[p] \in Nat
  BY <1>7
<1>10. CASE Pick(s) = p
  BY <1>4, <1>5, <1>8, <1>9, <1>10
<1>11. CASE Pick(s) # p
  <2>1. p \in t
    BY <1>4, <1>11
  <2>2. v[p] <= f[t]
    <3> SUFFICES ASSUME ~ (v[p] <= f[t]) PROVE FALSE
      OBVIOUS
    <3>1. m - 1 \in Bad
      BY <1>7, <2>1
    <3> QED BY <1>3, <1>7, <3>1
  <2> QED BY <1>4, <1>5, <1>8, <1>9, <2>2
<1> QED BY <1>10, <1>11

(* f sums v, g sums w, and w differs from v at p only.                     *)
Changed(f, v, g, w, p) ==
    /\ v \in [Peers -> Nat] /\ Sums(f, v)
    /\ w \in [Peers -> Nat] /\ Sums(g, w)
    /\ p \in Peers /\ \A q \in Peers \ {p} : w[q] = v[q]

(* When one term changes the sum changes by as much.                       *)
LEMMA SumsChange ==
    ASSUME NEW f, NEW v, NEW g, NEW w, NEW p, Changed(f, v, g, w, p)
    PROVE  \A s \in SUBSET Peers : g[s] = f[s] + (IF p \in s THEN w[p] - v[p] ELSE 0)
<1> USE DEF Changed
<1> DEFINE Right(s) == g[s] = f[s] + (IF p \in s THEN w[p] - v[p] ELSE 0)
           Bad == {Cardinality(s) : s \in {t \in SUBSET Peers : ~ Right(t)}}
<1>1. \A s \in SUBSET Peers : Cardinality(s) \in Nat
  BY ProducersAssumption, FS_Subset, FS_CardinalityType
<1> SUFFICES ASSUME Bad # {} PROVE FALSE
  OBVIOUS
<1>2. Bad \in SUBSET Nat
  BY <1>1
<1>3. PICK m \in Bad : \A k \in Bad : m <= k
  <2> HIDE DEF Bad
  <2> QED BY <1>2, LeastNat
<1>4. PICK s \in SUBSET Peers : Cardinality(s) = m /\ ~ Right(s)
  BY <1>3
<1>5. /\ f[s] = IF s = {} THEN 0 ELSE v[Pick(s)] + f[s \ {Pick(s)}]
      /\ g[s] = IF s = {} THEN 0 ELSE w[Pick(s)] + g[s \ {Pick(s)}]
  BY DEF Sums
<1>6. s # {}
  BY <1>4, <1>5
<1> DEFINE t == s \ {Pick(s)}
<1>7. t \in SUBSET Peers /\ Cardinality(t) = m - 1 /\ Pick(s) \in Peers /\ Pick(s) \in s /\ m \in Nat
  BY <1>4, <1>6, Picked
<1>8. f[t] \in Nat /\ g[t] \in Nat
  BY <1>7, SumsNat
<1>9. v[Pick(s)] \in Nat /\ v[p] \in Nat /\ w[Pick(s)] \in Nat /\ w[p] \in Nat
  BY <1>7
<1>10. Right(t)
  <2> SUFFICES ASSUME ~ Right(t) PROVE FALSE
    OBVIOUS
  <2>1. m - 1 \in Bad
    BY <1>7
  <2> QED BY <1>3, <1>7, <2>1
<1>11. CASE Pick(s) = p
  <2>1. p \notin t /\ p \in s
    BY <1>7, <1>11
  <2>2. g[t] = f[t]
    BY <1>8, <1>10, <2>1
  <2> QED BY <1>4, <1>5, <1>6, <1>8, <1>9, <1>11, <2>1, <2>2
<1>12. CASE Pick(s) # p
  <2>1. p \in t <=> p \in s
    BY <1>12
  <2>2. w[Pick(s)] = v[Pick(s)]
    BY <1>7, <1>12
  <2> HIDE DEF t
  <2>3. g[s] = v[Pick(s)] + g[t] /\ f[s] = v[Pick(s)] + f[t]
    BY <1>5, <1>6, <2>2 DEF t
  <2> QED BY <1>4, <1>8, <1>9, <1>10, <2>1, <2>3
<1> QED BY <1>11, <1>12

(* A sum of nothing is zero.                                               *)
LEMMA SumsZero ==
    ASSUME NEW v \in [Peers -> Nat], NEW f, Sums(f, v), \A p \in Peers : v[p] = 0
    PROVE  \A s \in SUBSET Peers : f[s] = 0
<1> DEFINE Bad == {Cardinality(s) : s \in {t \in SUBSET Peers : f[t] # 0}}
<1>1. \A s \in SUBSET Peers : Cardinality(s) \in Nat
  BY ProducersAssumption, FS_Subset, FS_CardinalityType
<1> SUFFICES ASSUME Bad # {} PROVE FALSE
  OBVIOUS
<1>2. Bad \in SUBSET Nat
  BY <1>1
<1>3. PICK m \in Bad : \A k \in Bad : m <= k
  <2> HIDE DEF Bad
  <2> QED BY <1>2, LeastNat
<1>4. PICK s \in SUBSET Peers : Cardinality(s) = m /\ f[s] # 0
  BY <1>3
<1>5. f[s] = IF s = {} THEN 0 ELSE v[Pick(s)] + f[s \ {Pick(s)}]
  BY DEF Sums
<1>6. s # {}
  BY <1>4, <1>5
<1> DEFINE t == s \ {Pick(s)}
<1>7. t \in SUBSET Peers /\ Cardinality(t) = m - 1 /\ Pick(s) \in Peers /\ m \in Nat
  BY <1>4, <1>6, Picked
<1>8. f[t] = 0
  <2> SUFFICES ASSUME f[t] # 0 PROVE FALSE
    OBVIOUS
  <2>1. m - 1 \in Bad
    BY <1>7
  <2> QED BY <1>3, <1>7, <2>1
<1>9. v[Pick(s)] = 0
  BY <1>7
<1> QED BY <1>4, <1>5, <1>6, <1>8, <1>9

(* The bytes held by the sessions.                                         *)
LEMMA CarrySumNat ==
    ASSUME NEW c \in [Peers -> Seq(Byte)]
    PROVE  CarrySum(c) \in Nat
<1> DEFINE v == [p \in Peers |-> Len(c[p])]
<1>1. v \in [Peers -> Nat]
  OBVIOUS
<1>2. PICK f : Sums(f, v) /\ CarrySum(c) = f[Peers]
  BY CarrySumIs
<1> HIDE DEF v
<1> QED BY <1>1, <1>2, SumsNat

LEMMA CarrySumChange ==
    ASSUME NEW c \in [Peers -> Seq(Byte)], NEW p \in Peers, NEW d \in Seq(Byte)
    PROVE  CarrySum([c EXCEPT ![p] = d]) = CarrySum(c) + Len(d) - Len(c[p])
<1> DEFINE e == [c EXCEPT ![p] = d]
           v == [q \in Peers |-> Len(c[q])]
           w == [q \in Peers |-> Len(e[q])]
<1>1. v \in [Peers -> Nat] /\ w \in [Peers -> Nat] /\ w[p] = Len(d) /\ v[p] = Len(c[p])
  OBVIOUS
<1>2. \A q \in Peers \ {p} : w[q] = v[q]
  OBVIOUS
<1>3. PICK f : Sums(f, v) /\ CarrySum(c) = f[Peers]
  BY CarrySumIs
<1>4. PICK g : Sums(g, w) /\ CarrySum(e) = g[Peers]
  BY CarrySumIs
<1> HIDE DEF v, w, e
<1>5. \A s \in SUBSET Peers : g[s] = f[s] + (IF p \in s THEN w[p] - v[p] ELSE 0)
  <2>1. Changed(f, v, g, w, p)
    BY <1>1, <1>2, <1>3, <1>4 DEF Changed
  <2> QED BY <2>1, SumsChange
<1>6. f[Peers] \in Nat /\ w[p] \in Nat /\ v[p] \in Nat
  BY <1>1, <1>3, SumsNat
<1>7. CarrySum(e) = CarrySum(c) + Len(d) - Len(c[p])
  BY <1>1, <1>3, <1>4, <1>5, <1>6
<1> QED BY <1>7 DEF e

LEMMA CarrySumEmpty ==
    CarrySum([p \in Peers |-> <<>>]) = 0
<1> DEFINE c == [p \in Peers |-> <<>>]
           v == [p \in Peers |-> Len(c[p])]
<1>1. v \in [Peers -> Nat] /\ \A p \in Peers : v[p] = 0
  OBVIOUS
<1>2. PICK f : Sums(f, v) /\ CarrySum(c) = f[Peers]
  BY CarrySumIs
<1> HIDE DEF v
<1>3. f[Peers] = 0
  BY <1>1, <1>2, SumsZero
<1> QED BY <1>2, <1>3

(* A peer never sends more than what the peers sent together.              *)
LEMMA SumSentBound ==
    ASSUME sent \in [Peers -> Nat], NEW p \in Peers
    PROVE  SumSent \in Nat /\ sent[p] <= SumSent
<1> DEFINE P(f) == f = [s \in SUBSET Peers |-> IF s = {} THEN 0 ELSE sent[CHOOSE x \in s : TRUE] + f[s \ {CHOOSE x \in s : TRUE}]]
           g == CHOOSE f : P(f)
<1>1. ASSUME NEW f PROVE P(f) <=> Sums(f, sent)
  BY DEF Sums, Pick
<1>2. P(g)
  <2>1. PICK h : Sums(h, sent)
    BY SumsExist
  <2>2. P(h)
    BY <1>1, <2>1
  <2> HIDE DEF P
  <2> QED BY <2>2
<1>3. SumSent = g[Peers]
  BY DEF SumSent, MapThenSumSet, MapThenFoldSet
<1>4. Sums(g, sent)
  BY <1>1, <1>2
<1> HIDE DEF g
<1> QED BY <1>3, <1>4, SumsNat, SumsBound

-----------------------------------------------------------------------------
(* Least and greatest of finite sets of numbers.                           *)
LEMMA MinNat ==
    ASSUME NEW T \in SUBSET Nat, T # {}
    PROVE  Min(T) \in T /\ \A k \in T : Min(T) <= k
<1>1. PICK m \in T : \A k \in T : m <= k
  BY LeastNat
<1> QED BY <1>1, Zenon DEF Min

LEMMA MaxNat ==
    ASSUME NEW n \in Nat, NEW T \in SUBSET (0 .. n), T # {}
    PROVE  Max(T) \in T /\ \A k \in T : k <= Max(T)
<1> DEFINE U == {u \in 0 .. n : n - u \in T}
<1>1. U \in SUBSET Nat
  OBVIOUS
<1>2. U # {}
  <2>1. PICK k \in T : TRUE
    OBVIOUS
  <2>2. n - k \in U
    BY <2>1
  <2> QED BY <2>2
<1> HIDE DEF U
<1>3. PICK u \in U : \A v \in U : u <= v
  BY <1>1, <1>2, LeastNat
<1>4. ASSUME NEW k \in T
      PROVE  n - u >= k
  <2>1. n - k \in U /\ k \in Nat
    BY DEF U
  <2>2. u <= n - k /\ u \in Nat
    BY <1>3, <1>1, <2>1
  <2> QED BY <2>1, <2>2
<1>5. n - u \in T
  BY <1>3 DEF U
<1>6. Max(T) \in T /\ \A k \in T : Max(T) >= k
  BY <1>4, <1>5, Zenon DEF Max
<1> QED BY <1>6

(* Bytes Append drops: never more than there are, and enough that what is  *)
(* left fits the cap with the payload, or the queue is left empty.         *)
LEMMA Dropped ==
    ASSUME NEW q \in Seq(Byte), NEW size \in Nat
    PROVE  /\ DropCount(q, size) \in 0 .. Len(q)
           /\ size > 0 /\ Cap > 0 => \/ DropCount(q, size) = Len(q)
                                     \/ Len(q) - DropCount(q, size) + size <= Cap
           /\ size = 0 => DropCount(q, size) = 0
<1> DEFINE over == Len(q) + size - Cap
           T == {i \in Least(over, Len(q)) + 1 .. Len(q) : q[i].nl}
           end == SelectInSubSeq(q, Least(over, Len(q)) + 1, Len(q), LAMBDA b : b.nl)
<1>1. Cap \in Nat
  BY ProducersAssumption
<1>2. CASE size = 0 \/ Cap = 0 \/ over <= 0
  <2>1. DropCount(q, size) = 0
    BY <1>2 DEF DropCount
  <2> QED BY <1>1, <1>2, <2>1
<1>3. CASE ~ (size = 0 \/ Cap = 0 \/ over <= 0)
  <2>1. DropCount(q, size) = IF end = 0 THEN Len(q) ELSE end
    BY <1>3 DEF DropCount
  <2>2. end = IF T # {} THEN Min(T) ELSE 0
    BY DEF SelectInSubSeq
  <2>3. over \in Nat /\ over > 0 /\ Least(over, Len(q)) \in Nat /\ (Least(over, Len(q)) = over \/ Least(over, Len(q)) = Len(q))
    BY <1>1, <1>3 DEF Least
  <2>4. T \in SUBSET Nat
    BY <2>3
  <2>5. CASE T = {}
    BY <1>3, <2>1, <2>2, <2>5
  <2>6. CASE T # {}
    <3>1. Min(T) \in T
      BY <2>4, <2>6, MinNat
    <3>2. Min(T) \in Least(over, Len(q)) + 1 .. Len(q)
      BY <3>1
    <3>3. end = Min(T) /\ end \in Nat
      BY <2>2, <2>3, <2>6, <3>2
    <3> HIDE DEF end
    <3> QED BY <1>1, <1>3, <2>1, <2>3, <3>2, <3>3
  <2> QED BY <2>5, <2>6
<1> QED BY <1>2, <1>3

LEMMA AppendedIs ==
    ASSUME NEW q \in Seq(Byte), NEW data \in Seq(Byte)
    PROVE  /\ Appended(q, data) \in Seq(Byte)
           /\ DropCount(q, Len(data)) \in Nat
           /\ Len(Appended(q, data)) + DropCount(q, Len(data)) = Len(q) + Len(data)
           /\ Cap > 0 => \/ Len(Appended(q, data)) <= Cap \/ Len(Appended(q, data)) = Len(data)
                         \/ Len(data) = 0 /\ Len(Appended(q, data)) = Len(q)
<1> DEFINE d == DropCount(q, Len(data))
<1>1. d \in 0 .. Len(q) /\ (Len(data) > 0 /\ Cap > 0 => d = Len(q) \/ Len(q) - d + Len(data) <= Cap)
      /\ (Len(data) = 0 => d = 0)
  <2>1. Len(data) \in Nat
    OBVIOUS
  <2> QED BY <2>1, Dropped
<1> HIDE DEF d
<1>2. SubSeq(q, d + 1, Len(q)) \in Seq(Byte) /\ Len(SubSeq(q, d + 1, Len(q))) = Len(q) - d
  BY <1>1
<1>3. Appended(q, data) = SubSeq(q, d + 1, Len(q)) \o data
  BY DEF Appended, d
<1>4. Appended(q, data) \in Seq(Byte) /\ Len(Appended(q, data)) = Len(q) - d + Len(data)
  BY <1>2, <1>3
<1> QED BY <1>1, <1>4, ProducersAssumption DEF d

LEMMA MaxOf2 ==
    ASSUME NEW a \in Nat, NEW b \in Nat
    PROVE  Max({a, b}) \in Nat /\ Max({a, b}) >= a /\ Max({a, b}) >= b
<1>1. {a, b} \in SUBSET (0 .. a + b) /\ {a, b} # {} /\ a + b \in Nat
  OBVIOUS
<1>2. Max({a, b}) \in {a, b} /\ \A k \in {a, b} : k <= Max({a, b})
  BY <1>1, MaxNat
<1> QED BY <1>2

LEMMA MaxOf3 ==
    ASSUME NEW a \in Nat, NEW b \in Nat, NEW c \in Nat
    PROVE  Max({a, b, c}) \in Nat /\ Max({a, b, c}) >= a /\ Max({a, b, c}) >= b /\ Max({a, b, c}) >= c
<1>1. {a, b, c} \in SUBSET (0 .. a + b + c) /\ {a, b, c} # {} /\ a + b + c \in Nat
  OBVIOUS
<1>2. Max({a, b, c}) \in {a, b, c} /\ \A k \in {a, b, c} : k <= Max({a, b, c})
  BY <1>1, MaxNat
<1> QED BY <1>2

(* Append, twice under one lock.                                           *)
LEMMA Enqueued ==
    ASSUME NEW data \in Seq(Byte), NEW newline \in Seq(Byte),
           queue \in Seq(Byte), droppedBytes \in Nat, drops \in Nat, payload \in Nat,
           QueueWithinCap, Enqueue(data, newline)
    PROVE  /\ queue' \in Seq(Byte) /\ droppedBytes' \in Nat /\ drops' \in Nat /\ payload' \in Nat
           /\ Len(queue') + droppedBytes' = Len(queue) + droppedBytes + Len(data) + Len(newline)
           /\ QueueWithinCap'
<1> DEFINE once == Appended(queue, data)
           d1 == DropCount(queue, Len(data))
           d2 == DropCount(once, Len(newline))
           C == {i \in 1 .. 2 : << d1, d2 >>[i] > 0}
<1>1. /\ queue' = Appended(once, newline)
      /\ droppedBytes' = droppedBytes + << d1, d2 >>[1] + << d1, d2 >>[2]
      /\ drops' = drops + Cardinality(C)
      /\ payload' = Max({payload, Len(data), Len(newline)})
  BY DEF Enqueue
<1>2. /\ once \in Seq(Byte) /\ d1 \in Nat /\ Len(once) + d1 = Len(queue) + Len(data)
      /\ Cap > 0 => \/ Len(once) <= Cap \/ Len(once) = Len(data)
                    \/ Len(data) = 0 /\ Len(once) = Len(queue)
  BY AppendedIs
<1> HIDE DEF once, d1
<1>3. /\ queue' \in Seq(Byte) /\ d2 \in Nat /\ Len(queue') + d2 = Len(once) + Len(newline)
      /\ Cap > 0 => \/ Len(queue') <= Cap \/ Len(queue') = Len(newline)
                    \/ Len(newline) = 0 /\ Len(queue') = Len(once)
  BY <1>1, <1>2, AppendedIs
<1> HIDE DEF d2
<1>4. Cardinality(C) \in Nat
  <2>1. C \in SUBSET (1 .. 2)
    OBVIOUS
  <2>3. IsFiniteSet(1 .. 2)
    <3>1. 1 \in Int /\ 2 \in Int
      OBVIOUS
    <3> QED BY <3>1, FS_Interval
  <2> HIDE DEF C
  <2>2. IsFiniteSet(C)
    BY <2>1, <2>3, FS_Subset
  <2> QED BY <2>2, FS_CardinalityType
<1> HIDE DEF C
<1>5. droppedBytes' = droppedBytes + d1 + d2
  BY <1>1
<1>6. payload' \in Nat /\ payload' >= payload /\ payload' >= Len(data) /\ payload' >= Len(newline)
  <2>1. Len(data) \in Nat /\ Len(newline) \in Nat
    OBVIOUS
  <2> QED BY <1>1, <2>1, MaxOf3
<1>7. QueueWithinCap'
  <2> SUFFICES ASSUME Cap > 0 PROVE Len(queue') <= Max({Cap, payload'})
    BY DEF QueueWithinCap
  <2>1. Cap \in Nat
    BY ProducersAssumption
  <2>2. Max({Cap, payload'}) \in Nat /\ Max({Cap, payload'}) >= Cap /\ Max({Cap, payload'}) >= payload'
    BY <1>6, <2>1, MaxOf2
  <2>3. Max({Cap, payload}) \in {Cap, payload}
    <3>1. {Cap, payload} \in SUBSET (0 .. Cap + payload) /\ {Cap, payload} # {} /\ Cap + payload \in Nat
      BY <2>1
    <3> QED BY <3>1, MaxNat
  <2>4. Len(queue) <= Max({Cap, payload})
    BY DEF QueueWithinCap
  <2>5. Len(queue) <= Cap \/ Len(queue) <= payload'
    BY <1>6, <2>1, <2>3, <2>4
  <2>6. Len(once) <= Cap \/ Len(once) <= payload'
    BY <1>2, <1>6, <2>5
  <2>7. Len(queue') <= Cap \/ Len(queue') <= payload'
    BY <1>3, <1>6, <2>6
  <2>8. Len(queue') \in Nat
    BY <1>3
  <2> QED BY <1>6, <2>1, <2>2, <2>7, <2>8
<1>8. drops' \in Nat
  BY <1>1, <1>4
<1>9. Len(queue') + droppedBytes' = Len(queue) + droppedBytes + Len(data) + Len(newline)
  <2>1. Len(queue') \in Nat /\ Len(once) \in Nat /\ Len(queue) \in Nat /\ Len(data) \in Nat /\ Len(newline) \in Nat
    BY <1>2, <1>3
  <2>2. PICK a, b, c, k, l \in Nat : a = Len(queue') /\ b = Len(once) /\ c = Len(queue) /\ k = Len(data) /\ l = Len(newline)
    BY <2>1
  <2>3. PICK e, f \in Nat : e = d1 /\ f = d2
    BY <1>2, <1>3
  <2>4. b + e = c + k /\ a + f = b + l /\ droppedBytes' = droppedBytes + e + f /\ droppedBytes \in Nat
    BY <1>2, <1>3, <1>5, <2>2, <2>3
  <2>5. a + droppedBytes' = c + droppedBytes + k + l
    BY <2>4
  <2> QED BY <2>2, <2>5
<1> QED BY <1>2, <1>3, <1>5, <1>6, <1>7, <1>8, <1>9

(* The part of a buffer that ends with its last newline.                   *)
LEMMA CompleteIs ==
    ASSUME NEW bytes \in Seq(Byte)
    PROVE  CompleteLines(bytes) \in 0 .. Len(bytes)
<1> DEFINE T == {i \in 1 .. Len(bytes) : bytes[i].nl}
<1>1. CompleteLines(bytes) = IF T # {} THEN Max(T) ELSE 0
  BY DEF CompleteLines, SelectLastInSeq
<1>2. T \in SUBSET (0 .. Len(bytes)) /\ Len(bytes) \in Nat
  OBVIOUS
<1>3. T # {} => Max(T) \in T
  BY <1>2, MaxNat
<1> QED BY <1>1, <1>2, <1>3

LEMMA FirstNewline ==
    ASSUME NEW bytes \in Seq(Byte)
    PROVE  SelectInSeq(bytes, LAMBDA b : b.nl) \in 0 .. Len(bytes)
<1> DEFINE T == {i \in 1 .. Len(bytes) : bytes[i].nl}
<1>1. SelectInSeq(bytes, LAMBDA b : b.nl) = IF T # {} THEN Min(T) ELSE 0
  BY DEF SelectInSeq
<1>2. T \in SUBSET Nat
  OBVIOUS
<1>3. T # {} => Min(T) \in T
  BY <1>2, MinNat
<1> QED BY <1>1, <1>2, <1>3

(* The positions in a line are bounded.                                    *)
LEMMA PositionsBounded ==
    ASSUME NEW line \in Seq(Byte)
    PROVE  \E n \in Nat : \A i \in 1 .. Len(line) : line[i].at <= n
<1> DEFINE a(i) == line[i].at
           Bounded(k) == \E n \in Nat : \A i \in 1 .. k : a(i) <= n
           Bad == {k \in 0 .. Len(line) : ~ Bounded(k)}
<1>1. \A i \in 1 .. Len(line) : a(i) \in Nat
  <2>1. \A i \in 1 .. Len(line) : line[i] \in Byte
    OBVIOUS
  <2>2. \A b \in Byte : b.at \in Nat
    BY DEF Byte
  <2> QED BY <2>1, <2>2
<1> HIDE DEF a
<1>2. Bounded(0)
  <2>1. \A i \in 1 .. 0 : a(i) <= 0
    OBVIOUS
  <2> QED BY <2>1
<1>3. ASSUME NEW k \in 1 .. Len(line), Bounded(k - 1)
      PROVE  Bounded(k)
  <2>1. PICK n \in Nat : \A i \in 1 .. k - 1 : a(i) <= n
    BY <1>3
  <2>2. a(k) \in Nat
    BY <1>1
  <2>3. ASSUME NEW i \in 1 .. k
        PROVE  a(i) <= n + a(k)
    <3>1. CASE i = k
      BY <2>2, <3>1
    <3>2. CASE i # k
      <4>1. i \in 1 .. k - 1 /\ i \in 1 .. Len(line)
        BY <3>2
      <4> QED BY <1>1, <2>1, <2>2, <4>1
    <3> QED BY <3>1, <3>2
  <2>4. n + a(k) \in Nat
    BY <2>2
  <2> QED BY <2>3, <2>4
<1> HIDE DEF Bounded
<1>4. Bad = {}
  <2> SUFFICES ASSUME Bad # {} PROVE FALSE
    OBVIOUS
  <2>1. Bad \in SUBSET Nat
    OBVIOUS
  <2>2. PICK m \in Bad : \A k \in Bad : m <= k
    <3> HIDE DEF Bad
    <3> QED BY <2>1, LeastNat
  <2>3. m \in 1 .. Len(line)
    BY <1>2, <2>2
  <2>4. m - 1 \notin Bad /\ m - 1 \in 0 .. Len(line)
    BY <2>2, <2>3
  <2>5. Bounded(m)
    BY <1>3, <2>3, <2>4
  <2> QED BY <2>2, <2>5
<1>5. Bounded(Len(line))
  <2>1. Len(line) \in 0 .. Len(line)
    OBVIOUS
  <2> QED BY <1>4, <2>1
<1> QED BY <1>5 DEF Bounded, a

(* processLine counts the bytes of the line.                               *)
LEMMA Processed ==
    ASSUME NEW line \in Seq(Byte), ProcessLine(line),
           parsed \in Nat, last \in [Peers -> Nat], torn \in Nat
    PROVE  /\ parsed' = parsed + Len(line) /\ parsed' \in Nat
           /\ last' \in [Peers -> Nat] /\ torn' \in Nat
<1> DEFINE At(p) == {last[p]} \union {b.at : b \in {c \in Range(line) : c.peer = p}}
<1>1. PICK n \in Nat : \A i \in 1 .. Len(line) : line[i].at <= n
  BY PositionsBounded
<1>2. ASSUME NEW p \in Peers
      PROVE  Max(At(p)) \in Nat
  <2>1. last[p] \in Nat /\ n + last[p] \in Nat
    OBVIOUS
  <2>2. ASSUME NEW b \in Range(line)
        PROVE  b.at \in 0 .. n + last[p]
    <3>1. PICK i \in 1 .. Len(line) : b = line[i]
      BY DEF Range
    <3>2. line[i].at \in Nat
      <4>1. line[i] \in Byte
        BY <3>1
      <4> QED BY <4>1 DEF Byte
    <3> QED BY <1>1, <2>1, <3>1, <3>2
  <2>3. At(p) \in SUBSET (0 .. n + last[p]) /\ At(p) # {}
    BY <2>1, <2>2
  <2> HIDE DEF At
  <2>4. Max(At(p)) \in At(p)
    BY <2>1, <2>3, MaxNat
  <2> QED BY <2>3, <2>4
<1>3. last' = [p \in Peers |-> Max(At(p))]
  BY DEF ProcessLine
<1> HIDE DEF At
<1>4. last' \in [Peers -> Nat]
  BY <1>2, <1>3
<1> QED BY <1>4 DEF ProcessLine

(* What the session carries, the queue and the parser hold adds up.        *)
Balance ==
    /\ taken + added = parsed + Len(carry) + Len(queue) + droppedBytes + CarrySum(sessionCarry)

(* The loop of poll and read is the stdin producer's.                      *)
StdinWorker == worker \in {"head", "poll", "read", "exit"} => kind = "stdin"

QueueInv == LinesTypeOK /\ Balance /\ QueueWithinCap /\ StdinWorker

LEMMA BalanceIs == Balance <=> EveryByteAccounted
BY DEF Balance, EveryByteAccounted, CarrySum

LEMMA QueueInit == LinesInit => QueueInv
<1> SUFFICES ASSUME LinesInit PROVE QueueInv
  OBVIOUS
<1> USE ProducersAssumption DEF LinesInit
<1>1. LinesTypeOK
  <2>1. Cardinality(clients) = 0
    BY FS_EmptySet
  <2>2. maxClients \in Nat /\ Cardinality(clients) <= maxClients
    BY <2>1
  <2>3. wire \in [Peers -> Seq(IF kind = "udp" THEN Seq(Byte) ELSE Byte)]
    OBVIOUS
  <2>4. sent \in [Peers -> 0 .. MaxBytes] /\ last \in [Peers -> Nat]
    OBVIOUS
  <2>5. sessionCarry \in [Peers -> Seq(Byte)] /\ queue \in Seq(Byte) /\ carry \in Seq(Byte)
    OBVIOUS
  <2>6. /\ midLine \in [Peers -> BOOLEAN] /\ link \in [Peers -> {"none", "backlog", "open", "refused", "ended"}]
        /\ stopper \in [Stoppers -> {"idle", "won", "join", "latch", "returned"}]
    OBVIOUS
  <2>7. armed \in BOOLEAN /\ worker \in {"run", "head", "poll", "read", "exit", "done"}
    OBVIOUS
  <2> QED BY <2>2, <2>3, <2>4, <2>5, <2>6, <2>7 DEF LinesTypeOK
<1>2. Balance
  <2>1. CarrySum(sessionCarry) = 0
    BY CarrySumEmpty
  <2> QED BY <2>1 DEF Balance
<1>3. QueueWithinCap
  <2>1. Cap \in Nat /\ payload = 0
    OBVIOUS
  <2>2. Max({Cap, payload}) >= 0
    BY <2>1, MaxOf2
  <2> QED BY <2>2 DEF QueueWithinCap
<1>4. StdinWorker
  BY DEF StdinWorker
<1> QED BY <1>1, <1>2, <1>3, <1>4 DEF QueueInv

(* A step that moves no byte keeps the accounts.                           *)
LEMMA NoByteMoved ==
    ASSUME Balance, QueueWithinCap,
           UNCHANGED <<taken, added, parsed, carry, queue, droppedBytes, sessionCarry, payload>>
    PROVE  Balance' /\ QueueWithinCap'
<1>1. Balance'
  BY DEF Balance
<1>2. QueueWithinCap'
  BY DEF QueueWithinCap
<1> QED BY <1>1, <1>2

(* A client that reaches the backlog has sent nothing.                     *)
LEMMA ConnectKept ==
    ASSUME QueueInv, NEW p \in Peers, Connect(p) PROVE QueueInv'
<1> USE DEF QueueInv
<1>1. UNCHANGED <<kind, maxClients, wire, sent, midLine, hungUp, armed, clients,
                  sessionCarry, closedSockets, worker, queue, droppedBytes, running,
                  accepted, rejected, datagrams, closed, stopRequested, posted, wake,
                  stopFinished, stopper, loopStop, loop, reachedEof, carry, parsed,
                  last, taken, added, drops, payload, torn>>
  BY DEF Connect, configVars, peerVars, sessionVars, byteQueueVars, stopVars, loopVars
<1>2. Balance' /\ QueueWithinCap'
  BY <1>1, NoByteMoved
<1>3. LinesTypeOK'
  <2>1. link' \in [Peers -> {"none", "backlog", "open", "refused", "ended"}]
    BY DEF LinesTypeOK, Connect
  <2> QED BY <1>1, <2>1 DEF LinesTypeOK
<1>4. StdinWorker'
  BY <1>1 DEF StdinWorker
<1> QED BY <1>2, <1>3, <1>4

(* A peer that hangs up leaves what it sent.                               *)
LEMMA HangUpKept ==
    ASSUME QueueInv, NEW p \in Peers, HangUp(p) PROVE QueueInv'
<1> USE DEF QueueInv
<1>1. UNCHANGED <<kind, maxClients, wire, sent, midLine, link, armed, clients,
                  sessionCarry, closedSockets, worker, queue, droppedBytes, running,
                  accepted, rejected, datagrams, closed, stopRequested, posted, wake,
                  stopFinished, stopper, loopStop, loop, reachedEof, carry, parsed,
                  last, taken, added, drops, payload, torn>>
  BY DEF HangUp, configVars, peerVars, sessionVars, byteQueueVars, stopVars, loopVars
<1>2. Balance' /\ QueueWithinCap'
  BY <1>1, NoByteMoved
<1>3. LinesTypeOK'
  <2>1. hungUp' \subseteq Peers
    BY DEF LinesTypeOK, HangUp
  <2> QED BY <1>1, <2>1 DEF LinesTypeOK
<1>4. StdinWorker'
  BY <1>1 DEF StdinWorker
<1> QED BY <1>2, <1>3, <1>4

(* Closing the sockets leaves the carries for Finalize.                    *)
LEMMA OnPostedCloseKept ==
    ASSUME QueueInv, OnPostedClose PROVE QueueInv'
<1> USE DEF QueueInv
<1>1. UNCHANGED <<kind, maxClients, wire, sent, midLine, link, hungUp, clients,
                  sessionCarry, worker, queue, droppedBytes, running, accepted,
                  rejected, datagrams, closed, stopRequested, wake, stopFinished,
                  stopper, loopStop, loop, reachedEof, carry, parsed, last, taken,
                  added, drops, payload, torn>>
  BY DEF OnPostedClose, configVars, peerVars, sessionVars, byteQueueVars, stopVars, loopVars
<1>2. Balance' /\ QueueWithinCap'
  BY <1>1, NoByteMoved
<1>3. LinesTypeOK'
  <2>1. posted' \in BOOLEAN /\ armed' \in BOOLEAN /\ closedSockets' \subseteq Peers
    BY DEF LinesTypeOK, OnPostedClose
  <2> QED BY <1>1, <2>1 DEF LinesTypeOK
<1>4. StdinWorker'
  BY <1>1 DEF StdinWorker
<1> QED BY <1>2, <1>3, <1>4

(* The event loop ends.                                                    *)
LEMMA RunReturnsKept ==
    ASSUME QueueInv, RunReturns PROVE QueueInv'
<1> USE DEF QueueInv
<1>1. UNCHANGED <<kind, maxClients, wire, sent, midLine, link, hungUp, armed, clients,
                  sessionCarry, closedSockets, queue, droppedBytes, running, accepted,
                  rejected, datagrams, closed, stopRequested, posted, wake,
                  stopFinished, stopper, loopStop, loop, reachedEof, carry, parsed,
                  last, taken, added, drops, payload, torn>>
  BY DEF RunReturns, configVars, peerVars, sessionVars, byteQueueVars, stopVars, loopVars
<1>2. Balance' /\ QueueWithinCap'
  BY <1>1, NoByteMoved
<1>3. LinesTypeOK'
  <2>1. worker' \in {"run", "head", "poll", "read", "exit", "done"}
    BY DEF LinesTypeOK, RunReturns
  <2> QED BY <1>1, <2>1 DEF LinesTypeOK
<1>4. StdinWorker'
  BY <1>1 DEF StdinWorker, RunReturns
<1> QED BY <1>2, <1>3, <1>4

(* The worker of stdin looks for a stop.                                   *)
LEMMA StdinHeadKept ==
    ASSUME QueueInv, StdinHead PROVE QueueInv'
<1> USE DEF QueueInv
<1>1. UNCHANGED <<kind, maxClients, wire, sent, midLine, link, hungUp, armed, clients,
                  sessionCarry, closedSockets, queue, droppedBytes, running, accepted,
                  rejected, datagrams, closed, stopRequested, posted, wake,
                  stopFinished, stopper, loopStop, loop, reachedEof, carry, parsed,
                  last, taken, added, drops, payload, torn>>
  BY DEF StdinHead, configVars, peerVars, sessionVars, byteQueueVars, stopVars, loopVars
<1>2. Balance' /\ QueueWithinCap'
  BY <1>1, NoByteMoved
<1>3. LinesTypeOK'
  <2>1. worker' \in {"run", "head", "poll", "read", "exit", "done"}
    BY DEF LinesTypeOK, StdinHead
  <2> QED BY <1>1, <2>1 DEF LinesTypeOK
<1>4. StdinWorker'
  BY <1>1 DEF StdinWorker, StdinHead
<1> QED BY <1>2, <1>3, <1>4

(* The worker of stdin waits for input.                                    *)
LEMMA StdinPollKept ==
    ASSUME QueueInv, StdinPoll PROVE QueueInv'
<1> USE DEF QueueInv
<1>1. UNCHANGED <<kind, maxClients, wire, sent, midLine, link, hungUp, armed, clients,
                  sessionCarry, closedSockets, queue, droppedBytes, running, accepted,
                  rejected, datagrams, closed, stopRequested, posted, wake,
                  stopFinished, stopper, loopStop, loop, reachedEof, carry, parsed,
                  last, taken, added, drops, payload, torn>>
  BY DEF StdinPoll, configVars, peerVars, sessionVars, byteQueueVars, stopVars, loopVars
<1>2. Balance' /\ QueueWithinCap'
  BY <1>1, NoByteMoved
<1>3. LinesTypeOK'
  <2>1. worker' \in {"run", "head", "poll", "read", "exit", "done"}
    BY DEF LinesTypeOK, StdinPoll
  <2> QED BY <1>1, <2>1 DEF LinesTypeOK
<1>4. StdinWorker'
  BY <1>1 DEF StdinWorker, StdinPoll
<1> QED BY <1>2, <1>3, <1>4

(* The worker of stdin closes the producer.                                *)
LEMMA StdinExitKept ==
    ASSUME QueueInv, StdinExit PROVE QueueInv'
<1> USE DEF QueueInv
<1>1. UNCHANGED <<kind, maxClients, wire, sent, midLine, link, hungUp, armed, clients,
                  sessionCarry, closedSockets, queue, droppedBytes, running, accepted,
                  rejected, datagrams, stopRequested, posted, wake, stopFinished,
                  stopper, loopStop, loop, reachedEof, carry, parsed, last, taken,
                  added, drops, payload, torn>>
  BY DEF StdinExit, configVars, peerVars, sessionVars, byteQueueVars, stopVars, loopVars
<1>2. Balance' /\ QueueWithinCap'
  BY <1>1, NoByteMoved
<1>3. LinesTypeOK'
  <2>1. worker' \in {"run", "head", "poll", "read", "exit", "done"} /\ closed' \in BOOLEAN
    BY DEF LinesTypeOK, StdinExit, ClosedAtExit
  <2> QED BY <1>1, <2>1 DEF LinesTypeOK
<1>4. StdinWorker'
  BY <1>1 DEF StdinWorker, StdinExit
<1> QED BY <1>2, <1>3, <1>4

(* A stop is requested.                                                    *)
LEMMA StopBeginKept ==
    ASSUME QueueInv, NEW s \in Stoppers, StopBegin(s) PROVE QueueInv'
<1> USE DEF QueueInv
<1>1. UNCHANGED <<kind, maxClients, wire, sent, midLine, link, hungUp, armed, clients,
                  sessionCarry, closedSockets, worker, queue, droppedBytes, running,
                  accepted, rejected, datagrams, closed, posted, wake, stopFinished,
                  loopStop, loop, reachedEof, carry, parsed, last, taken, added, drops,
                  payload, torn>>
  BY DEF StopBegin, configVars, peerVars, sessionVars, byteQueueVars, stopVars, loopVars
<1>2. Balance' /\ QueueWithinCap'
  BY <1>1, NoByteMoved
<1>3. LinesTypeOK'
  <2>1. stopper' \in [Stoppers -> {"idle", "won", "join", "latch", "returned"}] /\ stopRequested' \in BOOLEAN
    BY DEF LinesTypeOK, StopBegin
  <2> QED BY <1>1, <2>1 DEF LinesTypeOK
<1>4. StdinWorker'
  BY <1>1 DEF StdinWorker
<1> QED BY <1>2, <1>3, <1>4

(* The caller that won wakes the worker or posts the close.                *)
LEMMA StopWonKept ==
    ASSUME QueueInv, NEW s \in Stoppers, StopWon(s) PROVE QueueInv'
<1> USE DEF QueueInv
<1>1. UNCHANGED <<kind, maxClients, wire, sent, midLine, link, hungUp, armed, clients,
                  sessionCarry, closedSockets, worker, queue, droppedBytes, running,
                  accepted, rejected, datagrams, stopRequested, stopFinished, loopStop,
                  loop, reachedEof, carry, parsed, last, taken, added, drops, payload,
                  torn>>
  BY DEF StopWon, configVars, peerVars, sessionVars, byteQueueVars, stopVars, loopVars
<1>2. Balance' /\ QueueWithinCap'
  BY <1>1, NoByteMoved
<1>3. LinesTypeOK'
  <2>1. stopper' \in [Stoppers -> {"idle", "won", "join", "latch", "returned"}] /\ closed' \in BOOLEAN /\ wake' \in BOOLEAN /\ posted' \in BOOLEAN
    BY DEF LinesTypeOK, StopWon, Waked
  <2> QED BY <1>1, <2>1 DEF LinesTypeOK
<1>4. StdinWorker'
  BY <1>1 DEF StdinWorker
<1> QED BY <1>2, <1>3, <1>4

(* The join of the worker is over.                                         *)
LEMMA StopJoinedKept ==
    ASSUME QueueInv, NEW s \in Stoppers, StopJoined(s) PROVE QueueInv'
<1> USE DEF QueueInv
<1>1. UNCHANGED <<kind, maxClients, wire, sent, midLine, link, hungUp, armed, clients,
                  sessionCarry, closedSockets, worker, queue, droppedBytes, running,
                  accepted, rejected, datagrams, closed, stopRequested, posted, wake,
                  loopStop, loop, reachedEof, carry, parsed, last, taken, added, drops,
                  payload, torn>>
  BY DEF StopJoined, configVars, peerVars, sessionVars, byteQueueVars, stopVars, loopVars
<1>2. Balance' /\ QueueWithinCap'
  BY <1>1, NoByteMoved
<1>3. LinesTypeOK'
  <2>1. stopper' \in [Stoppers -> {"idle", "won", "join", "latch", "returned"}] /\ stopFinished' \in BOOLEAN
    BY DEF LinesTypeOK, StopJoined
  <2> QED BY <1>1, <2>1 DEF LinesTypeOK
<1>4. StdinWorker'
  BY <1>1 DEF StdinWorker
<1> QED BY <1>2, <1>3, <1>4

(* A second caller returns.                                                *)
LEMMA StopLatchedKept ==
    ASSUME QueueInv, NEW s \in Stoppers, StopLatched(s) PROVE QueueInv'
<1> USE DEF QueueInv
<1>1. UNCHANGED <<kind, maxClients, wire, sent, midLine, link, hungUp, armed, clients,
                  sessionCarry, closedSockets, worker, queue, droppedBytes, running,
                  accepted, rejected, datagrams, closed, stopRequested, posted, wake,
                  stopFinished, loopStop, loop, reachedEof, carry, parsed, last, taken,
                  added, drops, payload, torn>>
  BY DEF StopLatched, configVars, peerVars, sessionVars, byteQueueVars, stopVars, loopVars
<1>2. Balance' /\ QueueWithinCap'
  BY <1>1, NoByteMoved
<1>3. LinesTypeOK'
  <2>1. stopper' \in [Stoppers -> {"idle", "won", "join", "latch", "returned"}]
    BY DEF LinesTypeOK, StopLatched
  <2> QED BY <1>1, <2>1 DEF LinesTypeOK
<1>4. StdinWorker'
  BY <1>1 DEF StdinWorker
<1> QED BY <1>2, <1>3, <1>4

(* The stop token of the parse loop.                                       *)
LEMMA RequestLoopStopKept ==
    ASSUME QueueInv, RequestLoopStop PROVE QueueInv'
<1> USE DEF QueueInv
<1>1. UNCHANGED <<kind, maxClients, wire, sent, midLine, link, hungUp, armed, clients,
                  sessionCarry, closedSockets, worker, queue, droppedBytes, running,
                  accepted, rejected, datagrams, closed, stopRequested, posted, wake,
                  stopFinished, stopper, loop, reachedEof, carry, parsed, last, taken,
                  added, drops, payload, torn>>
  BY DEF RequestLoopStop, configVars, peerVars, sessionVars, byteQueueVars, stopVars, loopVars
<1>2. Balance' /\ QueueWithinCap'
  BY <1>1, NoByteMoved
<1>3. LinesTypeOK'
  <2>1. loopStop' \in BOOLEAN
    BY DEF LinesTypeOK, RequestLoopStop
  <2> QED BY <1>1, <2>1 DEF LinesTypeOK
<1>4. StdinWorker'
  BY <1>1 DEF StdinWorker
<1> QED BY <1>2, <1>3, <1>4

(* Read returned nothing.                                                  *)
LEMMA LoopCheckKept ==
    ASSUME QueueInv, LoopCheck PROVE QueueInv'
<1> USE DEF QueueInv
<1>1. UNCHANGED <<kind, maxClients, wire, sent, midLine, link, hungUp, armed, clients,
                  sessionCarry, closedSockets, worker, queue, droppedBytes, running,
                  accepted, rejected, datagrams, closed, stopRequested, posted, wake,
                  stopFinished, stopper, loopStop, carry, parsed, last, taken, added,
                  drops, payload, torn>>
  BY DEF LoopCheck, configVars, peerVars, sessionVars, byteQueueVars, stopVars, loopVars
<1>2. Balance' /\ QueueWithinCap'
  BY <1>1, NoByteMoved
<1>3. LinesTypeOK'
  <2>1. loop' \in {"head", "check", "wait", "scan", "end"} /\ reachedEof' \in BOOLEAN
    BY DEF LinesTypeOK, LoopCheck, IsClosed, WorkerExited
  <2> QED BY <1>1, <2>1 DEF LinesTypeOK
<1>4. StdinWorker'
  BY <1>1 DEF StdinWorker
<1> QED BY <1>2, <1>3, <1>4

(* WaitForBytes returns.                                                   *)
LEMMA LoopWaitKept ==
    ASSUME QueueInv, LoopWait PROVE QueueInv'
<1> USE DEF QueueInv
<1>1. UNCHANGED <<kind, maxClients, wire, sent, midLine, link, hungUp, armed, clients,
                  sessionCarry, closedSockets, worker, queue, droppedBytes, running,
                  accepted, rejected, datagrams, closed, stopRequested, posted, wake,
                  stopFinished, stopper, loopStop, reachedEof, carry, parsed, last,
                  taken, added, drops, payload, torn>>
  BY DEF LoopWait, configVars, peerVars, sessionVars, byteQueueVars, stopVars, loopVars
<1>2. Balance' /\ QueueWithinCap'
  BY <1>1, NoByteMoved
<1>3. LinesTypeOK'
  <2>1. loop' \in {"head", "check", "wait", "scan", "end"}
    BY DEF LinesTypeOK, LoopWait
  <2> QED BY <1>1, <2>1 DEF LinesTypeOK
<1>4. StdinWorker'
  BY <1>1 DEF StdinWorker
<1> QED BY <1>2, <1>3, <1>4

(* A peer sends bytes nobody received yet, never more than the bound.      *)
LEMMA SendKept ==
    ASSUME QueueInv, NEW p \in Peers, Send(p) PROVE QueueInv'
<1> USE DEF QueueInv
<1>1. UNCHANGED <<kind, maxClients, link, hungUp, armed, clients, sessionCarry,
                  closedSockets, worker, queue, droppedBytes, running, accepted,
                  rejected, datagrams, closed, stopRequested, posted, wake,
                  stopFinished, stopper, loopStop, loop, reachedEof, carry, parsed,
                  last, taken, added, drops, payload, torn>>
  BY DEF Send, configVars, peerVars, sessionVars, byteQueueVars, stopVars, loopVars
<1>2. Balance' /\ QueueWithinCap'
  BY <1>1, NoByteMoved
<1> DEFINE made(n, nls) == [i \in 1 .. n |-> [peer |-> p, at |-> sent[p] + i,
                               first |-> IF i = 1 THEN kind = "udp" \/ ~midLine[p] ELSE nls[i - 1], nl |-> nls[i]]]
<1>20. PICK n \in 1 .. Least(IF kind = "udp" THEN MaxBytes ELSE 1, MaxBytes - SumSent) : \E nls \in [1 .. n -> BOOLEAN] :
          /\ wire' = [wire EXCEPT ![p] = IF kind = "udp" THEN Append(@, made(n, nls)) ELSE @ \o made(n, nls)]
          /\ sent' = [sent EXCEPT ![p] = @ + n]
          /\ midLine' = [midLine EXCEPT ![p] = ~nls[n]]
  BY DEF Send
<1>21. PICK nls \in [1 .. n -> BOOLEAN] :
          /\ wire' = [wire EXCEPT ![p] = IF kind = "udp" THEN Append(@, made(n, nls)) ELSE @ \o made(n, nls)]
          /\ sent' = [sent EXCEPT ![p] = @ + n]
          /\ midLine' = [midLine EXCEPT ![p] = ~nls[n]]
  BY <1>20
<1>22. PICK bytes : bytes = made(n, nls)
  OBVIOUS
<1>3. /\ bytes = [i \in 1 .. n |-> [peer |-> p, at |-> sent[p] + i,
                     first |-> IF i = 1 THEN kind = "udp" \/ ~midLine[p] ELSE nls[i - 1], nl |-> nls[i]]]
      /\ wire' = [wire EXCEPT ![p] = IF kind = "udp" THEN Append(@, bytes) ELSE @ \o bytes]
      /\ sent' = [sent EXCEPT ![p] = @ + n]
      /\ midLine' = [midLine EXCEPT ![p] = ~nls[n]]
  BY <1>21, <1>22
<1>4. /\ wire \in [Peers -> Seq(IF kind = "udp" THEN Seq(Byte) ELSE Byte)]
      /\ sent \in [Peers -> 0 .. MaxBytes] /\ midLine \in [Peers -> BOOLEAN]
  BY DEF LinesTypeOK
<1>5. SumSent \in Nat /\ sent[p] <= SumSent /\ MaxBytes \in Nat
  <2>1. sent \in [Peers -> Nat] /\ MaxBytes \in Nat
    BY <1>4, ProducersAssumption
  <2> QED BY <2>1, SumSentBound
<1>6. n \in Nat /\ n >= 1 /\ sent[p] \in Nat /\ sent[p] + n \in 0 .. MaxBytes
  BY <1>4, <1>5 DEF Least
<1>7. bytes \in Seq(Byte)
  <2>1. ASSUME NEW i \in 1 .. n
        PROVE  [peer |-> p, at |-> sent[p] + i,
                first |-> IF i = 1 THEN kind = "udp" \/ ~midLine[p] ELSE nls[i - 1], nl |-> nls[i]] \in Byte
    <3>1. i \in Nat /\ sent[p] + i \in Nat /\ nls[i] \in BOOLEAN
      BY <1>6
    <3>2. (IF i = 1 THEN kind = "udp" \/ ~midLine[p] ELSE nls[i - 1]) \in BOOLEAN
      <4>1. CASE i = 1
        BY <1>4, <4>1
      <4>2. CASE i # 1
        <5>1. i - 1 \in 1 .. n
          BY <1>6, <4>2
        <5> QED BY <4>2, <5>1
      <4> QED BY <4>1, <4>2
    <3> QED BY <3>1, <3>2 DEF Byte
  <2>2. bytes \in [1 .. n -> Byte]
    BY <1>3, <2>1
  <2> QED BY <1>6, <2>2
<1>8. wire' \in [Peers -> Seq(IF kind = "udp" THEN Seq(Byte) ELSE Byte)]
  <2>1. CASE kind = "udp"
    <3>1. wire \in [Peers -> Seq(Seq(Byte))] /\ wire' = [wire EXCEPT ![p] = Append(@, bytes)]
      BY <1>3, <1>4, <2>1
    <3>2. wire' \in [Peers -> Seq(Seq(Byte))]
      BY <1>7, <3>1
    <3> QED BY <2>1, <3>2
  <2>2. CASE kind # "udp"
    <3>1. wire \in [Peers -> Seq(Byte)] /\ wire' = [wire EXCEPT ![p] = @ \o bytes]
      BY <1>3, <1>4, <2>2
    <3>2. wire' \in [Peers -> Seq(Byte)]
      BY <1>7, <3>1
    <3> QED BY <2>2, <3>2
  <2> QED BY <2>1, <2>2
<1>9. sent' \in [Peers -> 0 .. MaxBytes]
  BY <1>3, <1>4, <1>6
<1>10. midLine' \in [Peers -> BOOLEAN]
  BY <1>3, <1>4
<1>11. LinesTypeOK'
  BY <1>1, <1>8, <1>9, <1>10 DEF LinesTypeOK
<1>12. StdinWorker'
  BY <1>1 DEF StdinWorker
<1> QED BY <1>2, <1>11, <1>12

(* A buffer is cut in two.                                                 *)
LEMMA Cut ==
    ASSUME NEW q \in Seq(Byte), NEW k \in 0 .. Len(q)
    PROVE  /\ SubSeq(q, 1, k) \in Seq(Byte) /\ Len(SubSeq(q, 1, k)) = k
           /\ SubSeq(q, k + 1, Len(q)) \in Seq(Byte) /\ Len(SubSeq(q, k + 1, Len(q))) = Len(q) - k
OBVIOUS

(* Removing an element of a sequence leaves a sequence.                    *)
LEMMA Removed ==
    ASSUME NEW S, NEW q \in Seq(S), NEW i \in DOMAIN q
    PROVE  RemoveAt(q, i) \in Seq(S)
<1>1. SubSeq(q, 1, i - 1) \in Seq(S) /\ SubSeq(q, i + 1, Len(q)) \in Seq(S)
  OBVIOUS
<1> QED BY <1>1 DEF RemoveAt

(* A datagram that is lost was not received.                               *)
LEMMA LoseLineKept ==
    ASSUME QueueInv, NEW p \in Peers, LoseLine(p) PROVE QueueInv'
<1> USE DEF QueueInv
<1>1. UNCHANGED <<kind, maxClients, sent, midLine, link, hungUp, armed, clients,
                  sessionCarry, closedSockets, worker, queue, droppedBytes, running,
                  accepted, rejected, datagrams, closed, stopRequested, posted, wake,
                  stopFinished, stopper, loopStop, loop, reachedEof, carry, parsed,
                  last, taken, added, drops, payload, torn>>
  BY DEF LoseLine, configVars, peerVars, sessionVars, byteQueueVars, stopVars, loopVars
<1>2. Balance' /\ QueueWithinCap'
  BY <1>1, NoByteMoved
<1>3. wire' \in [Peers -> Seq(IF kind = "udp" THEN Seq(Byte) ELSE Byte)]
  <2>1. wire \in [Peers -> Seq(IF kind = "udp" THEN Seq(Byte) ELSE Byte)]
    BY DEF LinesTypeOK
  <2>2. PICK i \in DOMAIN wire[p] : wire' = [wire EXCEPT ![p] = RemoveAt(@, i)]
    BY DEF LoseLine
  <2>3. RemoveAt(wire[p], i) \in Seq(IF kind = "udp" THEN Seq(Byte) ELSE Byte)
    BY <2>1, Removed
  <2> QED BY <2>1, <2>2, <2>3
<1>4. LinesTypeOK'
  BY <1>1, <1>3 DEF LinesTypeOK
<1>5. StdinWorker'
  BY <1>1 DEF StdinWorker
<1> QED BY <1>2, <1>4, <1>5

(* A client is admitted only below the limit.                              *)
LEMMA OnAcceptKept ==
    ASSUME QueueInv, NEW p \in Peers, OnAccept(p) PROVE QueueInv'
<1> USE DEF QueueInv
<1>1. UNCHANGED <<kind, maxClients, wire, sent, midLine, hungUp, sessionCarry,
                  closedSockets, worker, queue, droppedBytes, running, datagrams,
                  closed, stopRequested, posted, wake, stopFinished, stopper, loopStop,
                  loop, reachedEof, carry, parsed, last, taken, added, drops, payload,
                  torn>>
  BY DEF OnAccept, configVars, peerVars, sessionVars, byteQueueVars, stopVars, loopVars
<1>2. Balance' /\ QueueWithinCap'
  BY <1>1, NoByteMoved
<1>3. /\ link' \in [Peers -> {"none", "backlog", "open", "refused", "ended"}] /\ armed' \in BOOLEAN
      /\ accepted' \in Nat /\ rejected' \in Nat
  <2>1. link' \in [Peers -> {"none", "backlog", "open", "refused", "ended"}]
    BY DEF OnAccept, LinesTypeOK
  <2>2. armed' \in BOOLEAN
    BY DEF OnAccept, LinesTypeOK
  <2>3. accepted \in Nat /\ rejected \in Nat
    BY DEF LinesTypeOK
  <2>4. (accepted' = accepted \/ accepted' = accepted + 1) /\ (rejected' = rejected \/ rejected' = rejected + 1)
    BY DEF OnAccept, sessionVars
  <2> QED BY <2>1, <2>2, <2>3, <2>4
<1>4. clients' \subseteq Peers /\ Cardinality(clients') <= maxClients
  <2>1. clients \subseteq Peers /\ Cardinality(clients) <= maxClients /\ maxClients \in Nat
    BY DEF LinesTypeOK
  <2>2. CASE UNCHANGED clients
    BY <2>1, <2>2
  <2>3. CASE Admits /\ clients' = clients \union {p}
    <3>1. IsFiniteSet(clients)
      BY <2>1, ProducersAssumption, FS_Subset
    <3>2. Cardinality(clients) \in Nat
      BY <3>1, FS_CardinalityType
    <3>3. Cardinality(clients') = Cardinality(clients) \/ Cardinality(clients') = Cardinality(clients) + 1
      BY <2>3, <3>1, FS_AddElement
    <3> QED BY <2>1, <2>3, <3>2, <3>3 DEF Admits
  <2> QED BY <2>2, <2>3 DEF OnAccept, sessionVars
<1>5. LinesTypeOK'
  BY <1>1, <1>3, <1>4 DEF LinesTypeOK
<1>6. StdinWorker'
  BY <1>1 DEF StdinWorker
<1> QED BY <1>2, <1>5, <1>6

(* What the byte queue keeps typed, and its cap.                           *)
QueueTypes == queue \in Seq(Byte) /\ droppedBytes \in Nat /\ drops \in Nat /\ payload \in Nat

(* n bytes were received, l were handed to the queue, and the sessions     *)
(* hold what makes the difference.                                         *)
Handed(n, l) ==
    /\ n \in Nat /\ l \in Nat
    /\ taken' + added' = taken + added + n
    /\ Len(queue') + droppedBytes' = Len(queue) + droppedBytes + l
    /\ CarrySum(sessionCarry)' + l = CarrySum(sessionCarry) + n
    /\ queue' \in Seq(Byte) /\ droppedBytes' \in Nat /\ sessionCarry' \in [Peers -> Seq(Byte)]
    /\ UNCHANGED <<parsed, carry>>

LEMMA HandedBalances ==
    ASSUME LinesTypeOK, Balance, NEW n, NEW l, Handed(n, l) PROVE Balance'
<1>1. /\ Len(queue) \in Nat /\ Len(queue') \in Nat /\ Len(carry) \in Nat
      /\ taken + added \in Nat /\ parsed \in Nat /\ droppedBytes \in Nat
  BY DEF LinesTypeOK, Handed
<1>2. CarrySum(sessionCarry) \in Nat /\ CarrySum(sessionCarry') \in Nat
  BY CarrySumNat DEF LinesTypeOK, Handed
<1>3. CarrySum(sessionCarry)' = CarrySum(sessionCarry')
  OBVIOUS
<1>4. PICK cs, cs2, q, q2, cl, x, y, r \in Nat :
        /\ cs = CarrySum(sessionCarry) /\ cs2 = CarrySum(sessionCarry') /\ q = Len(queue) /\ q2 = Len(queue')
        /\ cl = Len(carry) /\ x = droppedBytes /\ y = droppedBytes' /\ r = taken + added
  BY <1>1, <1>2 DEF Handed
<1>5. n \in Nat /\ l \in Nat /\ q2 + y = q + x + l /\ cs2 + l = cs + n
  BY <1>3, <1>4 DEF Handed
<1>6. r = parsed + cl + q + x + cs
  BY <1>4 DEF Balance
<1>7. r + n = parsed + cl + q2 + y + cs2
  BY <1>1, <1>5, <1>6
<1>8. taken' + added' = r + n /\ parsed' = parsed /\ Len(carry') = cl
  BY <1>4 DEF Handed
<1> QED BY <1>3, <1>4, <1>7, <1>8 DEF Balance

(* Bytes a session reads are kept by it or handed to the queue.            *)
LEMMA OnReadKept ==
    ASSUME QueueInv, NEW p \in Peers, OnRead(p) PROVE QueueInv'
<1> USE DEF QueueInv
<1>1. UNCHANGED <<kind, maxClients, sent, midLine, link, hungUp, armed, clients,
                  closedSockets, worker, accepted, rejected, datagrams, closed,
                  stopRequested, posted, wake, stopFinished, stopper, loopStop, loop,
                  reachedEof, carry, parsed, last, added, torn>>
  BY DEF OnRead, configVars, peerVars, sessionVars, byteQueueVars, stopVars, loopVars
<1>2. PICK n \in 1 .. Least(ReadChunk, Len(wire[p])) : \E bytes, lines :
        /\ bytes = sessionCarry[p] \o SubSeq(wire[p], 1, n)
        /\ lines = SubSeq(bytes, 1, CompleteLines(bytes))
        /\ wire' = [wire EXCEPT ![p] = SubSeq(@, n + 1, Len(@))]
        /\ taken' = taken + n
        /\ sessionCarry' = [sessionCarry EXCEPT ![p] = IF lines = <<>> THEN bytes ELSE Kept(bytes)]
        /\ IF lines = <<>> THEN UNCHANGED <<queue, droppedBytes, running, drops, payload>>
                           ELSE Enqueue(lines, <<>>) /\ MarkRunning
  BY DEF OnRead
<1>20. PICK bytes, lines :
        /\ bytes = sessionCarry[p] \o SubSeq(wire[p], 1, n)
        /\ lines = SubSeq(bytes, 1, CompleteLines(bytes))
        /\ wire' = [wire EXCEPT ![p] = SubSeq(@, n + 1, Len(@))]
        /\ taken' = taken + n
        /\ sessionCarry' = [sessionCarry EXCEPT ![p] = IF lines = <<>> THEN bytes ELSE Kept(bytes)]
        /\ IF lines = <<>> THEN UNCHANGED <<queue, droppedBytes, running, drops, payload>>
                           ELSE Enqueue(lines, <<>>) /\ MarkRunning
  BY <1>2
<1>3. /\ kind = "tcp" /\ wire \in [Peers -> Seq(Byte)] /\ sessionCarry \in [Peers -> Seq(Byte)]
      /\ QueueTypes /\ running \in BOOLEAN
      /\ taken \in Nat /\ added \in Nat /\ parsed \in Nat /\ carry \in Seq(Byte)
  BY DEF OnRead, LinesTypeOK, QueueTypes
<1>4. n \in 1 .. Len(wire[p]) /\ n \in Nat /\ Len(wire[p]) \in Nat
  BY <1>3, ProducersAssumption DEF Least
<1>5. SubSeq(wire[p], 1, n) \in Seq(Byte) /\ Len(SubSeq(wire[p], 1, n)) = n /\ sessionCarry[p] \in Seq(Byte)
      /\ SubSeq(wire[p], n + 1, Len(wire[p])) \in Seq(Byte)
  BY <1>3, <1>4
<1>6. bytes \in Seq(Byte) /\ Len(bytes) = Len(sessionCarry[p]) + n
  BY <1>20, <1>5
<1>7. CompleteLines(bytes) \in 0 .. Len(bytes)
  BY <1>6, CompleteIs
<1>8. lines \in Seq(Byte) /\ Len(lines) = CompleteLines(bytes)
  BY <1>20, <1>6, <1>7, Cut
<1>9. Kept(bytes) \in Seq(Byte) /\ Len(Kept(bytes)) = Len(bytes) - CompleteLines(bytes)
  BY <1>6, <1>7 DEF Kept
<1>10. PICK d \in Seq(Byte) : d = IF lines = <<>> THEN bytes ELSE Kept(bytes)
  BY <1>6, <1>9
<1>11. Len(d) + Len(lines) = Len(bytes)
  BY <1>6, <1>7, <1>8, <1>9, <1>10
<1>12. /\ QueueTypes' /\ QueueWithinCap'
       /\ Len(queue') + droppedBytes' = Len(queue) + droppedBytes + Len(lines)
  <2>1. CASE lines = <<>>
    <3>1. UNCHANGED <<queue, droppedBytes, drops, payload>> /\ Len(lines) = 0
      BY <1>20, <2>1
    <3> QED BY <1>3, <3>1 DEF QueueTypes, QueueWithinCap
  <2>2. CASE lines # <<>>
    <3>1. Enqueue(lines, <<>>) /\ <<>> \in Seq(Byte) /\ Len(<<>>) = 0
      BY <1>20, <2>2
    <3>2. QueueTypes' /\ QueueWithinCap' /\ Len(queue') + droppedBytes' = Len(queue) + droppedBytes + Len(lines) + Len(<<>>)
      BY <1>3, <1>8, <3>1, Enqueued DEF QueueTypes
    <3>3. Len(queue) \in Nat /\ droppedBytes \in Nat /\ Len(lines) \in Nat
      BY <1>3, <1>8 DEF QueueTypes
    <3> QED BY <3>1, <3>2, <3>3
  <2> QED BY <2>1, <2>2
<1>13. running' \in BOOLEAN
  BY <1>20, <1>3 DEF MarkRunning
<1>14. sessionCarry' = [sessionCarry EXCEPT ![p] = d]
  BY <1>20, <1>10
<1>15. CarrySum(sessionCarry)' = CarrySum(sessionCarry) + Len(d) - Len(sessionCarry[p]) /\ CarrySum(sessionCarry) \in Nat
  BY <1>3, <1>14, CarrySumChange, CarrySumNat
<1>16. Balance'
  <2>1. sessionCarry' \in [Peers -> Seq(Byte)]
    BY <1>3, <1>14
  <2>2. taken' + added' = taken + added + n
    BY <1>1, <1>20, <1>3, <1>4
  <2>3. PICK l, dl, sl, bl \in Nat : l = Len(lines) /\ dl = Len(d) /\ sl = Len(sessionCarry[p]) /\ bl = Len(bytes)
    BY <1>5, <1>6, <1>8, <1>10
  <2>4. CarrySum(sessionCarry)' + l = CarrySum(sessionCarry) + n
    <3>1. dl + l = sl + n
      BY <1>6, <1>11, <2>3
    <3>2. CarrySum(sessionCarry)' = CarrySum(sessionCarry) + dl - sl /\ CarrySum(sessionCarry) \in Nat
      BY <1>15, <2>3
    <3>3. PICK cs \in Nat : cs = CarrySum(sessionCarry)
      BY <3>2
    <3>4. cs + dl - sl + l = cs + n
      BY <1>4, <3>1
    <3> QED BY <3>2, <3>3, <3>4
  <2>5. Handed(n, l)
    BY <1>1, <1>4, <1>12, <2>1, <2>2, <2>3, <2>4 DEF Handed, QueueTypes
  <2> QED BY <2>5, HandedBalances
<1>17. LinesTypeOK'
  <2>1. wire' \in [Peers -> Seq(IF kind = "udp" THEN Seq(Byte) ELSE Byte)]
    BY <1>20, <1>3, <1>5
  <2>2. sessionCarry' \in [Peers -> Seq(Byte)]
    BY <1>3, <1>14
  <2>3. taken' \in Nat
    BY <1>20, <1>3, <1>4
  <2>4. queue' \in Seq(Byte) /\ droppedBytes' \in Nat /\ drops' \in Nat /\ payload' \in Nat
    BY <1>12 DEF QueueTypes
  <2> QED BY <1>1, <1>13, <2>1, <2>2, <2>3, <2>4 DEF LinesTypeOK
<1>18. StdinWorker'
  BY <1>1 DEF StdinWorker
<1> QED BY <1>12, <1>16, <1>17, <1>18

(* Finalize hands the partial line of a session to the queue, with a       *)
(* newline of the producer's.                                              *)
LEMMA OnReadErrorKept ==
    ASSUME QueueInv, NEW p \in Peers, OnReadError(p) PROVE QueueInv'
<1> USE DEF QueueInv
<1>1. UNCHANGED <<kind, maxClients, wire, sent, midLine, hungUp, armed, closedSockets,
                  worker, accepted, rejected, datagrams, closed, stopRequested, posted,
                  wake, stopFinished, stopper, loopStop, loop, reachedEof, carry,
                  parsed, last, taken, torn>>
  BY DEF OnReadError, configVars, peerVars, sessionVars, byteQueueVars, stopVars, loopVars
<1>2. PICK lines : lines = Unterminated(p)
  OBVIOUS
<1>3. /\ IF lines = <<>> THEN UNCHANGED <<queue, droppedBytes, running, drops, payload, added>>
                         ELSE Enqueue(lines, <<>>) /\ MarkRunning /\ added' = added + 1
      /\ sessionCarry' = [sessionCarry EXCEPT ![p] = <<>>]
      /\ clients' = clients \ {p}
      /\ link' = [link EXCEPT ![p] = "ended"]
  BY <1>2 DEF OnReadError
<1>4. /\ sessionCarry \in [Peers -> Seq(Byte)] /\ sessionCarry[p] \in Seq(Byte)
      /\ QueueTypes /\ running \in BOOLEAN /\ added \in Nat /\ taken \in Nat
  BY DEF LinesTypeOK, QueueTypes
<1>5. lines \in Seq(Byte) /\ Len(lines) = IF lines = <<>> THEN 0 ELSE Len(sessionCarry[p]) + 1
  <2>1. Synthetic \in Byte
    BY DEF Synthetic, Byte
  <2>2. CASE sessionCarry[p] = <<>>
    BY <1>2, <2>2 DEF Unterminated
  <2>3. CASE sessionCarry[p] # <<>>
    <3>1. lines = Append(sessionCarry[p], Synthetic)
      BY <1>2, <2>3 DEF Unterminated
    <3>2. lines \in Seq(Byte) /\ Len(lines) = Len(sessionCarry[p]) + 1
      BY <1>4, <2>1, <3>1
    <3> QED BY <1>4, <3>2
  <2> QED BY <2>2, <2>3
<1>6. lines = <<>> <=> sessionCarry[p] = <<>>
  BY <1>2, <1>4 DEF Unterminated
<1>7. /\ QueueTypes' /\ QueueWithinCap'
      /\ Len(queue') + droppedBytes' = Len(queue) + droppedBytes + Len(lines)
  <2>1. CASE lines = <<>>
    <3>1. UNCHANGED <<queue, droppedBytes, drops, payload>> /\ Len(lines) = 0
      BY <1>3, <2>1
    <3> QED BY <1>4, <3>1 DEF QueueTypes, QueueWithinCap
  <2>2. CASE lines # <<>>
    <3>1. Enqueue(lines, <<>>) /\ <<>> \in Seq(Byte) /\ Len(<<>>) = 0
      BY <1>3, <2>2
    <3>2. QueueTypes' /\ QueueWithinCap' /\ Len(queue') + droppedBytes' = Len(queue) + droppedBytes + Len(lines) + Len(<<>>)
      BY <1>4, <1>5, <3>1, Enqueued DEF QueueTypes
    <3>3. Len(queue) \in Nat /\ droppedBytes \in Nat /\ Len(lines) \in Nat
      BY <1>4, <1>5 DEF QueueTypes
    <3> QED BY <3>1, <3>2, <3>3
  <2> QED BY <2>1, <2>2
<1>8. running' \in BOOLEAN
  BY <1>3, <1>4 DEF MarkRunning
<1>9. <<>> \in Seq(Byte) /\ Len(<<>>) = 0
  OBVIOUS
<1>10. CarrySum(sessionCarry)' = CarrySum(sessionCarry) + Len(<<>>) - Len(sessionCarry[p]) /\ CarrySum(sessionCarry) \in Nat
  BY <1>3, <1>4, <1>9, CarrySumChange, CarrySumNat
<1>11. sessionCarry' \in [Peers -> Seq(Byte)]
  BY <1>3, <1>4, <1>9
<1>12. Balance'
  <2>1. PICK l, sl \in Nat : l = Len(lines) /\ sl = Len(sessionCarry[p])
    BY <1>4, <1>5
  <2>2. CASE lines = <<>>
    <3>1. taken' + added' = taken + added + 0 /\ sl = 0 /\ l = 0
      BY <1>1, <1>3, <1>4, <1>6, <2>1, <2>2
    <3>2. CarrySum(sessionCarry)' + l = CarrySum(sessionCarry) + 0
      BY <1>9, <1>10, <2>1, <3>1
    <3>3. Handed(0, l)
      BY <1>1, <1>7, <1>11, <2>1, <3>1, <3>2 DEF Handed, QueueTypes
    <3> QED BY <3>3, HandedBalances
  <2>3. CASE lines # <<>>
    <3>1. taken' + added' = taken + added + 1 /\ l = sl + 1
      BY <1>1, <1>3, <1>4, <1>5, <2>1, <2>3
    <3>2. CarrySum(sessionCarry)' + l = CarrySum(sessionCarry) + 1
      BY <1>9, <1>10, <2>1, <3>1
    <3>3. Handed(1, l)
      BY <1>1, <1>7, <1>11, <2>1, <3>1, <3>2 DEF Handed, QueueTypes
    <3> QED BY <3>3, HandedBalances
  <2> QED BY <2>2, <2>3
<1>13. clients' \subseteq Peers /\ Cardinality(clients') <= maxClients
  <2>1. clients \subseteq Peers /\ Cardinality(clients) <= maxClients /\ maxClients \in Nat
    BY DEF LinesTypeOK
  <2>2. IsFiniteSet(clients)
    BY <2>1, ProducersAssumption, FS_Subset
  <2>3. Cardinality(clients) \in Nat
    BY <2>2, FS_CardinalityType
  <2>4. Cardinality(clients') = Cardinality(clients) \/ Cardinality(clients') = Cardinality(clients) - 1
    BY <1>3, <2>2, FS_RemoveElement
  <2> QED BY <1>3, <2>1, <2>3, <2>4
<1>14. LinesTypeOK'
  <2>1. link' \in [Peers -> {"none", "backlog", "open", "refused", "ended"}]
    BY <1>3 DEF LinesTypeOK
  <2>2. added' \in Nat
    BY <1>3, <1>4
  <2>3. queue' \in Seq(Byte) /\ droppedBytes' \in Nat /\ drops' \in Nat /\ payload' \in Nat
    BY <1>7 DEF QueueTypes
  <2> QED BY <1>1, <1>8, <1>11, <1>13, <2>1, <2>2, <2>3 DEF LinesTypeOK
<1>15. StdinWorker'
  BY <1>1 DEF StdinWorker
<1> QED BY <1>7, <1>12, <1>14, <1>15

(* A datagram goes to the queue whole, with the newline it lacked.         *)
LEMMA OnReceiveKept ==
    ASSUME QueueInv, NEW p \in Peers, OnReceive(p) PROVE QueueInv'
<1> USE DEF QueueInv
<1>1. UNCHANGED <<kind, maxClients, sent, midLine, link, hungUp, clients, sessionCarry,
                  closedSockets, worker, accepted, rejected, closed, stopRequested,
                  posted, wake, stopFinished, stopper, loopStop, loop, reachedEof,
                  carry, parsed, last, torn>>
  BY DEF OnReceive, configVars, peerVars, sessionVars, byteQueueVars, stopVars, loopVars
<1>2. PICK i \in DOMAIN wire[p] : \E data, newline :
        /\ data = wire[p][i] /\ newline = IF Last(data).nl THEN <<>> ELSE <<Synthetic>>
        /\ wire' = [wire EXCEPT ![p] = RemoveAt(@, i)]
        /\ \/ /\ armed' = FALSE
              /\ UNCHANGED <<byteQueueVars, datagrams>>
           \/ /\ Enqueue(data, newline)
              /\ MarkRunning
              /\ taken' = taken + Len(data)
              /\ added' = added + Len(newline)
              /\ datagrams' = datagrams + 1
              /\ UNCHANGED armed
  BY DEF OnReceive
<1>3. PICK data, newline :
        /\ data = wire[p][i] /\ newline = IF Last(data).nl THEN <<>> ELSE <<Synthetic>>
        /\ wire' = [wire EXCEPT ![p] = RemoveAt(@, i)]
        /\ \/ /\ armed' = FALSE
              /\ UNCHANGED <<byteQueueVars, datagrams>>
           \/ /\ Enqueue(data, newline)
              /\ MarkRunning
              /\ taken' = taken + Len(data)
              /\ added' = added + Len(newline)
              /\ datagrams' = datagrams + 1
              /\ UNCHANGED armed
  BY <1>2
<1>4. /\ kind = "udp" /\ wire \in [Peers -> Seq(Seq(Byte))]
      /\ QueueTypes /\ running \in BOOLEAN /\ added \in Nat /\ taken \in Nat
      /\ datagrams \in Nat /\ armed \in BOOLEAN /\ sessionCarry \in [Peers -> Seq(Byte)]
  BY DEF OnReceive, LinesTypeOK, QueueTypes
<1>5. data \in Seq(Byte) /\ newline \in Seq(Byte)
  <2>1. Synthetic \in Byte
    BY DEF Synthetic, Byte
  <2>2. data \in Seq(Byte)
    BY <1>3, <1>4
  <2>3. newline = <<>> \/ newline = <<Synthetic>>
    BY <1>3
  <2>4. <<>> \in Seq(Byte) /\ <<Synthetic>> \in Seq(Byte)
    BY <2>1
  <2> QED BY <2>2, <2>3, <2>4
<1>6. wire' \in [Peers -> Seq(IF kind = "udp" THEN Seq(Byte) ELSE Byte)]
  <2>1. RemoveAt(wire[p], i) \in Seq(Seq(Byte))
    BY <1>4, Removed
  <2>2. wire' \in [Peers -> Seq(Seq(Byte))]
    BY <1>3, <1>4, <2>1
  <2> QED BY <1>1, <1>4, <2>2
<1>7. CASE UNCHANGED <<byteQueueVars, datagrams>>
  <2>1. UNCHANGED <<queue, droppedBytes, running, taken, added, drops, payload, datagrams>>
    BY <1>7 DEF byteQueueVars
  <2>2. Balance' /\ QueueWithinCap'
    BY <1>1, <2>1, NoByteMoved
  <2>3. armed' \in BOOLEAN
    BY <1>3, <1>4
  <2>4. LinesTypeOK'
    BY <1>1, <1>6, <2>1, <2>3 DEF LinesTypeOK
  <2>5. StdinWorker'
    BY <1>1 DEF StdinWorker
  <2> QED BY <2>2, <2>4, <2>5
<1>8. CASE /\ Enqueue(data, newline)
           /\ MarkRunning
           /\ taken' = taken + Len(data)
           /\ added' = added + Len(newline)
           /\ datagrams' = datagrams + 1
           /\ UNCHANGED armed
  <2>1. /\ QueueTypes' /\ QueueWithinCap'
        /\ Len(queue') + droppedBytes' = Len(queue) + droppedBytes + Len(data) + Len(newline)
    BY <1>4, <1>5, <1>8, Enqueued DEF QueueTypes
  <2>2. PICK dl, nl \in Nat : dl = Len(data) /\ nl = Len(newline)
    BY <1>5
  <2>3. Balance'
    <3>1. taken' + added' = taken + added + (dl + nl)
      BY <1>4, <1>8, <2>2
    <3>2. CarrySum(sessionCarry)' + (dl + nl) = CarrySum(sessionCarry) + (dl + nl)
      BY <1>1
    <3>3. Len(queue') + droppedBytes' = Len(queue) + droppedBytes + (dl + nl)
      <4>1. Len(queue) \in Nat /\ droppedBytes \in Nat
        BY <1>4 DEF QueueTypes
      <4> QED BY <2>1, <2>2, <4>1
    <3>4. dl + nl \in Nat
      BY <2>2
    <3>5. Handed(dl + nl, dl + nl)
      BY <1>1, <1>4, <2>1, <3>1, <3>2, <3>3, <3>4 DEF Handed, QueueTypes
    <3> QED BY <3>5, HandedBalances
  <2>4. LinesTypeOK'
    <3>1. taken' \in Nat /\ added' \in Nat /\ datagrams' \in Nat /\ armed' \in BOOLEAN
      BY <1>4, <1>8, <2>2
    <3>2. queue' \in Seq(Byte) /\ droppedBytes' \in Nat /\ drops' \in Nat /\ payload' \in Nat
      BY <2>1 DEF QueueTypes
    <3>3. running' \in BOOLEAN
      BY <1>4, <1>8 DEF MarkRunning
    <3> QED BY <1>1, <1>6, <3>1, <3>2, <3>3 DEF LinesTypeOK
  <2>5. StdinWorker'
    BY <1>1 DEF StdinWorker
  <2> QED BY <2>1, <2>3, <2>4, <2>5
<1> QED BY <1>3, <1>7, <1>8

(* What the worker of stdin reads goes to the queue.                       *)
LEMMA StdinReadKept ==
    ASSUME QueueInv, StdinRead PROVE QueueInv'
<1> USE DEF QueueInv
<1>1. UNCHANGED <<kind, maxClients, sent, midLine, link, hungUp, armed, clients,
                  sessionCarry, closedSockets, running, accepted, rejected, datagrams,
                  closed, stopRequested, posted, wake, stopFinished, stopper, loopStop,
                  loop, reachedEof, carry, parsed, last, added, torn>>
  BY DEF StdinRead, configVars, peerVars, sessionVars, byteQueueVars, stopVars, loopVars
<1>2. worker = "read" /\ kind = "stdin" /\ 1 \in Peers
  BY ProducersAssumption DEF StdinRead, StdinWorker
<1>3. /\ wire \in [Peers -> Seq(Byte)] /\ wire[1] \in Seq(Byte) /\ sessionCarry \in [Peers -> Seq(Byte)]
      /\ QueueTypes /\ added \in Nat /\ taken \in Nat
  BY <1>2 DEF LinesTypeOK, QueueTypes
<1>4. worker' \in {"run", "head", "poll", "read", "exit", "done"} /\ StdinWorker'
  BY <1>1, <1>2 DEF StdinRead, StdinWorker
<1>5. CASE UNCHANGED <<queue, droppedBytes, drops, payload, taken, wire>>
  <2>1. Balance' /\ QueueWithinCap'
    BY <1>1, <1>5, NoByteMoved
  <2>2. LinesTypeOK'
    BY <1>1, <1>4, <1>5 DEF LinesTypeOK
  <2> QED BY <1>4, <2>1, <2>2
<1>6. CASE \E n \in 1 .. Least(ReadChunk, Len(wire[1])) :
             /\ Enqueue(SubSeq(wire[1], 1, n), <<>>)
             /\ taken' = taken + n
             /\ wire' = [wire EXCEPT ![1] = SubSeq(@, n + 1, Len(@))]
  <2>1. PICK n \in 1 .. Least(ReadChunk, Len(wire[1])) :
             /\ Enqueue(SubSeq(wire[1], 1, n), <<>>)
             /\ taken' = taken + n
             /\ wire' = [wire EXCEPT ![1] = SubSeq(@, n + 1, Len(@))]
    BY <1>6
  <2>2. n \in 0 .. Len(wire[1]) /\ n \in Nat
    BY <1>3, ProducersAssumption DEF Least
  <2>3. /\ SubSeq(wire[1], 1, n) \in Seq(Byte) /\ Len(SubSeq(wire[1], 1, n)) = n
        /\ SubSeq(wire[1], n + 1, Len(wire[1])) \in Seq(Byte)
    BY <1>3, <2>2, Cut
  <2>4. PICK data \in Seq(Byte) : data = SubSeq(wire[1], 1, n) /\ Len(data) = n
    BY <2>3
  <2>5. Enqueue(data, <<>>) /\ <<>> \in Seq(Byte) /\ Len(<<>>) = 0
    BY <2>1, <2>4
  <2>6. /\ QueueTypes' /\ QueueWithinCap'
        /\ Len(queue') + droppedBytes' = Len(queue) + droppedBytes + Len(data) + Len(<<>>)
    BY <1>3, <2>5, Enqueued DEF QueueTypes
  <2>7. Balance'
    <3>1. taken' + added' = taken + added + n
      BY <1>1, <1>3, <2>1, <2>2
    <3>2. Len(queue') + droppedBytes' = Len(queue) + droppedBytes + n
      <4>1. Len(queue) \in Nat /\ droppedBytes \in Nat
        BY <1>3 DEF QueueTypes
      <4> QED BY <2>2, <2>4, <2>5, <2>6, <4>1
    <3>3. CarrySum(sessionCarry)' + n = CarrySum(sessionCarry) + n
      BY <1>1
    <3>4. Handed(n, n)
      BY <1>1, <1>3, <2>2, <2>6, <3>1, <3>2, <3>3 DEF Handed, QueueTypes
    <3> QED BY <3>4, HandedBalances
  <2>8. LinesTypeOK'
    <3>1. taken' \in Nat
      BY <1>3, <2>1, <2>2
    <3>2. queue' \in Seq(Byte) /\ droppedBytes' \in Nat /\ drops' \in Nat /\ payload' \in Nat
      BY <2>6 DEF QueueTypes
    <3>3. wire' \in [Peers -> Seq(Byte)]
      BY <1>3, <2>1, <2>3
    <3>4. wire' \in [Peers -> Seq(IF kind = "udp" THEN Seq(Byte) ELSE Byte)]
      BY <1>2, <3>3
    <3> QED BY <1>1, <1>4, <3>1, <3>2, <3>4 DEF LinesTypeOK
  <2> QED BY <1>4, <2>6, <2>7, <2>8
<1> QED BY <1>5, <1>6 DEF StdinRead

(* Read moves the head of the queue to the buffer of the parse loop.       *)
LEMMA LoopReadKept ==
    ASSUME QueueInv, LoopRead PROVE QueueInv'
<1> USE DEF QueueInv
<1>1. UNCHANGED <<kind, maxClients, wire, sent, midLine, link, hungUp, armed, clients,
                  sessionCarry, closedSockets, worker, droppedBytes, running, accepted,
                  rejected, datagrams, closed, stopRequested, posted, wake,
                  stopFinished, stopper, loopStop, reachedEof, parsed, last, taken,
                  added, drops, payload, torn>>
  BY DEF LoopRead, configVars, peerVars, sessionVars, byteQueueVars, stopVars, loopVars
<1>2. /\ queue \in Seq(Byte) /\ carry \in Seq(Byte) /\ Len(queue) \in Nat /\ Len(carry) \in Nat
      /\ parsed \in Nat /\ droppedBytes \in Nat /\ sessionCarry \in [Peers -> Seq(Byte)] /\ payload \in Nat
  BY DEF LinesTypeOK
<1>3. loop' \in {"head", "check", "wait", "scan", "end"}
  BY DEF LoopRead
<1>4. StdinWorker'
  BY <1>1 DEF StdinWorker
<1>5. CASE UNCHANGED <<carry, queue>>
  <2>1. Balance' /\ QueueWithinCap'
    BY <1>1, <1>5, NoByteMoved
  <2>2. LinesTypeOK'
    BY <1>1, <1>3, <1>5 DEF LinesTypeOK
  <2> QED BY <1>4, <2>1, <2>2
<1>6. CASE \E n : /\ n = Least(ReadBuffer, Len(queue))
                  /\ carry' = carry \o SubSeq(queue, 1, n)
                  /\ queue' = SubSeq(queue, n + 1, Len(queue))
  <2>1. PICK n : /\ n = Least(ReadBuffer, Len(queue))
                 /\ carry' = carry \o SubSeq(queue, 1, n)
                 /\ queue' = SubSeq(queue, n + 1, Len(queue))
    BY <1>6
  <2>2. n \in 0 .. Len(queue) /\ n \in Nat
    BY <1>2, <2>1, ProducersAssumption DEF Least
  <2>3. /\ SubSeq(queue, 1, n) \in Seq(Byte) /\ Len(SubSeq(queue, 1, n)) = n
        /\ queue' \in Seq(Byte) /\ Len(queue') = Len(queue) - n
    BY <1>2, <2>1, <2>2, Cut
  <2>4. carry' \in Seq(Byte) /\ Len(carry') = Len(carry) + n
    BY <1>2, <2>1, <2>3
  <2>5. Balance'
    <3>1. CarrySum(sessionCarry) \in Nat /\ CarrySum(sessionCarry)' = CarrySum(sessionCarry)
      BY <1>1, <1>2, CarrySumNat
    <3>2. PICK cs, q, q2, cl, cl2 \in Nat :
             cs = CarrySum(sessionCarry) /\ q = Len(queue) /\ q2 = Len(queue') /\ cl = Len(carry) /\ cl2 = Len(carry')
      BY <1>2, <2>3, <2>4, <3>1
    <3>3. q2 = q - n /\ cl2 = cl + n
      BY <2>3, <2>4, <3>2
    <3>4. taken + added = parsed + cl + q + droppedBytes + cs
      BY <3>2 DEF Balance
    <3>5. taken + added = parsed + cl2 + q2 + droppedBytes + cs
      BY <1>2, <2>2, <3>3, <3>4
    <3> QED BY <1>1, <3>1, <3>2, <3>5 DEF Balance
  <2>6. QueueWithinCap'
    <3> SUFFICES ASSUME Cap > 0 PROVE Len(queue') <= Max({Cap, payload'})
      BY DEF QueueWithinCap
    <3>1. Cap \in Nat /\ payload' = payload
      BY <1>1, ProducersAssumption
    <3>2. Len(queue) <= Max({Cap, payload})
      BY DEF QueueWithinCap
    <3>3. Max({Cap, payload}) \in Nat
      BY <1>2, <3>1, MaxOf2
    <3>4. Len(queue') <= Len(queue) /\ Len(queue') \in Nat
      BY <1>2, <2>2, <2>3
    <3> QED BY <1>2, <3>1, <3>2, <3>3, <3>4
  <2>7. LinesTypeOK'
    BY <1>1, <1>3, <2>3, <2>4 DEF LinesTypeOK
  <2> QED BY <1>4, <2>5, <2>6, <2>7
<1> QED BY <1>5, <1>6 DEF LoopRead

(* A line that is processed leaves the buffer of the parse loop.           *)
LEMMA LoopScanKept ==
    ASSUME QueueInv, LoopScan PROVE QueueInv'
<1> USE DEF QueueInv
<1>1. UNCHANGED <<kind, maxClients, wire, sent, midLine, link, hungUp, armed, clients,
                  sessionCarry, closedSockets, worker, queue, droppedBytes, running,
                  accepted, rejected, datagrams, closed, stopRequested, posted, wake,
                  stopFinished, stopper, loopStop, reachedEof, taken, added, drops,
                  payload>>
  BY DEF LoopScan, configVars, peerVars, sessionVars, byteQueueVars, stopVars, loopVars
<1>2. /\ carry \in Seq(Byte) /\ Len(carry) \in Nat /\ Len(queue) \in Nat /\ droppedBytes \in Nat
      /\ parsed \in Nat /\ last \in [Peers -> Nat] /\ torn \in Nat /\ sessionCarry \in [Peers -> Seq(Byte)]
  BY DEF LinesTypeOK
<1>3. loop' \in {"head", "check", "wait", "scan", "end"}
  BY DEF LoopScan
<1>4. StdinWorker'
  BY <1>1 DEF StdinWorker
<1>5. CASE UNCHANGED <<carry, parsed, last, torn>>
  <2>1. Balance' /\ QueueWithinCap'
    BY <1>1, <1>5, NoByteMoved
  <2>2. LinesTypeOK'
    BY <1>1, <1>3, <1>5 DEF LinesTypeOK
  <2> QED BY <1>4, <2>1, <2>2
<1>6. CASE \E k \in 0 .. Len(carry) : ProcessLine(SubSeq(carry, 1, k)) /\ carry' = SubSeq(carry, k + 1, Len(carry))
  <2>1. PICK k \in 0 .. Len(carry) : ProcessLine(SubSeq(carry, 1, k)) /\ carry' = SubSeq(carry, k + 1, Len(carry))
    BY <1>6
  <2>2. /\ SubSeq(carry, 1, k) \in Seq(Byte) /\ Len(SubSeq(carry, 1, k)) = k
        /\ carry' \in Seq(Byte) /\ Len(carry') = Len(carry) - k
    BY <1>2, <2>1, Cut
  <2>3. parsed' = parsed + k /\ parsed' \in Nat /\ last' \in [Peers -> Nat] /\ torn' \in Nat
    BY <1>2, <2>1, <2>2, Processed
  <2>4. Balance'
    <3>1. CarrySum(sessionCarry) \in Nat /\ CarrySum(sessionCarry)' = CarrySum(sessionCarry)
      BY <1>1, <1>2, CarrySumNat
    <3>2. PICK cs, q, cl, cl2 \in Nat :
             cs = CarrySum(sessionCarry) /\ q = Len(queue) /\ cl = Len(carry) /\ cl2 = Len(carry')
      BY <1>2, <2>2, <3>1
    <3>3. cl2 = cl - k /\ k \in Nat
      BY <1>2, <2>2, <3>2
    <3>4. taken + added = parsed + cl + q + droppedBytes + cs
      BY <3>2 DEF Balance
    <3>5. taken + added = (parsed + k) + cl2 + q + droppedBytes + cs
      BY <1>2, <3>3, <3>4
    <3> QED BY <1>1, <2>3, <3>1, <3>2, <3>5 DEF Balance
  <2>5. QueueWithinCap'
    BY <1>1 DEF QueueWithinCap
  <2>6. LinesTypeOK'
    BY <1>1, <1>3, <2>2, <2>3 DEF LinesTypeOK
  <2> QED BY <1>4, <2>4, <2>5, <2>6
<1>7. ASSUME ProcessLine(carry), carry' = <<>>
      PROVE  \E k \in 0 .. Len(carry) : ProcessLine(SubSeq(carry, 1, k)) /\ carry' = SubSeq(carry, k + 1, Len(carry))
  <2>1. SubSeq(carry, 1, Len(carry)) = carry /\ SubSeq(carry, Len(carry) + 1, Len(carry)) = <<>> /\ Len(carry) \in 0 .. Len(carry)
    BY <1>2
  <2> QED BY <1>7, <2>1
<1>8. PICK end \in 0 .. Len(carry) : end = SelectInSeq(carry, LAMBDA b : b.nl)
  BY <1>2, FirstNewline
<1> QED BY <1>5, <1>6, <1>7, <1>8 DEF LoopScan

(* One case per action of the peers, the producers, Stop and the parse     *)
(* loop.                                                                   *)
LEMMA QueueStep == QueueInv /\ [LinesNext]_linesVars => QueueInv'
<1> SUFFICES ASSUME QueueInv, [LinesNext]_linesVars PROVE QueueInv'
  OBVIOUS
<1>1. ASSUME NEW p \in Peers, Send(p) \/ Connect(p) \/ HangUp(p) \/ LoseLine(p) PROVE QueueInv'
  BY <1>1, SendKept, ConnectKept, HangUpKept, LoseLineKept
<1>2. ASSUME NEW p \in Peers, OnAccept(p) \/ OnRead(p) \/ OnReadError(p) \/ OnReceive(p) PROVE QueueInv'
  BY <1>2, OnAcceptKept, OnReadKept, OnReadErrorKept, OnReceiveKept
<1>3. CASE OnPostedClose \/ RunReturns
  BY <1>3, OnPostedCloseKept, RunReturnsKept
<1>4. CASE StdinHead \/ StdinPoll \/ StdinRead \/ StdinExit
  BY <1>4, StdinHeadKept, StdinPollKept, StdinReadKept, StdinExitKept
<1>5. ASSUME NEW s \in Stoppers, StopBegin(s) \/ StopWon(s) \/ StopJoined(s) \/ StopLatched(s) PROVE QueueInv'
  BY <1>5, StopBeginKept, StopWonKept, StopJoinedKept, StopLatchedKept
<1>6. CASE RequestLoopStop
  BY <1>6, RequestLoopStopKept
<1>7. CASE LoopRead \/ LoopCheck \/ LoopWait \/ LoopScan
  BY <1>7, LoopReadKept, LoopCheckKept, LoopWaitKept, LoopScanKept
<1>8. CASE UNCHANGED linesVars
  <2>1. UNCHANGED <<kind, maxClients, wire, sent, midLine, link, hungUp, armed, clients,
                    sessionCarry, closedSockets, worker, queue, droppedBytes, running,
                    accepted, rejected, datagrams, closed, stopRequested, posted, wake,
                    stopFinished, stopper, loopStop, loop, reachedEof, carry, parsed,
                    last, taken, added, drops, payload, torn>>
    BY <1>8 DEF linesVars, configVars, peerVars, sessionVars, byteQueueVars, stopVars, loopVars
  <2>2. Balance' /\ QueueWithinCap'
    BY <2>1, NoByteMoved DEF QueueInv
  <2>3. LinesTypeOK' /\ StdinWorker'
    BY <2>1 DEF QueueInv, LinesTypeOK, StdinWorker
  <2> QED BY <2>2, <2>3 DEF QueueInv
<1>9. ASSUME LinesNext PROVE QueueInv'
  <2>1. Callers \subseteq Stoppers
    BY ProducersAssumption DEF Callers
  <2> QED BY <1>1, <1>2, <1>3, <1>4, <1>5, <1>6, <1>7, <1>9, <2>1
          DEF LinesNext, PeerStep, ProducerWorker, StopReturns, Loop
<1> QED BY <1>8, <1>9

(* LineBytesQueue's accounts are exact at every interleaving of Append,    *)
(* Read and the drops in between, and its cap holds, for any number of     *)
(* peers, any cap and any chunk sizes.                                     *)
THEOREM AccountsAreExact == LinesSpec => []QueueAccountsExact
<1>1. LinesInit => QueueInv
  BY QueueInit
<1>2. QueueInv /\ [LinesNext]_linesVars => QueueInv'
  BY QueueStep
<1>3. QueueInv => QueueAccountsExact
  BY BalanceIs DEF QueueInv, QueueAccountsExact
<1> QED BY <1>1, <1>2, <1>3, PTL DEF LinesSpec

-----------------------------------------------------------------------------
(* Lines stay whole: buffers joined and cut.                               *)

(* A buffer, opaque to the provers where its elements do not matter.      *)
Buffer == Seq(Byte)

LEMMA Joined ==
    ASSUME NEW s \in Buffer, NEW t \in Buffer
    PROVE  /\ s \o t \in Buffer /\ Len(s \o t) = Len(s) + Len(t)
           /\ Len(s) \in Nat /\ Len(t) \in Nat
           /\ \A i \in 1 .. Len(s) : (s \o t)[i] = s[i]
           /\ \A i \in 1 .. Len(t) : (s \o t)[Len(s) + i] = t[i]
           /\ \A i \in 1 .. Len(s) + Len(t) : i \in 1 .. Len(s) \/ \E k \in 1 .. Len(t) : i = Len(s) + k
<1>1. /\ s \o t \in Buffer /\ Len(s \o t) = Len(s) + Len(t)
      /\ \A i \in 1 .. Len(s) + Len(t) : (s \o t)[i] = IF i <= Len(s) THEN s[i] ELSE t[i - Len(s)]
  BY ConcatProperties DEF Buffer
<1>2. Len(s) \in Nat /\ Len(t) \in Nat
  BY DEF Buffer
<1>3. PICK m, n \in Nat : m = Len(s) /\ n = Len(t)
  BY <1>2
<1>4. \A i \in 1 .. m : (s \o t)[i] = s[i]
  BY <1>1, <1>3
<1>5. ASSUME NEW i \in 1 .. n PROVE (s \o t)[m + i] = t[i]
  <2>1. m + i \in 1 .. m + n /\ ~(m + i <= m) /\ m + i - m = i
    OBVIOUS
  <2> QED BY <1>1, <1>3, <2>1
<1>6. ASSUME NEW i \in 1 .. m + n PROVE i \in 1 .. m \/ \E k \in 1 .. n : i = m + k
  <2>1. i \notin 1 .. m => i - m \in 1 .. n /\ i = m + (i - m)
    OBVIOUS
  <2> QED BY <2>1
<1> QED BY <1>1, <1>2, <1>3, <1>4, <1>5, <1>6

LEMMA Parted ==
    ASSUME NEW s \in Buffer, NEW k \in 0 .. Len(s)
    PROVE  /\ SubSeq(s, 1, k) \in Buffer /\ SubSeq(s, k + 1, Len(s)) \in Buffer
           /\ Len(SubSeq(s, 1, k)) = k
           /\ s = SubSeq(s, 1, k) \o SubSeq(s, k + 1, Len(s))
<1> USE DEF Buffer
<1>1. Len(s) \in Nat /\ 1 \in Nat \ {0} /\ k \in 1 - 1 .. Len(s)
  OBVIOUS
<1>2. SubSeq(s, 1, k) \in Buffer /\ SubSeq(s, k + 1, Len(s)) \in Buffer /\ Len(SubSeq(s, 1, k)) = k
  BY Cut
<1>3. SubSeq(s, 1, k) \o SubSeq(s, k + 1, Len(s)) = SubSeq(s, 1, Len(s))
  <2>1. 1 \in 1 .. Len(s) + 1 /\ k \in 1 - 1 .. Len(s) /\ Len(s) \in k .. Len(s)
    BY <1>1
  <2> QED BY <2>1, ConcatAdjacentSubSeq
<1> QED BY <1>2, <1>3, SubSeqFull

-----------------------------------------------------------------------------
(* The order of the bytes of a peer.                                       *)

Rising(s, p) == \A i, j \in 1 .. Len(s) : i < j /\ s[i].peer = p /\ s[j].peer = p => s[i].at < s[j].at

(* The bytes of the peer are behind lo, and none is behind hi.             *)
Within(s, p, lo, hi) == \A i \in 1 .. Len(s) : s[i].peer = p => lo < s[i].at /\ s[i].at <= hi

InOrder(s, p, lo, hi) == Rising(s, p) /\ Within(s, p, lo, hi)

Below(s, t, p) == \A i \in 1 .. Len(s), j \in 1 .. Len(t) : s[i].peer = p /\ t[j].peer = p => s[i].at < t[j].at

Own(s, p) == \A i \in 1 .. Len(s) : s[i].peer = p
Foreign(s, p) == \A i \in 1 .. Len(s) : s[i].peer # p

LEMMA OrderJoins ==
    ASSUME NEW s \in Buffer, NEW t \in Buffer, NEW p, NEW lo, NEW hi
    PROVE  InOrder(s \o t, p, lo, hi) <=> InOrder(s, p, lo, hi) /\ InOrder(t, p, lo, hi) /\ Below(s, t, p)
<1> DEFINE u == s \o t
<1>1. /\ Len(u) = Len(s) + Len(t) /\ Len(s) \in Nat /\ Len(t) \in Nat
      /\ \A i \in 1 .. Len(s) : u[i] = s[i]
      /\ \A i \in 1 .. Len(t) : u[Len(s) + i] = t[i]
      /\ \A i \in 1 .. Len(s) + Len(t) : i \in 1 .. Len(s) \/ \E k \in 1 .. Len(t) : i = Len(s) + k
  BY Joined
<1> HIDE DEF u
<1>2. PICK m, n \in Nat : m = Len(s) /\ n = Len(t) /\ Len(u) = m + n
  BY <1>1
<1>3. ASSUME InOrder(u, p, lo, hi)
      PROVE  InOrder(s, p, lo, hi) /\ InOrder(t, p, lo, hi) /\ Below(s, t, p)
  <2>1. \A i \in 1 .. m : i \in 1 .. m + n /\ u[i] = s[i]
    BY <1>1, <1>2
  <2>2. \A i \in 1 .. n : m + i \in 1 .. m + n /\ u[m + i] = t[i]
    BY <1>1, <1>2
  <2>3. InOrder(s, p, lo, hi)
    BY <1>2, <1>3, <2>1 DEF InOrder, Rising, Within
  <2>4. InOrder(t, p, lo, hi)
    <3>1. ASSUME NEW i \in 1 .. n, NEW j \in 1 .. n, i < j, t[i].peer = p, t[j].peer = p
          PROVE  t[i].at < t[j].at
      <4>1. m + i < m + j /\ u[m + i].peer = p /\ u[m + j].peer = p
        BY <2>2, <3>1
      <4>2. u[m + i].at < u[m + j].at
        BY <1>2, <1>3, <2>2, <4>1 DEF InOrder, Rising
      <4> QED BY <2>2, <4>2
    <3>2. ASSUME NEW i \in 1 .. n, t[i].peer = p
          PROVE  lo < t[i].at /\ t[i].at <= hi
      BY <1>2, <1>3, <2>2, <3>2 DEF InOrder, Within
    <3> QED BY <1>2, <3>1, <3>2 DEF InOrder, Rising, Within
  <2>5. ASSUME NEW i \in 1 .. m, NEW j \in 1 .. n, s[i].peer = p, t[j].peer = p
        PROVE  s[i].at < t[j].at
    <3>1. i < m + j /\ u[i].peer = p /\ u[m + j].peer = p
      BY <2>1, <2>2, <2>5
    <3>2. u[i].at < u[m + j].at
      BY <1>2, <1>3, <2>1, <2>2, <3>1 DEF InOrder, Rising
    <3> QED BY <2>1, <2>2, <3>2
  <2> QED BY <1>2, <2>3, <2>4, <2>5 DEF Below
<1>4. ASSUME InOrder(s, p, lo, hi), InOrder(t, p, lo, hi), Below(s, t, p)
      PROVE  InOrder(u, p, lo, hi)
  <2>1. ASSUME NEW i \in 1 .. m + n, NEW j \in 1 .. m + n, i < j, u[i].peer = p, u[j].peer = p
        PROVE  u[i].at < u[j].at
    <3>1. CASE i \in 1 .. m /\ j \in 1 .. m
      BY <1>1, <1>2, <1>4, <2>1, <3>1 DEF InOrder, Rising
    <3>2. CASE i \in 1 .. m /\ j \notin 1 .. m
      <4>1. PICK k \in 1 .. n : j = m + k
        BY <1>1, <1>2, <3>2
      <4> QED BY <1>1, <1>2, <1>4, <2>1, <3>2, <4>1 DEF Below
    <3>3. CASE i \notin 1 .. m
      <4>1. PICK k, l \in 1 .. n : i = m + k /\ j = m + l
        <5>1. j \notin 1 .. m
          BY <2>1, <3>3
        <5> QED BY <1>1, <1>2, <3>3, <5>1
      <4>2. k < l
        BY <2>1, <4>1
      <4> QED BY <1>1, <1>2, <1>4, <2>1, <4>1, <4>2 DEF InOrder, Rising
    <3> QED BY <3>1, <3>2, <3>3
  <2>2. ASSUME NEW i \in 1 .. m + n, u[i].peer = p
        PROVE  lo < u[i].at /\ u[i].at <= hi
    <3>1. CASE i \in 1 .. m
      BY <1>1, <1>2, <1>4, <2>2, <3>1 DEF InOrder, Within
    <3>2. CASE i \notin 1 .. m
      <4>1. PICK k \in 1 .. n : i = m + k
        BY <1>1, <1>2, <3>2
      <4> QED BY <1>1, <1>2, <1>4, <2>2, <4>1 DEF InOrder, Within
    <3> QED BY <3>1, <3>2
  <2> QED BY <1>2, <2>1, <2>2 DEF InOrder, Rising, Within
<1> QED BY <1>3, <1>4 DEF u

(* What is behind the parts is behind the whole, and in front of them.     *)
LEMMA BelowJoins ==
    ASSUME NEW s \in Buffer, NEW t \in Buffer, NEW u \in Buffer, NEW p
    PROVE  /\ Below(s \o t, u, p) <=> Below(s, u, p) /\ Below(t, u, p)
           /\ Below(u, s \o t, p) <=> Below(u, s, p) /\ Below(u, t, p)
<1> DEFINE v == s \o t
<1>1. /\ Len(v) = Len(s) + Len(t) /\ Len(s) \in Nat /\ Len(t) \in Nat
      /\ \A i \in 1 .. Len(s) : v[i] = s[i]
      /\ \A i \in 1 .. Len(t) : v[Len(s) + i] = t[i]
      /\ \A i \in 1 .. Len(s) + Len(t) : i \in 1 .. Len(s) \/ \E k \in 1 .. Len(t) : i = Len(s) + k
  BY Joined
<1> HIDE DEF v
<1>2. PICK m, n \in Nat : m = Len(s) /\ n = Len(t) /\ Len(v) = m + n
  BY <1>1
<1>3. \A i \in 1 .. m : i \in 1 .. m + n /\ v[i] = s[i]
  BY <1>1, <1>2
<1>4. \A i \in 1 .. n : m + i \in 1 .. m + n /\ v[m + i] = t[i]
  BY <1>1, <1>2
<1>5. \A i \in 1 .. m + n : i \in 1 .. m \/ \E k \in 1 .. n : i = m + k
  BY <1>1, <1>2
<1> HIDE <1>1
<1>6. Below(v, u, p) => Below(s, u, p) /\ Below(t, u, p)
  BY <1>2, <1>3, <1>4 DEF Below
<1>7. Below(s, u, p) /\ Below(t, u, p) => Below(v, u, p)
  <2> SUFFICES ASSUME Below(s, u, p), Below(t, u, p), NEW i \in 1 .. m + n, NEW j \in 1 .. Len(u),
                      v[i].peer = p, u[j].peer = p
               PROVE  v[i].at < u[j].at
    BY <1>2 DEF Below
  <2>1. CASE i \in 1 .. m
    BY <1>2, <1>3, <2>1 DEF Below
  <2>2. CASE i \notin 1 .. m
    <3>1. PICK k \in 1 .. n : i = m + k
      BY <1>5, <2>2
    <3> QED BY <1>2, <1>4, <3>1 DEF Below
  <2> QED BY <2>1, <2>2
<1>8. Below(u, v, p) => Below(u, s, p) /\ Below(u, t, p)
  BY <1>2, <1>3, <1>4 DEF Below
<1>9. Below(u, s, p) /\ Below(u, t, p) => Below(u, v, p)
  <2> SUFFICES ASSUME Below(u, s, p), Below(u, t, p), NEW i \in 1 .. m + n, NEW j \in 1 .. Len(u),
                      v[i].peer = p, u[j].peer = p
               PROVE  u[j].at < v[i].at
    BY <1>2 DEF Below
  <2>1. CASE i \in 1 .. m
    BY <1>2, <1>3, <2>1 DEF Below
  <2>2. CASE i \notin 1 .. m
    <3>1. PICK k \in 1 .. n : i = m + k
      BY <1>5, <2>2
    <3> QED BY <1>2, <1>4, <3>1 DEF Below
  <2> QED BY <2>1, <2>2
<1> QED BY <1>6, <1>7, <1>8, <1>9 DEF v

LEMMA ForeignParts ==
    ASSUME NEW s \in Buffer, NEW t \in Buffer, NEW p, Foreign(s, p), Foreign(t, p)
    PROVE  Foreign(s \o t, p)
<1>1. /\ Len(s \o t) = Len(s) + Len(t)
      /\ \A i \in 1 .. Len(s) : (s \o t)[i] = s[i]
      /\ \A i \in 1 .. Len(t) : (s \o t)[Len(s) + i] = t[i]
      /\ \A i \in 1 .. Len(s) + Len(t) : i \in 1 .. Len(s) \/ \E k \in 1 .. Len(t) : i = Len(s) + k
  BY Joined
<1> QED BY <1>1 DEF Foreign

(* Bytes may be taken out, and bytes of others put in.                     *)
LEMMA Thinned ==
    ASSUME NEW a \in Buffer, NEW b \in Buffer, NEW c \in Buffer, NEW p, NEW lo, NEW hi,
           InOrder((a \o b) \o c, p, lo, hi)
    PROVE  InOrder(a \o c, p, lo, hi)
<1>1. a \o b \in Buffer
  BY Joined
<1>2. InOrder(a \o b, p, lo, hi) /\ InOrder(c, p, lo, hi) /\ Below(a \o b, c, p)
  BY <1>1, OrderJoins
<1>3. InOrder(a, p, lo, hi) /\ Below(a, c, p)
  BY <1>2, OrderJoins, BelowJoins
<1> QED BY <1>2, <1>3, OrderJoins

LEMMA Padded ==
    ASSUME NEW a \in Buffer, NEW b \in Buffer, NEW c \in Buffer, NEW p, NEW lo, NEW hi,
           Foreign(b, p), InOrder(a \o c, p, lo, hi)
    PROVE  InOrder((a \o b) \o c, p, lo, hi)
<1>1. a \o b \in Buffer
  BY Joined
<1>2. InOrder(b, p, lo, hi) /\ Below(a, b, p) /\ Below(b, c, p)
  BY DEF InOrder, Rising, Within, Below, Foreign
<1>3. InOrder(a, p, lo, hi) /\ InOrder(c, p, lo, hi) /\ Below(a, c, p)
  BY OrderJoins
<1>4. InOrder(a \o b, p, lo, hi) /\ Below(a \o b, c, p)
  BY <1>2, <1>3, OrderJoins, BelowJoins
<1> QED BY <1>1, <1>3, <1>4, OrderJoins

(* Joining buffers, opaque where only the order of the parts matters.      *)
Cat(s, t) == s \o t

LEMMA Regroup ==
    /\ \A a, b \in Buffer : Cat(a, b) \in Buffer
    /\ \A a, b, c \in Buffer : Cat(Cat(a, b), c) = Cat(a, Cat(b, c))
<1>1. \A a, b \in Buffer : Cat(a, b) \in Buffer
  BY Joined DEF Cat
<1>2. \A a, b, c \in Buffer : Cat(Cat(a, b), c) = Cat(a, Cat(b, c))
  BY ConcatAssociative DEF Cat, Buffer
<1> QED BY <1>1, <1>2

(* What Append makes of the bytes on their way: the queue a \o b loses a,  *)
(* and of what a peer has before it, l reaches the queue.                  *)
Moves(c, a, b, k, w1, w2, l, r) ==
    /\ c \in Buffer /\ a \in Buffer /\ b \in Buffer /\ k \in Buffer
    /\ w1 \in Buffer /\ w2 \in Buffer /\ l \in Buffer /\ r \in Buffer
    /\ Cat(k, w1) = Cat(l, r)

LEMMA OwnMoved ==
    ASSUME NEW c, NEW a, NEW b, NEW k, NEW w1, NEW w2, NEW l, NEW r, Moves(c, a, b, k, w1, w2, l, r),
           NEW p, NEW lo, NEW hi,
           InOrder(Cat(Cat(Cat(c, Cat(a, b)), k), Cat(w1, w2)), p, lo, hi)
    PROVE  InOrder(Cat(Cat(Cat(c, Cat(b, l)), r), w2), p, lo, hi)
<1>1. /\ c \in Buffer /\ a \in Buffer /\ b \in Buffer /\ k \in Buffer
      /\ w1 \in Buffer /\ w2 \in Buffer /\ l \in Buffer /\ r \in Buffer
      /\ Cat(k, w1) = Cat(l, r)
  BY DEF Moves
<1>2. PICK rest \in Buffer : rest = Cat(b, Cat(Cat(l, r), w2))
  BY <1>1, Regroup
<1>3. Cat(Cat(Cat(c, Cat(a, b)), k), Cat(w1, w2)) = Cat(Cat(c, a), rest)
  <2>0. PICK q \in Buffer : q = Cat(c, Cat(a, b))
    BY <1>1, Regroup
  <2>1. Cat(Cat(q, k), Cat(w1, w2)) = Cat(q, Cat(Cat(k, w1), w2))
    <3>1. PICK w \in Buffer : w = Cat(w1, w2)
      BY <1>1, Regroup
    <3>2. Cat(Cat(q, k), w) = Cat(q, Cat(k, w)) /\ Cat(k, Cat(w1, w2)) = Cat(Cat(k, w1), w2)
      BY <1>1, Regroup
    <3> QED BY <3>1, <3>2
  <2>2. Cat(Cat(c, Cat(a, b)), Cat(Cat(l, r), w2)) = Cat(Cat(c, a), Cat(b, Cat(Cat(l, r), w2)))
    <3>1. PICK w \in Buffer : w = Cat(Cat(l, r), w2)
      BY <1>1, Regroup
    <3>2. Cat(Cat(c, Cat(a, b)), w) = Cat(Cat(c, a), Cat(b, w))
      BY <1>1, Regroup
    <3> QED BY <3>1, <3>2
  <2> QED BY <1>1, <1>2, <2>0, <2>1, <2>2
<1>4. InOrder(Cat(c, rest), p, lo, hi)
  BY <1>1, <1>2, <1>3, Thinned DEF Cat
<1>5. Cat(c, rest) = Cat(Cat(Cat(c, Cat(b, l)), r), w2)
  <2>1. PICK bl, rw \in Buffer : bl = Cat(b, l) /\ rw = Cat(r, w2)
    BY <1>1, Regroup
  <2>2. rest = Cat(bl, rw)
    BY <1>2, <2>1, <1>1, Regroup
  <2>3. Cat(Cat(c, bl), rw) = Cat(Cat(Cat(c, bl), r), w2)
    <3>1. PICK cbl \in Buffer : cbl = Cat(c, bl)
      BY <1>1, Regroup
    <3>2. Cat(Cat(cbl, r), w2) = Cat(cbl, Cat(r, w2))
      BY <1>1, Regroup
    <3> QED BY <2>1, <3>1, <3>2
  <2>4. Cat(c, Cat(bl, rw)) = Cat(Cat(c, bl), rw)
    BY <1>1, Regroup
  <2> QED BY <2>1, <2>2, <2>3, <2>4
<1> QED BY <1>4, <1>5

LEMMA OthersMoved ==
    ASSUME NEW c \in Buffer, NEW a \in Buffer, NEW b \in Buffer, NEW l \in Buffer,
           NEW k \in Buffer, NEW w \in Buffer, NEW p, NEW lo, NEW hi, Foreign(l, p),
           InOrder(((c \o (a \o b)) \o k) \o w, p, lo, hi)
    PROVE  InOrder(((c \o (b \o l)) \o k) \o w, p, lo, hi)
<1>1. InOrder(Cat(Cat(Cat(c, Cat(a, b)), k), w), p, lo, hi)
  BY DEF Cat
<1>2. PICK rest \in Buffer : rest = Cat(b, Cat(k, w))
  BY Regroup
<1>3. Cat(Cat(Cat(c, Cat(a, b)), k), w) = Cat(Cat(c, a), rest)
  BY <1>2, Regroup
<1>4. InOrder(Cat(c, rest), p, lo, hi)
  BY <1>1, <1>2, <1>3, Thinned DEF Cat
<1>5. PICK cb, e \in Buffer : cb = Cat(c, b) /\ e = Cat(k, w)
  BY Regroup
<1>6. Cat(c, rest) = Cat(cb, e)
  BY <1>2, <1>5, Regroup
<1>7. InOrder(Cat(Cat(cb, l), e), p, lo, hi)
  BY <1>4, <1>5, <1>6, Padded DEF Cat
<1>8. Cat(Cat(cb, l), e) = Cat(Cat(Cat(c, Cat(b, l)), k), w)
  <2>1. PICK q \in Buffer : q = Cat(c, Cat(b, l))
    BY Regroup
  <2>2. Cat(cb, l) = q
    BY <1>5, <2>1, Regroup
  <2>3. Cat(q, e) = Cat(Cat(q, k), w)
    BY <1>5, Regroup
  <2> QED BY <2>1, <2>2, <2>3
<1> QED BY <1>7, <1>8 DEF Cat

-----------------------------------------------------------------------------
(* Seams: where a byte does not go on from the one before it.              *)

Fits(s, i) ==
    IF i = 1 \/ s[i - 1].nl
      THEN s[i].first
      ELSE s[i] = Synthetic \/ (s[i].peer = s[i - 1].peer /\ s[i].at = s[i - 1].at + 1 /\ ~s[i].first)

Seams(s) == {i \in 1 .. Len(s) : ~Fits(s, i)}

SeamCount(s) == Cardinality(Seams(s))

(* The seams of a buffer whatever is before it, and the one there may be   *)
(* where two are joined.                                                   *)
Inner(s) == Cardinality(Seams(s) \ {1})
Joint(s, t) == IF t # <<>> /\ ~Fits(s \o t, Len(s) + 1) THEN 1 ELSE 0

LEMMA SeamsFinite ==
    ASSUME NEW s \in Buffer
    PROVE  /\ IsFiniteSet(Seams(s)) /\ SeamCount(s) \in Nat
           /\ IsFiniteSet(Seams(s) \ {1}) /\ Inner(s) \in Nat
           /\ (SeamCount(s) = 0 <=> Seams(s) = {})
<1>1. Len(s) \in Int /\ 1 \in Int
  BY DEF Buffer
<1>2. IsFiniteSet(1 .. Len(s))
  BY <1>1, FS_Interval
<1>3. Seams(s) \in SUBSET (1 .. Len(s)) /\ Seams(s) \ {1} \in SUBSET (1 .. Len(s))
  BY DEF Seams
<1>4. IsFiniteSet(Seams(s)) /\ IsFiniteSet(Seams(s) \ {1})
  BY <1>2, <1>3, FS_Subset
<1> QED BY <1>4, FS_CardinalityType, FS_EmptySet DEF SeamCount, Inner

LEMMA ShiftedCount ==
    ASSUME NEW S \in SUBSET Int, IsFiniteSet(S), NEW m \in Int
    PROVE  /\ IsFiniteSet({i + m : i \in S})
           /\ Cardinality({i + m : i \in S}) = Cardinality(S)
<1> DEFINE T == {i + m : i \in S}
           f == [i \in S |-> i + m]
<1>1. f \in [S -> T]
  OBVIOUS
<1>2. \A x, y \in S : f[x] = f[y] => x = y
  OBVIOUS
<1>3. \A u \in T : \E x \in S : f[x] = u
  OBVIOUS
<1> HIDE DEF f, T
<1>4. f \in Bijection(S, T)
  BY <1>1, <1>2, <1>3 DEF Bijection, Injection, Surjection, IsInjective
<1>5. ExistsBijection(S, T)
  BY <1>4 DEF ExistsBijection
<1> QED BY <1>5, FS_Bijection DEF T

LEMMA DisjointCount ==
    ASSUME NEW S, NEW T, IsFiniteSet(S), IsFiniteSet(T), S \cap T = {}
    PROVE  IsFiniteSet(S \cup T) /\ Cardinality(S \cup T) = Cardinality(S) + Cardinality(T)
<1>1. IsFiniteSet(S \cup T)
  BY FS_Union
<1>2. Cardinality(S \cap T) = 0
  BY FS_EmptySet
<1>3. Cardinality(S) \in Nat /\ Cardinality(T) \in Nat
  BY FS_CardinalityType
<1>4. Cardinality(S \cup T) = Cardinality(S) + Cardinality(T) - Cardinality(S \cap T)
  BY FS_Union
<1> QED BY <1>1, <1>2, <1>3, <1>4

(* Seams of two buffers, joined.                                           *)
LEMMA SeamsJoin ==
    ASSUME NEW s \in Buffer, NEW t \in Buffer
    PROVE  SeamCount(s \o t) = SeamCount(s) + Inner(t) + Joint(s, t)
<1> DEFINE u == s \o t
           A == Seams(s)
           B == {i + Len(s) : i \in Seams(t) \ {1}}
           C == IF Joint(s, t) = 1 THEN {Len(s) + 1} ELSE {}
<1>1. /\ Len(u) = Len(s) + Len(t) /\ Len(s) \in Nat /\ Len(t) \in Nat
      /\ \A i \in 1 .. Len(s) : u[i] = s[i]
      /\ \A i \in 1 .. Len(t) : u[Len(s) + i] = t[i]
      /\ \A i \in 1 .. Len(s) + Len(t) : i \in 1 .. Len(s) \/ \E k \in 1 .. Len(t) : i = Len(s) + k
  BY Joined
<1> HIDE DEF u
<1>2. PICK m, n \in Nat : m = Len(s) /\ n = Len(t) /\ Len(u) = m + n
  BY <1>1
<1>3. ASSUME NEW i \in 1 .. m PROVE Fits(u, i) <=> Fits(s, i)
  <2>1. u[i] = s[i] /\ (i # 1 => i - 1 \in 1 .. m /\ u[i - 1] = s[i - 1])
    BY <1>1, <1>2
  <2> QED BY <2>1 DEF Fits
<1>4. ASSUME NEW i \in 2 .. n PROVE Fits(u, i + m) <=> Fits(t, i)
  <2>1. i \in 1 .. n /\ i - 1 \in 1 .. n /\ i + m = m + i /\ i + m - 1 = m + (i - 1) /\ i # 1 /\ i + m # 1
    OBVIOUS
  <2>2. u[i + m] = t[i] /\ u[i + m - 1] = t[i - 1]
    BY <1>1, <1>2, <2>1
  <2> QED BY <2>1, <2>2 DEF Fits
<1>5. t # <<>> <=> n >= 1
  BY <1>2 DEF Buffer
<1>6. Joint(s, t) = 1 <=> n >= 1 /\ ~Fits(u, m + 1)
  BY <1>2, <1>5 DEF Joint, u
<1>7. Joint(s, t) \in {0, 1}
  BY DEF Joint
<1>8. Seams(u) = A \cup B \cup C
  <2>1. ASSUME NEW i \in Seams(u) PROVE i \in A \cup B \cup C
    <3>1. i \in 1 .. m + n /\ ~Fits(u, i)
      BY <1>2 DEF Seams
    <3>2. CASE i \in 1 .. m
      BY <1>2, <1>3, <3>1, <3>2 DEF Seams
    <3>3. CASE i = m + 1 /\ n >= 1
      BY <1>2, <1>6, <3>1, <3>3
    <3>4. CASE i - m \in 2 .. n
      <4>1. i = (i - m) + m
        BY <3>1
      <4>2. ~Fits(t, i - m)
        BY <1>4, <3>1, <3>4, <4>1
      <4>3. i - m \in Seams(t) \ {1}
        BY <1>2, <3>4, <4>2 DEF Seams
      <4> QED BY <1>2, <4>1, <4>3
    <3> QED BY <3>1, <3>2, <3>3, <3>4
  <2>2. ASSUME NEW i \in A PROVE i \in Seams(u)
    <3>1. i \in 1 .. m /\ ~Fits(s, i)
      BY <1>2 DEF Seams
    <3>2. i \in 1 .. m + n
      BY <3>1
    <3> QED BY <1>2, <1>3, <3>1, <3>2 DEF Seams
  <2>3. ASSUME NEW i \in B PROVE i \in Seams(u)
    <3>1. PICK k \in Seams(t) \ {1} : i = k + m
      BY <1>2
    <3>2. k \in 2 .. n /\ ~Fits(t, k)
      BY <1>2, <3>1 DEF Seams
    <3>3. i \in 1 .. m + n
      BY <3>1, <3>2
    <3> QED BY <1>2, <1>4, <3>1, <3>2, <3>3 DEF Seams
  <2>4. ASSUME NEW i \in C PROVE i \in Seams(u)
    <3>1. Joint(s, t) = 1 /\ i = m + 1
      BY <1>2
    <3>2. i \in 1 .. m + n
      BY <1>6, <3>1
    <3> QED BY <1>2, <1>6, <3>1, <3>2 DEF Seams
  <2> QED BY <2>1, <2>2, <2>3, <2>4
<1>9. IsFiniteSet(B) /\ Cardinality(B) = Inner(t)
  <2>1. Seams(t) \ {1} \in SUBSET Int /\ m \in Int
    BY <1>2 DEF Seams
  <2>2. IsFiniteSet(Seams(t) \ {1})
    BY SeamsFinite
  <2> QED BY <1>2, <2>1, <2>2, ShiftedCount DEF Inner
<1>10. IsFiniteSet(C) /\ Cardinality(C) = Joint(s, t)
  BY <1>7, FS_EmptySet, FS_Singleton
<1>11. A \cap B = {} /\ (A \cup B) \cap C = {}
  <2>1. \A i \in A : i \in 1 .. m
    BY <1>2 DEF Seams
  <2>2. \A i \in B : i \in Int /\ i > m + 1
    <3> SUFFICES ASSUME NEW k \in Seams(t) \ {1} PROVE k + m \in Int /\ k + m > m + 1
      BY <1>2
    <3>1. k \in 1 .. n /\ k # 1
      BY <1>2 DEF Seams
    <3> QED BY <3>1
  <2>3. \A i \in C : i = m + 1
    BY <1>2
  <2> HIDE DEF A, B, C
  <2>4. \A i \in A : i \notin B /\ i \notin C
    BY <2>1, <2>2, <2>3
  <2>5. \A i \in B : i \notin C
    BY <2>2, <2>3
  <2> QED BY <2>4, <2>5
<1>12. IsFiniteSet(A) /\ Cardinality(A) = SeamCount(s)
  BY SeamsFinite DEF SeamCount
<1> HIDE DEF A, B, C
<1>13. IsFiniteSet(A \cup B) /\ Cardinality(A \cup B) = SeamCount(s) + Inner(t)
  BY <1>9, <1>11, <1>12, DisjointCount
<1>14. Cardinality((A \cup B) \cup C) = SeamCount(s) + Inner(t) + Joint(s, t)
  BY <1>10, <1>11, <1>13, DisjointCount
<1> QED BY <1>8, <1>14 DEF SeamCount, u

LEMMA NothingJoined ==
    ASSUME NEW s \in Buffer
    PROVE  /\ <<>> \in Buffer /\ <<>> \o s = s /\ s \o <<>> = s
           /\ SeamCount(<<>>) = 0 /\ Inner(<<>>) = 0
           /\ SeamCount(s) = Inner(s) + Joint(<<>>, s)
           /\ (Joint(<<>>, s) = IF s # <<>> /\ ~s[1].first THEN 1 ELSE 0)
<1>1. <<>> \in Buffer /\ <<>> \o s = s /\ s \o <<>> = s
  BY ConcatEmptySeq, EmptySeq DEF Buffer
<1>2. Seams(<<>>) = {} /\ Seams(<<>>) \ {1} = {}
  BY DEF Seams
<1>3. SeamCount(<<>>) = 0 /\ Inner(<<>>) = 0
  BY <1>2, FS_EmptySet DEF SeamCount, Inner
<1>4. SeamCount(<<>> \o s) = SeamCount(<<>>) + Inner(s) + Joint(<<>>, s)
  BY <1>1, SeamsJoin
<1>5. Joint(<<>>, s) = IF s # <<>> /\ ~s[1].first THEN 1 ELSE 0
  BY <1>1, EmptySeq DEF Joint, Fits
<1>6. Inner(s) \in Nat
  BY SeamsFinite
<1>7. Joint(<<>>, s) \in Nat
  BY <1>5
<1> QED BY <1>1, <1>3, <1>4, <1>5, <1>6, <1>7

LEMMA JointIs == \A s, t : Joint(s, t) \in {0, 1}
BY DEF Joint

EndsLine(s) == s # <<>> => s[Len(s)].nl

(* A line that is taken away takes its seams with it.                      *)
LEMMA SeamsAfterLine ==
    ASSUME NEW s \in Buffer, NEW t \in Buffer, EndsLine(s)
    PROVE  SeamCount(s \o t) = SeamCount(s) + SeamCount(t)
<1>1. SeamCount(s \o t) = SeamCount(s) + Inner(t) + Joint(s, t)
  BY SeamsJoin
<1>2. SeamCount(t) = Inner(t) + Joint(<<>>, t) /\ (Joint(<<>>, t) = IF t # <<>> /\ ~t[1].first THEN 1 ELSE 0)
  BY NothingJoined
<1>3. Joint(s, t) = Joint(<<>>, t)
  <2>1. CASE s = <<>>
    BY <2>1
  <2>2. CASE s # <<>>
    <3>1. Len(s) \in Nat /\ Len(s) # 0 /\ (t # <<>> => Len(t) \in Nat /\ Len(t) # 0)
      BY <2>2, EmptySeq DEF Buffer
    <3>2. t # <<>> => (s \o t)[Len(s)] = s[Len(s)] /\ (s \o t)[Len(s) + 1] = t[1]
      <4>1. (\A i \in 1 .. Len(s) : (s \o t)[i] = s[i]) /\ (\A i \in 1 .. Len(t) : (s \o t)[Len(s) + i] = t[i])
        BY Joined
      <4>2. Len(s) \in 1 .. Len(s) /\ (t # <<>> => 1 \in 1 .. Len(t))
        BY <3>1
      <4> QED BY <4>1, <4>2
    <3>3. t # <<>> => (Fits(s \o t, Len(s) + 1) <=> t[1].first)
      BY <2>2, <3>1, <3>2 DEF Fits, EndsLine
    <3> QED BY <1>2, <3>3 DEF Joint
  <2> QED BY <2>1, <2>2
<1>4. SeamCount(s) \in Nat /\ Inner(t) \in Nat
  BY SeamsFinite
<1>5. Joint(<<>>, t) \in {0, 1}
  BY JointIs
<1> QED BY <1>1, <1>2, <1>3, <1>4, <1>5

LEMMA InnerGrows ==
    ASSUME NEW s \in Buffer, NEW t \in Buffer
    PROVE  Inner(t) <= Inner(s \o t)
<1>1. CASE s = <<>>
  <2>1. <<>> \o t = t
    BY NothingJoined
  <2>2. Inner(t) \in Nat
    BY SeamsFinite
  <2> QED BY <1>1, <2>1, <2>2
<1>2. CASE s # <<>>
  <2>1. s \o t \in Buffer /\ Len(s) \in Nat /\ Len(s) # 0 /\ (s \o t)[1] = s[1] /\ s \o t # <<>>
    <3>1. Len(s) \in Nat /\ Len(s) # 0
      BY <1>2, EmptySeq DEF Buffer
    <3>2. Len(s \o t) # 0 /\ s \o t \in Buffer /\ (s \o t)[1] = s[1]
      <4>1. s \o t \in Buffer /\ Len(s \o t) = Len(s) + Len(t) /\ Len(t) \in Nat
            /\ \A i \in 1 .. Len(s) : (s \o t)[i] = s[i]
        BY Joined
      <4>2. 1 \in 1 .. Len(s)
        BY <3>1
      <4> QED BY <3>1, <4>1, <4>2
    <3>3. Len(<<>>) = 0
      OBVIOUS
    <3> QED BY <3>1, <3>2, <3>3
  <2>2. Joint(<<>>, s \o t) = Joint(<<>>, s)
    BY <1>2, <2>1, NothingJoined
  <2>3. SeamCount(s \o t) = Inner(s \o t) + Joint(<<>>, s \o t) /\ SeamCount(s) = Inner(s) + Joint(<<>>, s)
    BY <2>1, NothingJoined
  <2>4. SeamCount(s \o t) = SeamCount(s) + Inner(t) + Joint(s, t)
    BY SeamsJoin
  <2>5. Inner(s \o t) \in Nat /\ Inner(s) \in Nat /\ Inner(t) \in Nat
    BY <2>1, SeamsFinite
  <2>6. Joint(<<>>, s) \in Nat /\ Joint(s, t) \in Nat
    BY JointIs
  <2> QED BY <2>2, <2>3, <2>4, <2>5, <2>6
<1> QED BY <1>1, <1>2

(* Bytes that are dropped leave one seam more, at most.                    *)
LEMMA SeamsThinned ==
    ASSUME NEW a \in Buffer, NEW b \in Buffer, NEW c \in Buffer
    PROVE  SeamCount(a \o c) <= SeamCount(a \o (b \o c)) + 1
<1>1. b \o c \in Buffer
  BY Joined
<1>2. SeamCount(a \o c) = SeamCount(a) + Inner(c) + Joint(a, c)
  BY SeamsJoin
<1>3. SeamCount(a \o (b \o c)) = SeamCount(a) + Inner(b \o c) + Joint(a, b \o c)
  BY <1>1, SeamsJoin
<1>4. Inner(c) <= Inner(b \o c)
  BY InnerGrows
<1>5. SeamCount(a) \in Nat /\ Inner(c) \in Nat /\ Inner(b \o c) \in Nat
  BY <1>1, SeamsFinite
<1>6. Joint(a, c) \in {0, 1} /\ Joint(a, b \o c) \in {0, 1}
  BY JointIs
<1> QED BY <1>2, <1>3, <1>4, <1>5, <1>6

LEMMA SeamsOfPart ==
    ASSUME NEW s \in Buffer, NEW t \in Buffer
    PROVE  SeamCount(s) <= SeamCount(s \o t)
<1>1. SeamCount(s \o t) = SeamCount(s) + Inner(t) + Joint(s, t)
  BY SeamsJoin
<1>2. SeamCount(s) \in Nat /\ Inner(t) \in Nat /\ Joint(s, t) \in {0, 1}
  BY SeamsFinite, JointIs
<1> QED BY <1>1, <1>2

(* A line the parser takes without a seam is whole.                        *)
LEMMA SeamlessIsWhole ==
    ASSUME NEW s \in Buffer, s # <<>>, SeamCount(s) = 0, \A i \in 1 .. Len(s) - 1 : ~s[i].nl
    PROVE  Whole(s)
<1>1. Len(s) \in Nat \ {0}
  BY EmptySeq DEF Buffer
<1>2. \A i \in 1 .. Len(s) : Fits(s, i)
  BY SeamsFinite DEF Seams
<1>3. s[1].first
  BY <1>1, <1>2 DEF Fits
<1>4. ASSUME NEW i \in 2 .. Len(s)
      PROVE  \/ s[i] = Synthetic
             \/ s[i].peer = s[i - 1].peer /\ s[i].at = s[i - 1].at + 1 /\ ~s[i].first
  <2>1. i \in 1 .. Len(s) /\ i # 1 /\ i - 1 \in 1 .. Len(s) - 1
    BY <1>1
  <2> QED BY <1>2, <2>1 DEF Fits
<1> QED BY <1>3, <1>4 DEF Whole

LEMMA LastJoined ==
    ASSUME NEW s \in Buffer, NEW t \in Buffer, t # <<>>
    PROVE  s \o t # <<>> /\ (s \o t)[Len(s \o t)] = t[Len(t)]
<1>1. Len(t) \in Nat /\ Len(t) # 0
  BY EmptySeq DEF Buffer
<1>2. /\ Len(s \o t) = Len(s) + Len(t) /\ Len(s) \in Nat
      /\ \A i \in 1 .. Len(t) : (s \o t)[Len(s) + i] = t[i]
  BY Joined
<1>3. Len(t) \in 1 .. Len(t) /\ Len(s) + Len(t) # 0
  BY <1>1, <1>2
<1>4. (s \o t)[Len(s \o t)] = t[Len(t)] /\ Len(s \o t) # 0
  BY <1>2, <1>3
<1>5. Len(<<>>) = 0
  OBVIOUS
<1> QED BY <1>4, <1>5

(* The byte that is sent next goes on from a buffer that ends with the     *)
(* last one, or after a whole line.                                        *)
GoesOn(s, p, at, mid) ==
    IF s = <<>> THEN ~mid
                ELSE s[Len(s)].peer = p /\ s[Len(s)].at = at /\ s[Len(s)].nl = ~mid

LEMMA SentOn ==
    ASSUME NEW s \in Buffer, NEW p, NEW at \in Nat, NEW mid \in BOOLEAN, GoesOn(s, p, at, mid),
           NEW t \in Buffer, Len(t) = 1, t[1].peer = p, t[1].at = at + 1, t[1].first = ~mid
    PROVE  SeamCount(s \o t) = SeamCount(s) /\ GoesOn(s \o t, p, at + 1, ~t[1].nl)
<1>1. t # <<>>
  <2>1. Len(<<>>) = 0
    OBVIOUS
  <2> QED BY <2>1
<1>2. t[1].nl \in BOOLEAN
  <2>1. t[1] \in Byte
    <3>1. \A i \in 1 .. Len(t) : t[i] \in Byte
      BY DEF Buffer
    <3>2. 1 \in 1 .. Len(t)
      OBVIOUS
    <3> QED BY <3>1, <3>2
  <2> QED BY <2>1 DEF Byte
<1>3. GoesOn(s \o t, p, at + 1, ~t[1].nl)
  BY <1>1, <1>2, LastJoined DEF GoesOn
<1>4. Inner(t) = 0
  <2>1. Seams(t) \ {1} = {}
    BY DEF Seams
  <2> QED BY <2>1, FS_EmptySet DEF Inner
<1>5. Joint(s, t) = 0
  <2>1. CASE s = <<>>
    <3>1. Joint(<<>>, t) = IF t # <<>> /\ ~t[1].first THEN 1 ELSE 0
      BY NothingJoined
    <3> QED BY <2>1, <3>1 DEF GoesOn
  <2>2. CASE s # <<>>
    <3>1. Len(s) \in Nat /\ Len(s) # 0
      BY <2>2, EmptySeq DEF Buffer
    <3>2. (\A i \in 1 .. Len(s) : (s \o t)[i] = s[i]) /\ (\A i \in 1 .. Len(t) : (s \o t)[Len(s) + i] = t[i])
      BY Joined
    <3>3. (s \o t)[Len(s)] = s[Len(s)] /\ (s \o t)[Len(s) + 1] = t[1]
      <4>1. 1 \in 1 .. Len(t) /\ Len(s) \in 1 .. Len(s)
        BY <3>1
      <4> QED BY <3>2, <4>1
    <3>4. s[Len(s)].peer = p /\ s[Len(s)].at = at /\ s[Len(s)].nl = ~mid
      BY <2>2 DEF GoesOn
    <3>5. Fits(s \o t, Len(s) + 1)
      <4>1. Len(s) + 1 # 1 /\ Len(s) + 1 - 1 = Len(s)
        BY <3>1
      <4> QED BY <3>3, <3>4, <4>1 DEF Fits
    <3> QED BY <3>5 DEF Joint
  <2> QED BY <2>1, <2>2
<1>6. SeamCount(s \o t) = SeamCount(s) + Inner(t) + Joint(s, t)
  BY SeamsJoin
<1>7. SeamCount(s) \in Nat
  BY SeamsFinite
<1> QED BY <1>3, <1>4, <1>5, <1>6, <1>7

(* What follows a whole line goes on as the buffer did.                    *)
LEMMA GoesOnAfter ==
    ASSUME NEW s \in Buffer, NEW t \in Buffer, EndsLine(s),
           NEW p, NEW at, NEW mid \in BOOLEAN, GoesOn(s \o t, p, at, mid)
    PROVE  GoesOn(t, p, at, mid)
<1>1. CASE t # <<>>
  BY <1>1, LastJoined DEF GoesOn
<1>2. CASE t = <<>>
  <2>1. GoesOn(s, p, at, mid)
    BY <1>2, NothingJoined
  <2> QED BY <1>2, <2>1 DEF GoesOn, EndsLine
<1> QED BY <1>1, <1>2

LEMMA EndsJoined ==
    ASSUME NEW s \in Buffer, NEW t \in Buffer
    PROVE  /\ EndsLine(s \o t) => EndsLine(t)
           /\ t # <<>> /\ EndsLine(t) => EndsLine(s \o t)
BY LastJoined DEF EndsLine

(* The newline a producer adds ends a line and makes no seam.              *)
LEMMA SyntheticEnds ==
    ASSUME NEW s \in Buffer, s # <<>>, ~s[Len(s)].nl, SeamCount(s) = 0
    PROVE  /\ <<Synthetic>> \in Buffer /\ <<Synthetic>> # <<>> /\ EndsLine(<<Synthetic>>)
           /\ SeamCount(s \o <<Synthetic>>) = 0 /\ EndsLine(s \o <<Synthetic>>)
<1>1. PICK t : t = <<Synthetic>>
  OBVIOUS
<1>2. t \in Buffer /\ Len(t) = 1 /\ t[1] = Synthetic
  <2>1. Synthetic \in Byte
    BY DEF Synthetic, Byte
  <2>2. <<Synthetic>> \in Seq(Byte) /\ Len(<<Synthetic>>) = 1 /\ <<Synthetic>>[1] = Synthetic
    BY <2>1
  <2> QED BY <1>1, <2>2 DEF Buffer
<1>3. t # <<>>
  <2>1. Len(<<>>) = 0
    OBVIOUS
  <2> QED BY <1>2, <2>1
<1>4. t[1].nl
  BY <1>2 DEF Synthetic
<1>5. EndsLine(t)
  BY <1>2, <1>4 DEF EndsLine
<1>6. Inner(t) = 0
  <2>1. Seams(t) \ {1} = {}
    BY <1>2 DEF Seams
  <2> QED BY <2>1, FS_EmptySet DEF Inner
<1>7. Joint(s, t) = 0
  <2>1. Len(s) \in Nat /\ Len(s) # 0
    BY EmptySeq DEF Buffer
  <2>2. (\A i \in 1 .. Len(s) : (s \o t)[i] = s[i]) /\ (\A i \in 1 .. Len(t) : (s \o t)[Len(s) + i] = t[i])
    BY <1>2, Joined
  <2>3. (s \o t)[Len(s)] = s[Len(s)] /\ (s \o t)[Len(s) + 1] = Synthetic
    BY <1>2, <2>1, <2>2
  <2>4. Len(s) + 1 # 1 /\ Len(s) + 1 - 1 = Len(s)
    BY <2>1
  <2>5. Fits(s \o t, Len(s) + 1)
    BY <2>3, <2>4 DEF Fits
  <2> QED BY <2>5 DEF Joint
<1>8. SeamCount(s \o t) = 0
  BY <1>2, <1>6, <1>7, SeamsJoin
<1>9. EndsLine(s \o t)
  BY <1>2, <1>3, <1>5, EndsJoined
<1> QED BY <1>1, <1>2, <1>3, <1>5, <1>8, <1>9

LEMMA Seamless == ASSUME NEW s, Seams(s) = {} PROVE SeamCount(s) = 0
BY FS_EmptySet DEF SeamCount

(* Bytes are sent in order.                                                *)
LEMMA OneMore ==
    ASSUME NEW s \in Buffer, NEW p, NEW lo \in Nat, NEW hi \in Nat, lo <= hi, InOrder(s, p, lo, hi),
           NEW t \in Buffer, Len(t) = 1, t[1].peer = p, t[1].at = hi + 1
    PROVE  InOrder(s \o t, p, lo, hi + 1)
<1>1. \A i \in 1 .. Len(s) : s[i].at \in Nat
  <2>1. \A i \in 1 .. Len(s) : s[i] \in Byte
    BY DEF Buffer
  <2> QED BY <2>1 DEF Byte
<1>2. InOrder(s, p, lo, hi + 1)
  BY <1>1 DEF InOrder, Within
<1>3. InOrder(t, p, lo, hi + 1)
  BY DEF InOrder, Within, Rising
<1>4. Below(s, t, p)
  BY <1>1 DEF Below, InOrder, Within
<1> QED BY <1>2, <1>3, <1>4, OrderJoins

(* What is left when bytes were taken from the front.                      *)
LEMMA OrderAfter ==
    ASSUME NEW s \in Buffer, NEW t \in Buffer, NEW p, NEW lo, NEW hi, InOrder(s \o t, p, lo, hi),
           NEW m, m = lo \/ \E i \in 1 .. Len(s) : s[i].peer = p /\ s[i].at = m
    PROVE  InOrder(t, p, m, hi) /\ (m = lo \/ m <= hi)
<1>1. InOrder(s, p, lo, hi) /\ InOrder(t, p, lo, hi) /\ Below(s, t, p)
  BY OrderJoins
<1>2. CASE m = lo
  BY <1>1, <1>2
<1>3. CASE m # lo
  <2>1. PICK i \in 1 .. Len(s) : s[i].peer = p /\ s[i].at = m
    BY <1>3
  <2> QED BY <1>1, <2>1 DEF InOrder, Within, Below
<1> QED BY <1>2, <1>3

LEMMA OwnParts ==
    ASSUME NEW s \in Buffer, NEW t \in Buffer, NEW p
    PROVE  Own(s \o t, p) <=> Own(s, p) /\ Own(t, p)
<1>1. /\ Len(s \o t) = Len(s) + Len(t) /\ Len(s) \in Nat /\ Len(t) \in Nat
      /\ \A i \in 1 .. Len(s) : (s \o t)[i] = s[i]
      /\ \A i \in 1 .. Len(t) : (s \o t)[Len(s) + i] = t[i]
      /\ \A i \in 1 .. Len(s) + Len(t) : i \in 1 .. Len(s) \/ \E k \in 1 .. Len(t) : i = Len(s) + k
  BY Joined
<1>2. \A i \in 1 .. Len(s) : i \in 1 .. Len(s) + Len(t)
  BY <1>1
<1>3. \A i \in 1 .. Len(t) : Len(s) + i \in 1 .. Len(s) + Len(t)
  BY <1>1
<1>4. Own(s \o t, p) => Own(s, p)
  BY <1>1, <1>2 DEF Own
<1>5. Own(s \o t, p) => Own(t, p)
  BY <1>1, <1>3 DEF Own
<1>6. Own(s, p) /\ Own(t, p) => Own(s \o t, p)
  BY <1>1 DEF Own
<1> QED BY <1>4, <1>5, <1>6

-----------------------------------------------------------------------------
(* What Append does to the lines in the queue.                             *)

(* Bytes are dropped from the front of the queue, twice at most, and every *)
(* time is counted.                                                        *)
LEMMA DropsCounted ==
    ASSUME queue \in Buffer, drops \in Nat, NEW data \in Buffer, NEW newline \in Buffer, Enqueue(data, newline)
    PROVE  \E a, b, x, y \in Buffer : \E j, k \in {0, 1} :
             /\ queue = a \o b /\ b \o data = x \o y /\ queue' = y \o newline
             /\ drops' = drops + j + k
             /\ j = 0 => a = <<>>
             /\ k = 0 => x = <<>>
             /\ newline = <<>> => k = 0
<1> DEFINE d1 == DropCount(queue, Len(data))
           once == Appended(queue, data)
           d2 == DropCount(once, Len(newline))
           C == {i \in 1 .. 2 : << d1, d2 >>[i] > 0}
<1>1. queue' = Appended(once, newline) /\ drops' = drops + Cardinality(C)
  BY DEF Enqueue
<1>2. queue \in Seq(Byte) /\ data \in Seq(Byte) /\ newline \in Seq(Byte) /\ Len(data) \in Nat /\ Len(newline) \in Nat
  BY DEF Buffer
<1>3. d1 \in 0 .. Len(queue)
  BY <1>2, Dropped
<1>4. once \in Seq(Byte) /\ once \in Buffer
  BY <1>2, AppendedIs DEF Buffer
<1>5. once = SubSeq(queue, d1 + 1, Len(queue)) \o data /\ queue' = SubSeq(once, d2 + 1, Len(once)) \o newline
  BY <1>1 DEF Appended
<1>6. d2 \in 0 .. Len(once) /\ (Len(newline) = 0 => d2 = 0)
  <2> HIDE DEF once
  <2> QED BY <1>2, <1>4, Dropped
<1> HIDE DEF d1, once, d2
<1>7. PICK a, b \in Buffer : a = SubSeq(queue, 1, d1) /\ b = SubSeq(queue, d1 + 1, Len(queue)) /\ Len(a) = d1 /\ queue = a \o b
  <2>1. /\ SubSeq(queue, 1, d1) \in Buffer /\ SubSeq(queue, d1 + 1, Len(queue)) \in Buffer
        /\ Len(SubSeq(queue, 1, d1)) = d1
        /\ queue = SubSeq(queue, 1, d1) \o SubSeq(queue, d1 + 1, Len(queue))
    BY <1>3, Parted
  <2> QED BY Zenon, <2>1
<1>8. PICK x, y \in Buffer : x = SubSeq(once, 1, d2) /\ y = SubSeq(once, d2 + 1, Len(once)) /\ Len(x) = d2 /\ once = x \o y
  <2>1. /\ SubSeq(once, 1, d2) \in Buffer /\ SubSeq(once, d2 + 1, Len(once)) \in Buffer
        /\ Len(SubSeq(once, 1, d2)) = d2
        /\ once = SubSeq(once, 1, d2) \o SubSeq(once, d2 + 1, Len(once))
    BY <1>4, <1>6, Parted
  <2> QED BY Zenon, <2>1
<1>9. PICK j, k \in {0, 1} : j = (IF d1 > 0 THEN 1 ELSE 0) /\ k = (IF d2 > 0 THEN 1 ELSE 0)
  OBVIOUS
<1>10. d1 \in Nat /\ d2 \in Nat
  BY <1>2, <1>3, <1>4, <1>6
<1>11. Cardinality(C) = j + k
  <2>1. << d1, d2 >>[1] = d1 /\ << d1, d2 >>[2] = d2
    OBVIOUS
  <2>2. C = (IF j = 1 THEN {1} ELSE {}) \cup (IF k = 1 THEN {2} ELSE {})
    BY <1>9, <1>10, <2>1
  <2>3. C = {} \/ C = {1} \/ C = {2} \/ C = {1} \cup {2}
    BY <2>2
  <2>4. Cardinality({}) = 0 /\ Cardinality({1}) = 1 /\ Cardinality({2}) = 1
    BY FS_EmptySet, FS_Singleton
  <2>5. Cardinality({1} \cup {2}) = 2
    <3>1. IsFiniteSet({1})
      BY FS_Singleton
    <3>2. 2 \notin {1}
      OBVIOUS
    <3>3. Cardinality({1} \cup {2}) = Cardinality({1}) + 1
      BY <3>1, <3>2, FS_AddElement
    <3> QED BY <2>4, <3>3
  <2> HIDE DEF C
  <2>6. CASE j = 0 /\ k = 0
    <3>1. C = {}
      BY <2>2, <2>6
    <3> QED BY <2>4, <2>6, <3>1
  <2>7. CASE j = 1 /\ k = 0
    <3>1. C = {1}
      BY <2>2, <2>7
    <3> QED BY <2>4, <2>7, <3>1
  <2>8. CASE j = 0 /\ k = 1
    <3>1. C = {2}
      BY <2>2, <2>8
    <3> QED BY <2>4, <2>8, <3>1
  <2>9. CASE j = 1 /\ k = 1
    <3>1. C = {1} \cup {2}
      BY <2>2, <2>9
    <3> QED BY <2>5, <2>9, <3>1
  <2> QED BY <1>9, <2>6, <2>7, <2>8, <2>9
<1>12. drops' = drops + j + k
  BY <1>1, <1>9, <1>11
<1>13. (j = 0 => a = <<>>) /\ (k = 0 => x = <<>>) /\ (newline = <<>> => k = 0)
  <2>1. (j = 0 => Len(a) = 0) /\ (k = 0 => Len(x) = 0)
    BY <1>7, <1>8, <1>9, <1>10
  <2>2. newline = <<>> => Len(newline) = 0
    OBVIOUS
  <2>3. \A u \in Buffer : Len(u) = 0 => u = <<>>
    BY EmptySeq DEF Buffer
  <2>4. (j = 0 => a = <<>>) /\ (k = 0 => x = <<>>)
    BY <2>1, <2>3
  <2>5. newline = <<>> => k = 0
    BY <1>6, <1>9, <2>2
  <2> QED BY <2>4, <2>5
<1>14. b \o data = x \o y /\ queue' = y \o newline
  BY <1>5, <1>7, <1>8
<1> QED BY <1>7, <1>8, <1>9, <1>12, <1>13, <1>14

(* A payload adds the seams it has; every drop leaves one more, at most.   *)
LEMMA SeamsEnqueued ==
    ASSUME queue \in Buffer, drops \in Nat, NEW data \in Buffer, NEW newline \in Buffer, Enqueue(data, newline)
    PROVE  /\ drops' \in Nat /\ drops <= drops' /\ queue' \in Buffer
           /\ \A c, t \in Buffer :
                 SeamCount((c \o queue') \o t) + drops
                   <= SeamCount((c \o queue) \o (data \o (newline \o t))) + drops'
<1>1. \E a, b, x, y \in Buffer : \E j, k \in {0, 1} :
         /\ queue = a \o b /\ b \o data = x \o y /\ queue' = y \o newline
         /\ drops' = drops + j + k
         /\ j = 0 => a = <<>>
         /\ k = 0 => x = <<>>
         /\ newline = <<>> => k = 0
  BY DropsCounted
<1>2. PICK a, b, x, y \in Buffer : \E j, k \in {0, 1} :
         /\ queue = a \o b /\ b \o data = x \o y /\ queue' = y \o newline
         /\ drops' = drops + j + k
         /\ j = 0 => a = <<>>
         /\ k = 0 => x = <<>>
         /\ newline = <<>> => k = 0
  BY <1>1
<1>3. PICK j, k \in {0, 1} : drops' = drops + j + k /\ (j = 0 => a = <<>>) /\ (k = 0 => x = <<>>)
  BY <1>2
<1>4. drops' \in Nat /\ drops <= drops'
  BY <1>3
<1>5. queue' \in Buffer
  BY <1>2, Joined
<1> SUFFICES ASSUME NEW c \in Buffer, NEW t \in Buffer
             PROVE  SeamCount((c \o queue') \o t) + drops
                      <= SeamCount((c \o queue) \o (data \o (newline \o t))) + drops'
  BY <1>4, <1>5
<1>6. PICK n \in Buffer : n = Cat(newline, t)
  BY Regroup
<1>7. PICK z1, z2 \in Buffer : z1 = Cat(b, Cat(data, n)) /\ z2 = Cat(y, n)
  BY Regroup
<1>8. z1 = Cat(x, z2)
  <2>1. z1 = Cat(Cat(b, data), n)
    BY <1>7, Regroup
  <2>2. Cat(Cat(x, y), n) = Cat(x, Cat(y, n))
    BY Regroup
  <2> QED BY <1>2, <1>7, <2>1, <2>2 DEF Cat
<1>9. Cat(Cat(c, Cat(a, b)), Cat(data, n)) = Cat(c, Cat(a, z1))
  <2>1. PICK d \in Buffer : d = Cat(data, n)
    BY Regroup
  <2>2. Cat(Cat(c, Cat(a, b)), d) = Cat(c, Cat(Cat(a, b), d))
    BY Regroup
  <2>3. Cat(Cat(a, b), d) = Cat(a, Cat(b, d))
    BY Regroup
  <2> QED BY <1>7, <2>1, <2>2, <2>3
<1>10. Cat(Cat(c, Cat(y, newline)), t) = Cat(c, z2)
  <2>1. PICK q \in Buffer : q = Cat(y, newline)
    BY Regroup
  <2>2. Cat(Cat(c, q), t) = Cat(c, Cat(q, t))
    BY Regroup
  <2>3. Cat(q, t) = z2
    BY <1>6, <1>7, <2>1, Regroup
  <2> QED BY <2>1, <2>2, <2>3
<1>11. SeamCount(Cat(c, z1)) <= SeamCount(Cat(c, Cat(a, z1))) + j
  <2>1. CASE j = 0
    <3>1. Cat(a, z1) = z1
      BY <1>3, <2>1, NothingJoined DEF Cat
    <3>2. SeamCount(Cat(c, z1)) \in Nat
      BY Regroup, SeamsFinite
    <3> QED BY <2>1, <3>1, <3>2
  <2>2. CASE j = 1
    BY <2>2, SeamsThinned DEF Cat
  <2> QED BY <2>1, <2>2
<1>12. SeamCount(Cat(c, z2)) <= SeamCount(Cat(c, Cat(x, z2))) + k
  <2>1. CASE k = 0
    <3>1. Cat(x, z2) = z2
      BY <1>3, <2>1, NothingJoined DEF Cat
    <3>2. SeamCount(Cat(c, z2)) \in Nat
      BY Regroup, SeamsFinite
    <3> QED BY <2>1, <3>1, <3>2
  <2>2. CASE k = 1
    BY <2>2, SeamsThinned DEF Cat
  <2> QED BY <2>1, <2>2
<1>13. /\ SeamCount(Cat(c, z2)) \in Nat /\ SeamCount(Cat(c, z1)) \in Nat
       /\ SeamCount(Cat(c, Cat(a, z1))) \in Nat
  <2>1. Cat(c, z2) \in Buffer /\ Cat(c, z1) \in Buffer /\ Cat(a, z1) \in Buffer
    BY Regroup
  <2>2. Cat(c, Cat(a, z1)) \in Buffer
    BY <2>1, Regroup
  <2> QED BY <2>1, <2>2, SeamsFinite
<1>14. SeamCount(Cat(c, z2)) + drops <= SeamCount(Cat(c, Cat(a, z1))) + drops'
  BY <1>3, <1>8, <1>11, <1>12, <1>13
<1> QED BY <1>2, <1>6, <1>9, <1>10, <1>14 DEF Cat

LEMMA QueueGrows ==
    ASSUME queue \in Buffer, drops \in Nat, NEW data \in Buffer, Enqueue(data, <<>>)
    PROVE  \E a, b \in Buffer : queue = a \o b /\ queue' = b \o data
<1>1. <<>> \in Buffer
  BY NothingJoined
<1>2. PICK a, b, x, y \in Buffer : \E j, k \in {0, 1} :
         /\ queue = a \o b /\ b \o data = x \o y /\ queue' = y \o <<>>
         /\ drops' = drops + j + k
         /\ j = 0 => a = <<>>
         /\ k = 0 => x = <<>>
         /\ <<>> = <<>> => k = 0
  BY <1>1, DropsCounted
<1>3. x \o y = y /\ y \o <<>> = y
  BY <1>2, NothingJoined
<1> QED BY <1>2, <1>3

(* The queue ends with what was appended to it.                            *)
LEMMA QueueEnds ==
    ASSUME queue \in Buffer, drops \in Nat, NEW data \in Buffer, NEW newline \in Buffer, Enqueue(data, newline),
           data # <<>>
    PROVE  /\ queue' # <<>>
           /\ newline = <<>> => queue'[Len(queue')] = data[Len(data)]
           /\ newline # <<>> => queue'[Len(queue')] = newline[Len(newline)]
<1>1. CASE newline = <<>>
  <2>1. PICK a, b \in Buffer : queue' = b \o data
    BY <1>1, QueueGrows
  <2> QED BY <1>1, <2>1, LastJoined
<1>2. CASE newline # <<>>
  <2>1. PICK y \in Buffer : queue' = y \o newline
    BY DropsCounted
  <2> QED BY <1>2, <2>1, LastJoined
<1> QED BY <1>1, <1>2

-----------------------------------------------------------------------------
(* Lines stay whole: the invariant.                                        *)

(* What the parse loop is still to see of stdin is a stream to its end; of *)
(* a server, what the sessions and the datagrams handed over.              *)
Incoming == IF kind = "stdin" THEN wire[1] ELSE <<>>
Flow == (carry \o queue) \o Incoming

(* Every seam that was, or that will be, parsed is paid for by a drop.     *)
SeamsCounted ==
    /\ torn <= drops
    /\ loop # "end" =>
          /\ torn + SeamCount(Flow) <= drops
          /\ kind = "stdin" => GoesOn(Flow, 1, sent[1], midLine[1])
          /\ kind # "stdin" => EndsLine(Flow)

Bound(p) == sessionCarry[p] \o wire[p]

(* A buffer without a newline.                                             *)
Lineless(s) == \A i \in 1 .. Len(s) : ~s[i].nl

(* A session holds the beginning of a line, and its client goes on.        *)
SessionWhole(p) ==
    /\ link[p] = "open" => p \in clients
    /\ link[p] \in {"none", "backlog"} => wire[p] = <<>> /\ sessionCarry[p] = <<>> /\ ~midLine[p]
    /\ p \in clients => SeamCount(Bound(p)) = 0 /\ GoesOn(Bound(p), p, sent[p], midLine[p])
    /\ Lineless(sessionCarry[p])

SessionsWhole == kind = "tcp" => \A p \in Peers : SessionWhole(p)

DatagramsWhole ==
    kind = "udp" => \A p \in Peers : \A i \in 1 .. Len(wire[p]) : wire[p][i] # <<>> /\ SeamCount(wire[p][i]) = 0

(* A peer's bytes, from the buffer of the parse loop to the peer.          *)
Stream(p) == ((carry \o queue) \o sessionCarry[p]) \o wire[p]

StreamRises(p) ==
    /\ Own(sessionCarry[p], p) /\ Own(wire[p], p)
    /\ kind = "stdin" => sessionCarry[p] = <<>>
    /\ last[p] <= sent[p]
    /\ InOrder(Stream(p), p, last[p], sent[p])

StreamsRise == kind # "udp" => \A p \in Peers : StreamRises(p)

WholeInv == SeamsCounted /\ SessionsWhole /\ DatagramsWhole /\ StreamsRise

LEMMA Buffers ==
    ASSUME LinesTypeOK
    PROVE  /\ carry \in Buffer /\ queue \in Buffer /\ drops \in Nat /\ torn \in Nat
           /\ sessionCarry \in [Peers -> Buffer] /\ last \in [Peers -> Nat] /\ sent \in [Peers -> Nat]
           /\ midLine \in [Peers -> BOOLEAN] /\ link \in [Peers -> {"none", "backlog", "open", "refused", "ended"}]
           /\ clients \subseteq Peers
           /\ kind # "udp" => wire \in [Peers -> Buffer]
           /\ kind = "udp" => wire \in [Peers -> Seq(Buffer)]
           /\ Incoming \in Buffer /\ carry \o queue \in Buffer /\ Flow \in Buffer
<1>1. /\ carry \in Buffer /\ queue \in Buffer /\ drops \in Nat /\ torn \in Nat
      /\ sessionCarry \in [Peers -> Buffer] /\ last \in [Peers -> Nat]
      /\ midLine \in [Peers -> BOOLEAN] /\ link \in [Peers -> {"none", "backlog", "open", "refused", "ended"}]
      /\ clients \subseteq Peers
  BY DEF LinesTypeOK, Buffer
<1>2. sent \in [Peers -> Nat]
  BY ProducersAssumption DEF LinesTypeOK
<1>3. (kind # "udp" => wire \in [Peers -> Buffer]) /\ (kind = "udp" => wire \in [Peers -> Seq(Buffer)])
  BY DEF LinesTypeOK, Buffer
<1>4. Incoming \in Buffer
  <2>1. <<>> \in Buffer
    BY EmptySeq DEF Buffer
  <2>2. kind = "stdin" => wire[1] \in Buffer
    BY <1>3, ProducersAssumption
  <2> QED BY <2>1, <2>2 DEF Incoming
<1>5. carry \o queue \in Buffer
  BY <1>1, Joined
<1>6. Flow \in Buffer
  BY <1>4, <1>5, Joined DEF Flow
<1> QED BY <1>1, <1>2, <1>3, <1>4, <1>5, <1>6

LEMMA WholeInit == LinesInit => WholeInv
<1> SUFFICES ASSUME LinesInit PROVE WholeInv
  OBVIOUS
<1>0. \A p \in Peers : /\ wire[p] = <<>> /\ sent[p] = 0 /\ midLine[p] = FALSE /\ link[p] = "none"
                       /\ sessionCarry[p] = <<>> /\ last[p] = 0
  BY DEF LinesInit
<1>1. carry = <<>> /\ queue = <<>> /\ torn = 0 /\ drops = 0 /\ clients = {}
  BY DEF LinesInit
<1>2. <<>> \in Buffer /\ <<>> \o <<>> = <<>> /\ SeamCount(<<>>) = 0 /\ Len(<<>>) = 0
  <2>1. <<>> \in Buffer
    BY EmptySeq DEF Buffer
  <2>2. <<>> \o <<>> = <<>> /\ SeamCount(<<>>) = 0
    BY <2>1, NothingJoined
  <2>3. Len(<<>>) = 0
    OBVIOUS
  <2> QED BY <2>1, <2>2, <2>3
<1>3. Flow = <<>>
  BY <1>0, <1>1, <1>2, ProducersAssumption DEF Flow, Incoming
<1>4. SeamsCounted
  BY <1>0, <1>1, <1>2, <1>3, ProducersAssumption DEF SeamsCounted, GoesOn, EndsLine
<1>5. SessionsWhole
  BY <1>0, <1>1, <1>2 DEF SessionsWhole, SessionWhole, Lineless
<1>6. DatagramsWhole
  BY <1>0, <1>2 DEF DatagramsWhole
<1>7. StreamsRise
  <2> SUFFICES ASSUME NEW p \in Peers PROVE StreamRises(p)
    BY DEF StreamsRise
  <2>1. Stream(p) = <<>>
    BY <1>0, <1>1, <1>2 DEF Stream
  <2>2. InOrder(<<>>, p, 0, 0) /\ Own(<<>>, p)
    BY <1>2 DEF InOrder, Rising, Within, Own
  <2> QED BY <1>0, <2>1, <2>2 DEF StreamRises
<1> QED BY <1>4, <1>5, <1>6, <1>7 DEF WholeInv

(* The parts of the invariant a step leaves alone.                         *)
LEMMA SeamsUntouched ==
    ASSUME SeamsCounted, UNCHANGED <<kind, carry, queue, torn, drops>>, loop' # "end" => loop # "end",
           kind = "stdin" => UNCHANGED <<wire, sent, midLine>>
    PROVE  SeamsCounted'
<1>1. Flow' = Flow
  BY DEF Flow, Incoming
<1> QED BY <1>1 DEF SeamsCounted

LEMMA SessionUntouched ==
    ASSUME NEW p \in Peers, SessionWhole(p), wire'[p] = wire[p], sessionCarry'[p] = sessionCarry[p],
           sent'[p] = sent[p], midLine'[p] = midLine[p], link'[p] = link[p], p \in clients' <=> p \in clients
    PROVE  SessionWhole(p)'
BY DEF SessionWhole, Bound

LEMMA StreamUntouched ==
    ASSUME NEW p \in Peers, StreamRises(p), UNCHANGED <<kind, carry, queue>>, wire'[p] = wire[p],
           sessionCarry'[p] = sessionCarry[p], sent'[p] = sent[p], last'[p] = last[p]
    PROVE  StreamRises(p)'
BY DEF StreamRises, Stream

(* A step that moves no byte and opens no session.                         *)
LEMMA NothingMoved ==
    ASSUME WholeInv, loop' # "end" => loop # "end",
           UNCHANGED <<kind, wire, sent, midLine, link, clients, sessionCarry, queue, carry, last, torn, drops>>
    PROVE  WholeInv'
<1>1. SeamsCounted'
  BY SeamsUntouched DEF WholeInv
<1>2. SessionsWhole'
  BY SessionUntouched DEF WholeInv, SessionsWhole
<1>3. DatagramsWhole'
  BY DEF WholeInv, DatagramsWhole
<1>4. StreamsRise'
  BY StreamUntouched DEF WholeInv, StreamsRise
<1> QED BY <1>1, <1>2, <1>3, <1>4 DEF WholeInv

-----------------------------------------------------------------------------
(* Lines stay whole: the steps of the peers.                               *)

(* A peer goes on with its line, or begins one.                            *)
LEMMA SendWhole ==
    ASSUME QueueInv, WholeInv, NEW p \in Peers, Send(p) PROVE WholeInv'
<1>1. UNCHANGED <<kind, link, clients, sessionCarry, queue, loop, carry, last, drops, torn>>
  BY DEF Send, configVars, sessionVars, byteQueueVars, stopVars, loopVars
<1> DEFINE made(n, nls) == [i \in 1 .. n |-> [peer |-> p, at |-> sent[p] + i,
                               first |-> IF i = 1 THEN kind = "udp" \/ ~midLine[p] ELSE nls[i - 1], nl |-> nls[i]]]
<1>2. PICK n \in 1 .. Least(IF kind = "udp" THEN MaxBytes ELSE 1, MaxBytes - SumSent) : \E nls \in [1 .. n -> BOOLEAN] :
          /\ wire' = [wire EXCEPT ![p] = IF kind = "udp" THEN Append(@, made(n, nls)) ELSE @ \o made(n, nls)]
          /\ sent' = [sent EXCEPT ![p] = @ + n]
          /\ midLine' = [midLine EXCEPT ![p] = ~nls[n]]
  BY DEF Send
<1>3. PICK nls \in [1 .. n -> BOOLEAN] :
          /\ wire' = [wire EXCEPT ![p] = IF kind = "udp" THEN Append(@, made(n, nls)) ELSE @ \o made(n, nls)]
          /\ sent' = [sent EXCEPT ![p] = @ + n]
          /\ midLine' = [midLine EXCEPT ![p] = ~nls[n]]
  BY <1>2
<1>4. PICK bytes : bytes = made(n, nls)
  OBVIOUS
<1>5. /\ carry \in Buffer /\ queue \in Buffer /\ drops \in Nat /\ torn \in Nat
      /\ sessionCarry \in [Peers -> Buffer] /\ last \in [Peers -> Nat] /\ sent \in [Peers -> Nat]
      /\ midLine \in [Peers -> BOOLEAN]
      /\ kind # "udp" => wire \in [Peers -> Buffer]
      /\ kind = "udp" => wire \in [Peers -> Seq(Buffer)]
      /\ carry \o queue \in Buffer
  BY Buffers DEF QueueInv
<1>6. n \in Nat /\ n >= 1 /\ (kind # "udp" => n = 1)
  <2>1. SumSent \in Nat /\ MaxBytes \in Nat
    <3>1. sent \in [Peers -> Nat] /\ MaxBytes \in Nat
      BY <1>5, ProducersAssumption
    <3> QED BY <3>1, SumSentBound
  <2> QED BY <2>1 DEF Least
<1>7. \A i \in 1 .. n : bytes[i] = [peer |-> p, at |-> sent[p] + i,
          first |-> IF i = 1 THEN kind = "udp" \/ ~midLine[p] ELSE nls[i - 1], nl |-> nls[i]]
  BY <1>4
<1>8. bytes \in Buffer /\ Len(bytes) = n
  <2>1. ASSUME NEW i \in 1 .. n
        PROVE  [peer |-> p, at |-> sent[p] + i,
                first |-> IF i = 1 THEN kind = "udp" \/ ~midLine[p] ELSE nls[i - 1], nl |-> nls[i]] \in Byte
    <3>1. sent[p] + i \in Nat /\ nls[i] \in BOOLEAN
      BY <1>5, <1>6
    <3>2. (IF i = 1 THEN kind = "udp" \/ ~midLine[p] ELSE nls[i - 1]) \in BOOLEAN
      <4>1. CASE i = 1
        BY <1>5, <4>1
      <4>2. CASE i # 1
        <5>1. i - 1 \in 1 .. n
          BY <1>6, <4>2
        <5> QED BY <4>2, <5>1
      <4> QED BY <4>1, <4>2
    <3> QED BY <3>1, <3>2 DEF Byte
  <2>2. bytes \in [1 .. n -> Byte]
    BY <1>4, <2>1
  <2> QED BY <1>6, <2>2 DEF Buffer
<1>9. \A q \in Peers : q # p => wire'[q] = wire[q] /\ sent'[q] = sent[q] /\ midLine'[q] = midLine[q]
  BY <1>3, <1>5
<1>10. sent'[p] = sent[p] + n /\ midLine'[p] = ~nls[n]
  BY <1>3, <1>5
<1>11. CASE kind = "udp"
  <2>1. wire'[p] = Append(wire[p], bytes)
    BY <1>3, <1>4, <1>5, <1>11
  <2>2. bytes # <<>> /\ SeamCount(bytes) = 0
    <3>1. ASSUME NEW i \in 1 .. n PROVE Fits(bytes, i)
      <4>0. ASSUME NEW k \in 1 .. n
            PROVE  /\ bytes[k].peer = p /\ bytes[k].at = sent[p] + k /\ bytes[k].nl = nls[k]
                   /\ bytes[k].first = IF k = 1 THEN kind = "udp" \/ ~midLine[p] ELSE nls[k - 1]
        <5>1. PICK f : f = IF k = 1 THEN kind = "udp" \/ ~midLine[p] ELSE nls[k - 1]
          OBVIOUS
        <5>2. bytes[k] = [peer |-> p, at |-> sent[p] + k, first |-> f, nl |-> nls[k]]
          BY <1>7, <5>1
        <5> QED BY <5>1, <5>2
      <4>1. CASE i = 1
        <5>1. bytes[i].first = (kind = "udp" \/ ~midLine[p])
          BY <4>0, <4>1
        <5> QED BY <1>11, <4>1, <5>1 DEF Fits
      <4>2. CASE i # 1
        <5>1. i - 1 \in 1 .. n /\ i - 1 + 1 = i
          BY <1>6, <4>2
        <5>2. /\ bytes[i].peer = p /\ bytes[i].at = sent[p] + i /\ bytes[i].first = nls[i - 1]
              /\ bytes[i - 1].peer = p /\ bytes[i - 1].at = sent[p] + (i - 1) /\ bytes[i - 1].nl = nls[i - 1]
          BY <4>0, <4>2, <5>1
        <5>3. sent[p] + i = sent[p] + (i - 1) + 1 /\ nls[i - 1] \in BOOLEAN
          BY <1>5, <1>6, <5>1
        <5> QED BY <4>2, <5>2, <5>3 DEF Fits
      <4> QED BY <4>1, <4>2
    <3>2. Seams(bytes) = {}
      BY <1>8, <3>1 DEF Seams
    <3>3. Len(<<>>) = 0
      OBVIOUS
    <3> QED BY <1>6, <1>8, <3>2, <3>3, Seamless
  <2>3. DatagramsWhole'
    <3> SUFFICES ASSUME NEW q \in Peers, NEW i \in 1 .. Len(wire'[q])
                 PROVE  wire'[q][i] # <<>> /\ SeamCount(wire'[q][i]) = 0
      BY DEF DatagramsWhole
    <3>1. CASE q # p
      BY <1>9, <1>11, <3>1 DEF WholeInv, DatagramsWhole
    <3>2. CASE q = p
      <4>1. wire[p] \in Seq(Buffer)
        BY <1>5, <1>11
      <4>2. (i \in 1 .. Len(wire[p]) /\ wire'[q][i] = wire[p][i]) \/ wire'[q][i] = bytes
        BY <1>8, <2>1, <3>2, <4>1
      <4> QED BY <1>11, <2>2, <4>2 DEF WholeInv, DatagramsWhole
    <3> QED BY <3>1, <3>2
  <2>4. SeamsCounted'
    BY <1>1, <1>11, SeamsUntouched DEF WholeInv
  <2> QED BY <1>1, <1>11, <2>3, <2>4 DEF WholeInv, SessionsWhole, StreamsRise
<1>12. CASE kind # "udp"
  <2>1. /\ n = 1 /\ wire'[p] = wire[p] \o bytes /\ wire[p] \in Buffer /\ sessionCarry[p] \in Buffer
        /\ wire \in [Peers -> Buffer]
    BY <1>3, <1>4, <1>5, <1>6, <1>12
  <2>2. /\ Len(bytes) = 1 /\ bytes[1].peer = p /\ bytes[1].at = sent[p] + 1
        /\ bytes[1].first = ~midLine[p] /\ bytes[1].nl = nls[1]
    BY <1>7, <1>8, <1>12, <2>1
  <2>3. sent'[p] = sent[p] + 1 /\ midLine'[p] = ~bytes[1].nl /\ sent[p] \in Nat /\ midLine[p] \in BOOLEAN
    BY <1>5, <1>10, <2>1, <2>2
  <2>4. ASSUME NEW s \in Buffer, GoesOn(s \o wire[p], p, sent[p], midLine[p])
        PROVE  SeamCount(s \o wire'[p]) = SeamCount(s \o wire[p]) /\ GoesOn(s \o wire'[p], p, sent'[p], midLine'[p])
    <3>1. PICK u \in Buffer : u = s \o wire[p]
      BY <2>1, Joined
    <3>2. s \o wire'[p] = u \o bytes
      <4>1. Cat(Cat(s, wire[p]), bytes) = Cat(s, Cat(wire[p], bytes))
        BY <1>8, <2>1, Regroup
      <4> QED BY <2>1, <3>1, <4>1 DEF Cat
    <3>3. SeamCount(u \o bytes) = SeamCount(u) /\ GoesOn(u \o bytes, p, sent[p] + 1, ~bytes[1].nl)
      BY <1>8, <2>2, <2>3, <2>4, <3>1, SentOn
    <3> QED BY <2>3, <3>1, <3>2, <3>3
  <2>5. SeamsCounted'
    <3>1. CASE kind # "stdin"
      BY <1>1, <3>1, SeamsUntouched DEF WholeInv
    <3>2. CASE kind = "stdin"
      <4>1. p = 1
        BY <3>2 DEF Send, Senders
      <4>2. Flow = (carry \o queue) \o wire[p] /\ Flow' = (carry \o queue) \o wire'[p]
        BY <1>1, <3>2, <4>1 DEF Flow, Incoming
      <4>3. loop # "end" => SeamCount(Flow') = SeamCount(Flow) /\ GoesOn(Flow', p, sent'[p], midLine'[p])
        BY <1>5, <2>4, <3>2, <4>1, <4>2 DEF WholeInv, SeamsCounted
      <4> QED BY <1>1, <3>2, <4>1, <4>3 DEF WholeInv, SeamsCounted
    <3> QED BY <3>1, <3>2
  <2>6. SessionsWhole'
    <3> SUFFICES ASSUME kind = "tcp", NEW q \in Peers PROVE SessionWhole(q)'
      BY <1>1 DEF SessionsWhole
    <3>0. SessionWhole(q)
      BY DEF WholeInv, SessionsWhole
    <3>1. CASE q # p
      BY <1>1, <1>9, <3>0, <3>1, SessionUntouched
    <3>2. CASE q = p
      <4>1. link[p] = "open"
        BY DEF Send
      <4>2. SeamCount(Bound(p)) = 0 /\ GoesOn(Bound(p), p, sent[p], midLine[p])
        BY <3>0, <3>2, <4>1 DEF SessionWhole
      <4>3. SeamCount(Bound(p)') = 0 /\ GoesOn(Bound(p)', p, sent'[p], midLine'[p])
        BY <1>1, <2>1, <2>4, <4>2 DEF Bound
      <4> QED BY <1>1, <3>0, <3>2, <4>1, <4>3 DEF SessionWhole
    <3> QED BY <3>1, <3>2
  <2>7. StreamsRise'
    <3> SUFFICES ASSUME NEW q \in Peers PROVE StreamRises(q)'
      BY DEF StreamsRise
    <3>0. StreamRises(q)
      BY <1>12 DEF WholeInv, StreamsRise
    <3>1. CASE q # p
      BY <1>1, <1>9, <3>0, <3>1, StreamUntouched
    <3>2. CASE q = p
      <4>1. Own(wire'[p], p)
        <5>1. Own(bytes, p)
          BY <2>2 DEF Own
        <5> QED BY <1>8, <2>1, <3>0, <3>2, <5>1, OwnParts DEF StreamRises
      <4>2. PICK u \in Buffer : u = (carry \o queue) \o sessionCarry[p]
        BY <1>5, <2>1, Joined
      <4>3. Stream(p) = u \o wire[p] /\ u \o wire[p] \in Buffer
        BY <2>1, <4>2, Joined DEF Stream
      <4>4. Stream(p)' = (u \o wire[p]) \o bytes
        <5>1. Cat(Cat(u, wire[p]), bytes) = Cat(u, Cat(wire[p], bytes))
          BY <1>8, <2>1, Regroup
        <5> QED BY <1>1, <2>1, <4>2, <5>1 DEF Cat, Stream
      <4>5. last[p] \in Nat /\ last[p] <= sent[p] /\ InOrder(u \o wire[p], p, last[p], sent[p])
        BY <1>5, <3>0, <3>2, <4>3 DEF StreamRises
      <4>6. InOrder((u \o wire[p]) \o bytes, p, last[p], sent[p] + 1)
        BY <1>8, <2>2, <2>3, <4>3, <4>5, OneMore
      <4>7. last'[p] <= sent'[p]
        BY <1>1, <2>3, <4>5
      <4> QED BY <1>1, <2>3, <3>0, <3>2, <4>1, <4>4, <4>6, <4>7 DEF StreamRises
    <3> QED BY <3>1, <3>2
  <2>8. DatagramsWhole'
    BY <1>1, <1>12 DEF DatagramsWhole
  <2> QED BY <2>5, <2>6, <2>7, <2>8 DEF WholeInv
<1> QED BY <1>11, <1>12

LEMMA ConnectWhole ==
    ASSUME QueueInv, WholeInv, NEW p \in Peers, Connect(p) PROVE WholeInv'
<1>1. UNCHANGED <<kind, wire, sent, midLine, clients, sessionCarry, queue, loop, carry, last, drops, torn>>
      /\ link' = [link EXCEPT ![p] = "backlog"] /\ link[p] = "none" /\ kind = "tcp"
  BY DEF Connect, configVars, sessionVars, byteQueueVars, stopVars, loopVars
<1>2. link \in [Peers -> {"none", "backlog", "open", "refused", "ended"}]
  BY Buffers DEF QueueInv
<1>3. SeamsCounted'
  BY <1>1, SeamsUntouched DEF WholeInv
<1>4. SessionsWhole'
  <2> SUFFICES ASSUME NEW q \in Peers PROVE SessionWhole(q)'
    BY DEF SessionsWhole
  <2>1. SessionWhole(q)
    BY <1>1 DEF WholeInv, SessionsWhole
  <2>2. CASE q # p
    BY <1>1, <1>2, <2>1, <2>2, SessionUntouched
  <2>3. CASE q = p
    BY <1>1, <1>2, <2>1, <2>3 DEF SessionWhole, Bound
  <2> QED BY <2>2, <2>3
<1>5. StreamsRise'
  BY <1>1, StreamUntouched DEF WholeInv, StreamsRise
<1>6. DatagramsWhole'
  BY <1>1 DEF DatagramsWhole
<1> QED BY <1>3, <1>4, <1>5, <1>6 DEF WholeInv

LEMMA HangUpWhole ==
    ASSUME WholeInv, NEW p \in Peers, HangUp(p) PROVE WholeInv'
<1>1. UNCHANGED <<kind, wire, sent, midLine, link, clients, sessionCarry, queue, loop, carry, last, drops, torn>>
  BY DEF HangUp, configVars, sessionVars, byteQueueVars, stopVars, loopVars
<1> QED BY <1>1, NothingMoved

(* What is left of a sequence was there before.                            *)
LEMMA RemovedFrom ==
    ASSUME NEW S, NEW q \in Seq(S), NEW i \in DOMAIN q
    PROVE  \A k \in 1 .. Len(RemoveAt(q, i)) : \E l \in 1 .. Len(q) : RemoveAt(q, i)[k] = q[l]
<1> DEFINE a == SubSeq(q, 1, i - 1)
           b == SubSeq(q, i + 1, Len(q))
<1>1. Len(q) \in Nat /\ i \in 1 .. Len(q)
  OBVIOUS
<1>2. /\ a \in Seq(S) /\ Len(a) = i - 1
      /\ \A k \in 1 .. i - 1 : a[k] = q[k]
  BY <1>1
<1>3. /\ b \in Seq(S) /\ Len(b) = Len(q) - i
      /\ \A k \in 1 .. Len(q) - i : b[k] = q[i + k]
  BY <1>1
<1>4. RemoveAt(q, i) = a \o b
  BY DEF RemoveAt
<1> HIDE DEF a, b
<1>5. Len(a \o b) = Len(a) + Len(b) /\ \A k \in 1 .. Len(a) + Len(b) : (a \o b)[k] = IF k <= Len(a) THEN a[k] ELSE b[k - Len(a)]
  BY <1>2, <1>3, ConcatProperties
<1>6. ASSUME NEW k \in 1 .. Len(a) + Len(b)
      PROVE  \E l \in 1 .. Len(q) : (a \o b)[k] = q[l]
  <2>1. k \in Nat /\ Len(a) + Len(b) = Len(q) - 1
    BY <1>1, <1>2, <1>3
  <2>2. CASE k <= Len(a)
    <3>1. (a \o b)[k] = a[k] /\ k \in 1 .. i - 1 /\ k \in 1 .. Len(q)
      BY <1>1, <1>2, <1>5, <2>1, <2>2
    <3> QED BY <1>2, <3>1
  <2>3. CASE ~ (k <= Len(a))
    <3>1. (a \o b)[k] = b[k - Len(a)]
      BY <1>5, <2>3
    <3>2. PICK l \in 1 .. Len(q) - i : l = k - Len(a)
      <4>1. PICK n, m \in Nat : n = Len(q) /\ m = Len(a)
        BY <1>1, <1>2
      <4>2. m = i - 1 /\ i \in 1 .. n /\ k \in 1 .. n - 1 /\ ~ (k <= m)
        BY <1>1, <1>2, <2>1, <2>3, <4>1
      <4>3. k - m \in 1 .. n - i
        BY <4>2
      <4> QED BY <4>1, <4>3
    <3>3. i + l \in 1 .. Len(q)
      BY <1>1
    <3> QED BY <1>3, <3>1, <3>2, <3>3
  <2> QED BY <2>2, <2>3
<1> QED BY <1>4, <1>5, <1>6

(* A datagram less on the wire.                                            *)
LEMMA DatagramGone ==
    ASSUME QueueInv, DatagramsWhole, kind = "udp", kind' = kind, NEW p \in Peers, NEW i \in DOMAIN wire[p],
           wire' = [wire EXCEPT ![p] = RemoveAt(@, i)]
    PROVE  DatagramsWhole'
<1>1. wire \in [Peers -> Seq(Buffer)]
  BY Buffers DEF QueueInv
<1> SUFFICES ASSUME NEW q \in Peers, NEW k \in 1 .. Len(wire'[q])
             PROVE  wire'[q][k] # <<>> /\ SeamCount(wire'[q][k]) = 0
  BY DEF DatagramsWhole
<1>2. PICK l \in 1 .. Len(wire[q]) : wire'[q][k] = wire[q][l]
  <2>1. CASE q # p
    BY <1>1, <2>1
  <2>2. CASE q = p
    <3>1. wire'[q] = RemoveAt(wire[p], i) /\ wire[p] \in Seq(Buffer)
      BY <1>1, <2>2
    <3> QED BY <2>2, <3>1, RemovedFrom
  <2> QED BY <2>1, <2>2
<1> QED BY <1>2 DEF DatagramsWhole

LEMMA LoseLineWhole ==
    ASSUME QueueInv, WholeInv, NEW p \in Peers, LoseLine(p) PROVE WholeInv'
<1>1. UNCHANGED <<kind, sent, midLine, link, clients, sessionCarry, queue, loop, carry, last, drops, torn>>
      /\ kind = "udp"
  BY DEF LoseLine, configVars, sessionVars, byteQueueVars, stopVars, loopVars
<1>2. DatagramsWhole'
  <2>1. PICK i \in DOMAIN wire[p] : wire' = [wire EXCEPT ![p] = RemoveAt(@, i)]
    BY DEF LoseLine
  <2> QED BY <1>1, <2>1, DatagramGone DEF WholeInv
<1>3. SeamsCounted'
  BY <1>1, SeamsUntouched DEF WholeInv
<1> QED BY <1>1, <1>2, <1>3 DEF WholeInv, SessionsWhole, StreamsRise

-----------------------------------------------------------------------------
(* Lines stay whole: the steps of the workers.                             *)

(* A session begins with nothing behind it.                                *)
LEMMA OnAcceptWhole ==
    ASSUME QueueInv, WholeInv, NEW p \in Peers, OnAccept(p) PROVE WholeInv'
<1>1. UNCHANGED <<kind, wire, sent, midLine, sessionCarry, queue, loop, carry, last, drops, torn>>
      /\ link[p] = "backlog" /\ kind = "tcp"
  BY DEF OnAccept, configVars, sessionVars, byteQueueVars, stopVars, loopVars
<1>2. \/ link' = [link EXCEPT ![p] = "refused"] /\ clients' = clients
      \/ link' = [link EXCEPT ![p] = "open"] /\ clients' = clients \union {p}
  BY DEF OnAccept, sessionVars
<1>3. link \in [Peers -> {"none", "backlog", "open", "refused", "ended"}]
  BY Buffers DEF QueueInv
<1>4. SeamsCounted'
  BY <1>1, SeamsUntouched DEF WholeInv
<1>5. SessionsWhole'
  <2> SUFFICES ASSUME NEW q \in Peers PROVE SessionWhole(q)'
    BY DEF SessionsWhole
  <2>1. SessionWhole(q)
    BY <1>1 DEF WholeInv, SessionsWhole
  <2>2. CASE q # p
    <3>1. link'[q] = link[q] /\ (q \in clients' <=> q \in clients)
      BY <1>2, <1>3, <2>2
    <3> QED BY <1>1, <2>1, <3>1, SessionUntouched
  <2>3. CASE q = p
    <3>1. wire[p] = <<>> /\ sessionCarry[p] = <<>> /\ ~midLine[p]
      BY <1>1, <2>1, <2>3 DEF SessionWhole
    <3>2. Bound(p)' = <<>>
      <4>1. <<>> \in Buffer
        BY EmptySeq DEF Buffer
      <4>2. <<>> \o <<>> = <<>>
        BY <4>1, NothingJoined
      <4> QED BY <1>1, <3>1, <4>2 DEF Bound
    <3>3. SeamCount(<<>>) = 0
      BY Seamless DEF Seams
    <3>4. SeamCount(Bound(p)') = 0 /\ GoesOn(Bound(p)', p, sent'[p], midLine'[p])
      BY <1>1, <3>1, <3>2, <3>3 DEF GoesOn
    <3>5. link'[p] = "refused" \/ (link'[p] = "open" /\ p \in clients')
      BY <1>2, <1>3
    <3>6. Lineless(sessionCarry'[p])
      BY <1>1, <2>1, <2>3 DEF SessionWhole
    <3> QED BY <2>3, <3>4, <3>5, <3>6 DEF SessionWhole
  <2> QED BY <2>2, <2>3
<1>6. StreamsRise'
  BY <1>1, StreamUntouched DEF WholeInv, StreamsRise
<1>7. DatagramsWhole'
  BY <1>1 DEF DatagramsWhole
<1> QED BY <1>4, <1>5, <1>6, <1>7 DEF WholeInv

LEMMA CompleteLast ==
    ASSUME NEW s \in Buffer
    PROVE  /\ CompleteLines(s) \in 0 .. Len(s)
           /\ CompleteLines(s) # 0 => s[CompleteLines(s)].nl
           /\ \A i \in 1 .. Len(s) : i > CompleteLines(s) => ~s[i].nl
<1> DEFINE T == {i \in 1 .. Len(s) : s[i].nl}
<1>1. CompleteLines(s) = IF T # {} THEN Max(T) ELSE 0
  BY DEF CompleteLines, SelectLastInSeq
<1>2. T \in SUBSET (0 .. Len(s)) /\ Len(s) \in Nat
  BY DEF Buffer
<1>3. T # {} => Max(T) \in T /\ \A k \in T : k <= Max(T)
  BY <1>2, MaxNat
<1>4. CASE T = {}
  BY <1>1, <1>2, <1>4
<1>5. CASE T # {}
  <2>1. PICK m \in T : m = CompleteLines(s) /\ \A k \in T : k <= m
    BY <1>1, <1>3, <1>5
  <2>2. m \in 1 .. Len(s) /\ s[m].nl
    OBVIOUS
  <2>3. ASSUME NEW i \in 1 .. Len(s), i > m PROVE ~s[i].nl
    <3>1. i \in T => i <= m
      BY <2>1
    <3>2. i \notin T
      BY <1>2, <2>2, <2>3, <3>1
    <3> QED BY <3>2
  <2> QED BY <1>2, <2>1, <2>2, <2>3
<1> QED BY <1>4, <1>5

LEMMA FirstLine ==
    ASSUME NEW s \in Buffer, NEW end, end = SelectInSeq(s, LAMBDA b : b.nl)
    PROVE  /\ end \in 0 .. Len(s)
           /\ end # 0 => s[end].nl /\ \A i \in 1 .. end - 1 : ~s[i].nl
           /\ end = 0 => \A i \in 1 .. Len(s) : ~s[i].nl
<1> DEFINE T == {i \in 1 .. Len(s) : s[i].nl}
<1>1. end = IF T # {} THEN Min(T) ELSE 0
  BY DEF SelectInSeq
<1>2. T \in SUBSET Nat /\ Len(s) \in Nat
  BY DEF Buffer
<1>3. T # {} => Min(T) \in T /\ \A k \in T : Min(T) <= k
  BY <1>2, MinNat
<1>4. CASE T = {}
  BY <1>1, <1>2, <1>4
<1>5. CASE T # {}
  <2>1. end \in T /\ \A k \in T : end <= k
    BY <1>1, <1>3, <1>5
  <2>2. end \in 1 .. Len(s) /\ s[end].nl
    BY <2>1
  <2>3. ASSUME NEW i \in 1 .. end - 1 PROVE ~s[i].nl
    <3>1. i \in T => end <= i
      BY <2>1
    <3>2. i \in 1 .. Len(s) /\ ~ (end <= i)
      BY <1>2, <2>2
    <3> QED BY <3>1, <3>2
  <2> QED BY <1>2, <2>2, <2>3
<1> QED BY <1>4, <1>5

(* The complete lines of a buffer, and what Kept leaves of it.             *)
LEMMA LinesCut ==
    ASSUME NEW s \in Buffer, NEW l, l = SubSeq(s, 1, CompleteLines(s))
    PROVE  /\ l \in Buffer /\ Kept(s) \in Buffer /\ s = l \o Kept(s)
           /\ EndsLine(l) /\ Lineless(Kept(s)) /\ (l = <<>> => Lineless(s))
<1>1. PICK k \in 0 .. Len(s) : k = CompleteLines(s)
  BY CompleteLast
<1>2. PICK r : r = Kept(s)
  OBVIOUS
<1>3. r = SubSeq(s, k + 1, Len(s))
  BY <1>1, <1>2 DEF Kept
<1>4. l \in Buffer /\ r \in Buffer /\ Len(l) = k /\ s = l \o r
  BY <1>1, <1>3, Parted
<1>5. /\ Len(s) = k + Len(r) /\ Len(r) \in Nat /\ k \in Nat
      /\ \A i \in 1 .. k : s[i] = l[i]
      /\ \A i \in 1 .. Len(r) : s[k + i] = r[i]
  <2>1. /\ Len(l \o r) = Len(l) + Len(r) /\ Len(r) \in Nat /\ Len(l) \in Nat
        /\ \A i \in 1 .. Len(l) : (l \o r)[i] = l[i]
        /\ \A i \in 1 .. Len(r) : (l \o r)[Len(l) + i] = r[i]
    BY <1>4, Joined
  <2> QED BY <1>4, <2>1
<1>6. (k # 0 => s[k].nl) /\ \A i \in 1 .. Len(s) : i > k => ~s[i].nl
  BY <1>1, CompleteLast
<1>7. EndsLine(l)
  <2> SUFFICES ASSUME l # <<>> PROVE l[k].nl
    BY <1>4 DEF EndsLine
  <2>1. k # 0
    BY <1>4, EmptySeq DEF Buffer
  <2>2. k \in 1 .. k
    BY <1>5, <2>1
  <2> QED BY <1>5, <1>6, <2>1, <2>2
<1>8. ASSUME NEW i \in 1 .. Len(r) PROVE ~r[i].nl
  <2>1. k + i \in 1 .. Len(s) /\ k + i > k
    BY <1>5
  <2> QED BY <1>5, <1>6, <2>1
<1>9. l = <<>> => Lineless(s)
  <2>1. Len(<<>>) = 0
    OBVIOUS
  <2>2. l = <<>> => k = 0
    BY <1>4, <2>1
  <2> QED BY <1>5, <1>6, <2>2 DEF Lineless
<1> QED BY <1>2, <1>4, <1>7, <1>8, <1>9 DEF Lineless

(* What a server hands to the queue are whole lines.                       *)
LEMMA LinesEnqueued ==
    ASSUME carry \in Buffer, queue \in Buffer, drops \in Nat, torn \in Nat, kind # "stdin",
           SeamsCounted, UNCHANGED <<kind, carry, loop, torn>>,
           NEW data \in Buffer, NEW newline \in Buffer, Enqueue(data, newline), data # <<>>,
           SeamCount(data \o newline) = 0, EndsLine(data \o newline)
    PROVE  SeamsCounted'
<1>1. drops' \in Nat /\ drops <= drops' /\ queue' \in Buffer
  BY SeamsEnqueued
<1>2. PICK e, n : e = <<>> /\ n = data \o newline
  OBVIOUS
<1>3. e \in Buffer /\ n \in Buffer /\ newline \o e = newline
  BY <1>2, NothingJoined, Joined
<1>4. carry \o queue \in Buffer /\ carry \o queue' \in Buffer
  BY <1>1, Joined
<1>5. Flow = carry \o queue /\ Flow' = carry \o queue'
  <2>1. Flow = (carry \o queue) \o e /\ Flow' = (carry \o queue') \o e
    BY <1>2 DEF Flow, Incoming
  <2> QED BY <1>2, <1>4, <2>1, NothingJoined
<1>6. SeamCount(Flow') + drops <= SeamCount(Flow \o n) + drops'
  <2>1. SeamCount((carry \o queue') \o e) + drops
          <= SeamCount((carry \o queue) \o (data \o (newline \o e))) + drops'
    BY <1>3, SeamsEnqueued
  <2>2. (carry \o queue') \o e = carry \o queue'
    BY <1>2, <1>4, NothingJoined
  <2> QED BY <1>2, <1>3, <1>5, <2>1, <2>2
<1>7. CASE loop = "end"
  BY <1>1, <1>7 DEF SeamsCounted
<1>8. CASE loop # "end"
  <2>1. torn + SeamCount(Flow) <= drops /\ EndsLine(Flow)
    BY <1>8 DEF SeamsCounted
  <2>2. SeamCount(Flow \o n) = SeamCount(Flow)
    <3>1. SeamCount(Flow \o n) = SeamCount(Flow) + SeamCount(n)
      BY <1>3, <1>4, <1>5, <2>1, SeamsAfterLine
    <3>2. SeamCount(Flow) \in Nat
      BY <1>4, <1>5, SeamsFinite
    <3> QED BY <1>2, <3>1, <3>2
  <2>3. SeamCount(Flow') \in Nat /\ SeamCount(Flow) \in Nat
    BY <1>4, <1>5, SeamsFinite
  <2>4. torn + SeamCount(Flow') <= drops' /\ torn <= drops'
    BY <1>1, <1>6, <2>1, <2>2, <2>3
  <2>5. EndsLine(Flow')
    <3>1. queue' # <<>> /\ EndsLine(queue')
      <4>1. CASE newline = <<>>
        <5>1. data \o newline = data
          BY <4>1, NothingJoined
        <5> QED BY <4>1, <5>1, QueueEnds DEF EndsLine
      <4>2. CASE newline # <<>>
        <5>1. EndsLine(newline)
          BY EndsJoined
        <5> QED BY <4>2, <5>1, QueueEnds DEF EndsLine
      <4> QED BY <4>1, <4>2
    <3> QED BY <1>1, <1>5, <3>1, EndsJoined
  <2> QED BY <1>8, <2>4, <2>5 DEF SeamsCounted
<1> QED BY <1>7, <1>8

(* A session reads: whole lines reach the queue, the beginning of one      *)
(* stays.                                                                  *)
LEMMA OnReadWhole ==
    ASSUME QueueInv, WholeInv, NEW p \in Peers, OnRead(p) PROVE WholeInv'
<1>1. UNCHANGED <<kind, sent, midLine, link, clients, loop, carry, last, torn>>
      /\ kind = "tcp" /\ p \in clients
  BY DEF OnRead, configVars, loopVars
<1>2. PICK n \in 1 .. Least(ReadChunk, Len(wire[p])) : \E bytes, lines :
        /\ bytes = sessionCarry[p] \o SubSeq(wire[p], 1, n)
        /\ lines = SubSeq(bytes, 1, CompleteLines(bytes))
        /\ wire' = [wire EXCEPT ![p] = SubSeq(@, n + 1, Len(@))]
        /\ sessionCarry' = [sessionCarry EXCEPT ![p] = IF lines = <<>> THEN bytes ELSE Kept(bytes)]
        /\ IF lines = <<>> THEN UNCHANGED <<queue, droppedBytes, running, drops, payload>>
                           ELSE Enqueue(lines, <<>>) /\ MarkRunning
  BY DEF OnRead
<1>3. PICK bytes, lines :
        /\ bytes = sessionCarry[p] \o SubSeq(wire[p], 1, n)
        /\ lines = SubSeq(bytes, 1, CompleteLines(bytes))
        /\ wire' = [wire EXCEPT ![p] = SubSeq(@, n + 1, Len(@))]
        /\ sessionCarry' = [sessionCarry EXCEPT ![p] = IF lines = <<>> THEN bytes ELSE Kept(bytes)]
        /\ IF lines = <<>> THEN UNCHANGED <<queue, droppedBytes, running, drops, payload>>
                           ELSE Enqueue(lines, <<>>) /\ MarkRunning
  BY <1>2
<1>4. /\ carry \in Buffer /\ queue \in Buffer /\ drops \in Nat /\ torn \in Nat
      /\ sessionCarry \in [Peers -> Buffer] /\ wire \in [Peers -> Buffer]
      /\ carry \o queue \in Buffer /\ midLine \in [Peers -> BOOLEAN]
  BY <1>1, Buffers DEF QueueInv
<1>5. n \in 0 .. Len(wire[p]) /\ n >= 1 /\ wire[p] # <<>>
  <2>1. Len(wire[p]) \in Nat /\ Len(<<>>) = 0
    BY <1>4 DEF Buffer
  <2> QED BY <2>1, ProducersAssumption DEF Least
<1>6. PICK w1, w2 : w1 = SubSeq(wire[p], 1, n) /\ w2 = SubSeq(wire[p], n + 1, Len(wire[p]))
  OBVIOUS
<1>7. w1 \in Buffer /\ w2 \in Buffer /\ wire[p] = w1 \o w2
  <2>1. wire[p] \in Buffer
    BY <1>4
  <2> QED BY <1>5, <1>6, <2>1, Parted
<1>8. PICK k \in Buffer : k = sessionCarry[p]
  BY <1>4
<1>9. bytes = k \o w1 /\ bytes \in Buffer
  BY <1>3, <1>6, <1>7, <1>8, Joined
<1>10. PICK r : r = Kept(bytes)
  OBVIOUS
<1>11. /\ lines \in Buffer /\ r \in Buffer /\ k \o w1 = lines \o r
       /\ EndsLine(lines) /\ Lineless(r) /\ (lines = <<>> => Lineless(bytes))
  BY <1>3, <1>9, <1>10, LinesCut
<1>12. /\ wire'[p] = w2 /\ sessionCarry'[p] = r
       /\ \A q \in Peers : q # p => wire'[q] = wire[q] /\ sessionCarry'[q] = sessionCarry[q]
  <2>1. lines = <<>> => bytes = r
    BY <1>9, <1>11, NothingJoined
  <2> QED BY <1>3, <1>4, <1>6, <1>10, <2>1
<1>13. SessionWhole(p) /\ StreamRises(p)
  BY <1>1 DEF WholeInv, SessionsWhole, StreamsRise
<1>14. Bound(p) = lines \o (r \o w2) /\ r \o w2 \in Buffer
  <2>1. Cat(k, Cat(w1, w2)) = Cat(Cat(k, w1), w2) /\ Cat(Cat(lines, r), w2) = Cat(lines, Cat(r, w2))
    BY <1>7, <1>11, Regroup
  <2> QED BY <1>7, <1>8, <1>11, <2>1, Joined DEF Cat, Bound
<1>15. SeamCount(Bound(p)) = 0 /\ GoesOn(Bound(p), p, sent[p], midLine[p])
  BY <1>1, <1>13 DEF SessionWhole
<1>16. SeamCount(lines) = 0 /\ SeamCount(r \o w2) = 0
  <2>1. SeamCount(lines \o (r \o w2)) = SeamCount(lines) + SeamCount(r \o w2)
    BY <1>11, <1>14, SeamsAfterLine
  <2>2. SeamCount(lines) \in Nat /\ SeamCount(r \o w2) \in Nat
    BY <1>11, <1>14, SeamsFinite
  <2> QED BY <1>14, <1>15, <2>1, <2>2
<1>17. GoesOn(r \o w2, p, sent[p], midLine[p])
  <2>1. midLine[p] \in BOOLEAN
    BY <1>4
  <2> QED BY <1>11, <1>14, <1>15, <2>1, GoesOnAfter
<1>18. Bound(p)' = r \o w2
  BY <1>12 DEF Bound
<1>19. SessionsWhole'
  <2> SUFFICES ASSUME NEW q \in Peers PROVE SessionWhole(q)'
    BY DEF SessionsWhole
  <2>1. SessionWhole(q)
    BY <1>1 DEF WholeInv, SessionsWhole
  <2>2. CASE q # p
    BY <1>1, <1>12, <2>1, <2>2, SessionUntouched
  <2>3. CASE q = p
    BY <1>1, <1>5, <1>11, <1>12, <1>16, <1>17, <1>18, <2>1, <2>3 DEF SessionWhole
  <2> QED BY <2>2, <2>3
<1>20. PICK a, b \in Buffer : /\ queue = a \o b /\ queue' = b \o lines
  <2>1. CASE lines = <<>>
    <3>1. <<>> \in Buffer /\ queue = <<>> \o queue /\ queue = queue \o <<>> /\ queue' = queue
      BY <1>3, <1>4, <2>1, NothingJoined
    <3> QED BY <1>4, <2>1, <3>1
  <2>2. CASE lines # <<>>
    <3>1. Enqueue(lines, <<>>)
      BY <1>3, <2>2
    <3> QED BY <1>4, <1>11, <3>1, QueueGrows
  <2> QED BY <2>1, <2>2
<1>21. StreamsRise'
  <2> SUFFICES ASSUME NEW q \in Peers PROVE StreamRises(q)'
    BY DEF StreamsRise
  <2>1. StreamRises(q)
    BY <1>1 DEF WholeInv, StreamsRise
  <2>2. Own(k, p) /\ Own(w1, p) /\ Own(w2, p)
    BY <1>7, <1>8, <1>13, OwnParts DEF StreamRises
  <2>3. Own(lines, p) /\ Own(r, p)
    BY <1>7, <1>11, <2>2, OwnParts
  <2>4. CASE q # p
    <3>1. Foreign(lines, q)
      BY <2>3, <2>4 DEF Own, Foreign
    <3>2. sessionCarry[q] \in Buffer /\ wire[q] \in Buffer
      BY <1>4
    <3>3. InOrder(((carry \o (a \o b)) \o sessionCarry[q]) \o wire[q], q, last[q], sent[q])
      BY <1>20, <2>1 DEF StreamRises, Stream
    <3>4. InOrder(((carry \o (b \o lines)) \o sessionCarry[q]) \o wire[q], q, last[q], sent[q])
      BY <1>4, <1>11, <3>1, <3>2, <3>3, OthersMoved
    <3>5. Stream(q)' = ((carry \o (b \o lines)) \o sessionCarry[q]) \o wire[q]
      BY <1>1, <1>12, <1>20, <2>4 DEF Stream
    <3> QED BY <1>1, <1>12, <2>1, <2>4, <3>4, <3>5 DEF StreamRises
  <2>5. CASE q = p
    <3>1. InOrder(((carry \o (a \o b)) \o k) \o (w1 \o w2), p, last[p], sent[p])
      BY <1>7, <1>8, <1>13, <1>20 DEF StreamRises, Stream
    <3>2. InOrder(((carry \o (b \o lines)) \o r) \o w2, p, last[p], sent[p])
      <4>1. carry \in Buffer /\ w1 \in Buffer /\ w2 \in Buffer /\ lines \in Buffer /\ r \in Buffer /\ k \o w1 = lines \o r
        BY <1>4, <1>7, <1>11
      <4>2. InOrder(Cat(Cat(Cat(carry, Cat(a, b)), k), Cat(w1, w2)), p, last[p], sent[p]) /\ Cat(k, w1) = Cat(lines, r)
        BY <3>1, <4>1 DEF Cat
      <4>3. InOrder(Cat(Cat(Cat(carry, Cat(b, lines)), r), w2), p, last[p], sent[p])
        BY <4>1, <4>2, OwnMoved DEF Moves
      <4> QED BY <4>3 DEF Cat
    <3>3. Stream(p)' = ((carry \o (b \o lines)) \o r) \o w2
      BY <1>1, <1>12, <1>20 DEF Stream
    <3> QED BY <1>1, <1>12, <1>13, <2>2, <2>3, <2>5, <3>2, <3>3 DEF StreamRises
  <2> QED BY <2>4, <2>5
<1>22. SeamsCounted'
  <2>1. CASE lines = <<>>
    BY <1>1, <1>3, <2>1, SeamsUntouched DEF WholeInv
  <2>2. CASE lines # <<>>
    <3>1. PICK e \in Buffer : e = <<>>
      BY EmptySeq DEF Buffer
    <3>2. Enqueue(lines, e) /\ lines \o e = lines
      BY <1>3, <1>11, <2>2, <3>1, NothingJoined
    <3>3. SeamsCounted /\ UNCHANGED <<kind, carry, loop, torn>> /\ kind # "stdin"
      BY <1>1 DEF WholeInv
    <3>4. SeamCount(lines \o e) = 0 /\ EndsLine(lines \o e)
      BY <1>11, <1>16, <3>2
    <3> QED BY <1>4, <1>11, <2>2, <3>2, <3>3, <3>4, LinesEnqueued
  <2> QED BY <2>1, <2>2
<1>23. DatagramsWhole'
  BY <1>1 DEF DatagramsWhole
<1> QED BY <1>19, <1>21, <1>22, <1>23 DEF WholeInv

(* A session ends: what it held is a line, with the newline added.         *)
LEMMA OnReadErrorWhole ==
    ASSUME QueueInv, WholeInv, NEW p \in Peers, OnReadError(p) PROVE WholeInv'
<1>1. UNCHANGED <<kind, wire, sent, midLine, loop, carry, last, torn>> /\ kind = "tcp" /\ p \in clients
  BY DEF OnReadError, configVars, loopVars
<1>2. /\ sessionCarry' = [sessionCarry EXCEPT ![p] = <<>>]
      /\ clients' = clients \ {p}
      /\ link' = [link EXCEPT ![p] = "ended"]
      /\ IF Unterminated(p) = <<>> THEN UNCHANGED <<queue, droppedBytes, running, drops, payload, added>>
                                   ELSE Enqueue(Unterminated(p), <<>>) /\ MarkRunning /\ added' = added + 1
  BY DEF OnReadError
<1>3. /\ carry \in Buffer /\ queue \in Buffer /\ drops \in Nat /\ torn \in Nat
      /\ sessionCarry \in [Peers -> Buffer] /\ wire \in [Peers -> Buffer]
      /\ link \in [Peers -> {"none", "backlog", "open", "refused", "ended"}]
  BY <1>1, Buffers DEF QueueInv
<1>4. PICK k, w \in Buffer : k = sessionCarry[p] /\ w = wire[p]
  BY <1>3
<1>5. PICK e \in Buffer : e = <<>>
  BY EmptySeq DEF Buffer
<1>6. PICK lines : lines = Unterminated(p)
  OBVIOUS
<1>7. /\ sessionCarry'[p] = e /\ link'[p] = "ended" /\ p \notin clients'
      /\ \A q \in Peers : q # p => /\ sessionCarry'[q] = sessionCarry[q] /\ link'[q] = link[q]
                                   /\ (q \in clients' <=> q \in clients)
  BY <1>2, <1>3, <1>5
<1>8. SessionWhole(p) /\ StreamRises(p)
  BY <1>1 DEF WholeInv, SessionsWhole, StreamsRise
<1>9. SessionsWhole'
  <2> SUFFICES ASSUME NEW q \in Peers PROVE SessionWhole(q)'
    BY DEF SessionsWhole
  <2>1. SessionWhole(q)
    BY <1>1 DEF WholeInv, SessionsWhole
  <2>2. CASE q # p
    BY <1>1, <1>7, <2>1, <2>2, SessionUntouched
  <2>3. CASE q = p
    <3>1. Lineless(e)
      <4>1. Len(e) = 0
        BY <1>5
      <4> QED BY <4>1 DEF Lineless
    <3> QED BY <1>7, <2>3, <3>1 DEF SessionWhole
  <2> QED BY <2>2, <2>3
<1>10. DatagramsWhole'
  BY <1>1 DEF DatagramsWhole
<1>11. CASE k = e
  <2>1. lines = <<>>
    BY <1>4, <1>5, <1>6, <1>11 DEF Unterminated
  <2>2. UNCHANGED <<queue, drops>>
    BY <1>2, <1>6, <2>1
  <2>3. SeamsCounted'
    BY <1>1, <2>2, SeamsUntouched DEF WholeInv
  <2>4. \A q \in Peers : sessionCarry'[q] = sessionCarry[q]
    BY <1>4, <1>7, <1>11
  <2>5. StreamsRise'
    BY <1>1, <2>2, <2>4, StreamUntouched DEF WholeInv, StreamsRise
  <2> QED BY <1>9, <1>10, <2>3, <2>5 DEF WholeInv
<1>12. CASE k # e
  <2>1. PICK syn : syn = <<Synthetic>>
    OBVIOUS
  <2>2. SeamCount(k) = 0 /\ ~k[Len(k)].nl
    <3>1. SeamCount(k \o w) = 0 /\ Lineless(k)
      BY <1>1, <1>4, <1>8 DEF SessionWhole, Bound
    <3>2. SeamCount(k) <= SeamCount(k \o w) /\ SeamCount(k) \in Nat
      BY SeamsOfPart, SeamsFinite
    <3>3. Len(k) \in 1 .. Len(k)
      <4>1. Len(k) \in Nat /\ Len(k) # 0
        BY <1>5, <1>12, EmptySeq DEF Buffer
      <4> QED BY <4>1
    <3> QED BY <3>1, <3>2, <3>3 DEF Lineless
  <2>3. /\ syn \in Buffer /\ syn # <<>> /\ SeamCount(k \o syn) = 0 /\ EndsLine(k \o syn)
    BY <1>5, <1>12, <2>1, <2>2, SyntheticEnds
  <2>4. lines = k \o syn /\ lines # <<>> /\ lines \in Buffer
    <3>1. lines = Append(k, Synthetic)
      BY <1>4, <1>5, <1>6, <1>12 DEF Unterminated
    <3>2. Append(k, Synthetic) = k \o syn
      BY <2>1 DEF Buffer
    <3> QED BY <2>3, <3>1, <3>2, LastJoined, Joined
  <2>5. Enqueue(lines, e)
    BY <1>2, <1>5, <1>6, <2>4
  <2>6. SeamsCounted'
    <3>1. SeamsCounted /\ UNCHANGED <<kind, carry, loop, torn>> /\ kind # "stdin"
      BY <1>1 DEF WholeInv
    <3>2. lines \o e = lines
      BY <1>5, <2>4, NothingJoined
    <3>3. SeamCount(lines \o e) = 0 /\ EndsLine(lines \o e)
      BY <2>3, <2>4, <3>2
    <3> QED BY <1>3, <2>4, <2>5, <3>1, <3>3, LinesEnqueued
  <2>7. PICK a, b \in Buffer : queue = a \o b /\ queue' = b \o lines
    <3>1. Enqueue(lines, <<>>) /\ lines \in Buffer
      BY <1>5, <2>4, <2>5
    <3> QED BY <1>3, <3>1, QueueGrows
  <2>8. StreamsRise'
    <3> SUFFICES ASSUME NEW q \in Peers PROVE StreamRises(q)'
      BY DEF StreamsRise
    <3>1. StreamRises(q)
      BY <1>1 DEF WholeInv, StreamsRise
    <3>2. CASE q # p
      <4>1. Foreign(lines, q)
        <5>1. Own(k, p)
          BY <1>4, <1>8 DEF StreamRises
        <5>2. Foreign(k, q)
          BY <3>2, <5>1 DEF Own, Foreign
        <5>3. Foreign(syn, q)
          BY <2>1, ProducersAssumption DEF Foreign, Synthetic
        <5> QED BY <2>3, <2>4, <5>2, <5>3, ForeignParts
      <4>2. sessionCarry[q] \in Buffer /\ wire[q] \in Buffer
        BY <1>3
      <4>3. InOrder(((carry \o (a \o b)) \o sessionCarry[q]) \o wire[q], q, last[q], sent[q])
        BY <2>7, <3>1 DEF StreamRises, Stream
      <4>4. InOrder(((carry \o (b \o lines)) \o sessionCarry[q]) \o wire[q], q, last[q], sent[q])
        BY <1>3, <2>4, <4>1, <4>2, <4>3, OthersMoved
      <4>5. Stream(q)' = ((carry \o (b \o lines)) \o sessionCarry[q]) \o wire[q]
        BY <1>1, <1>7, <2>7, <3>2 DEF Stream
      <4> QED BY <1>1, <1>7, <3>1, <3>2, <4>4, <4>5 DEF StreamRises
    <3>3. CASE q = p
      <4>1. PICK c \in Buffer : c = carry
        BY <1>3
      <4>2. Cat(e, w) = w /\ \A x \in Buffer : Cat(x, e) = x
        BY <1>5, NothingJoined DEF Cat
      <4>3. InOrder(Cat(Cat(Cat(c, Cat(a, b)), k), Cat(e, w)), p, last[p], sent[p])
        BY <1>4, <1>8, <2>7, <4>1, <4>2 DEF StreamRises, Stream, Cat
      <4>4. InOrder(Cat(Cat(Cat(c, Cat(b, k)), e), w), p, last[p], sent[p])
        <5>1. Moves(c, a, b, k, e, w, k, e)
          BY DEF Moves
        <5> QED BY <4>3, <5>1, OwnMoved
      <4>5. PICK x \in Buffer : x = Cat(c, Cat(b, k))
        BY Regroup
      <4>6. InOrder(x \o w, p, last[p], sent[p])
        BY <4>2, <4>4, <4>5 DEF Cat
      <4>7. Foreign(syn, p)
        BY <2>1, ProducersAssumption DEF Foreign, Synthetic
      <4>8. InOrder((x \o syn) \o w, p, last[p], sent[p])
        BY <2>3, <4>6, <4>7, Padded
      <4>9. x \o syn = (carry \o (b \o lines)) \o e
        <5>1. PICK bk, s \in Buffer : bk = Cat(b, k) /\ s = syn
          BY <2>3, Regroup
        <5>2. Cat(Cat(c, bk), s) = Cat(c, Cat(bk, s)) /\ Cat(bk, s) = Cat(b, Cat(k, s))
          BY <5>1, Regroup
        <5>3. Cat(c, Cat(bk, s)) \in Buffer
          BY Regroup
        <5> QED BY <2>4, <4>1, <4>2, <4>5, <5>1, <5>2, <5>3 DEF Cat
      <4>10. Stream(p)' = (x \o syn) \o w
        BY <1>1, <1>4, <1>7, <2>7, <4>9 DEF Stream
      <4>11. Own(e, p)
        <5>1. Len(e) = 0
          BY <1>5
        <5> QED BY <5>1 DEF Own
      <4> QED BY <1>1, <1>7, <1>8, <3>3, <4>8, <4>10, <4>11 DEF StreamRises
    <3> QED BY <3>2, <3>3
  <2> QED BY <1>9, <1>10, <2>6, <2>8 DEF WholeInv
<1> QED BY <1>11, <1>12

(* A datagram is received whole, and ended with a newline.                 *)
LEMMA OnReceiveWhole ==
    ASSUME QueueInv, WholeInv, NEW p \in Peers, OnReceive(p) PROVE WholeInv'
<1>1. UNCHANGED <<kind, loop, carry, last, torn>> /\ kind = "udp"
  BY DEF OnReceive, configVars, loopVars
<1>2. PICK i \in DOMAIN wire[p] : \E data, newline :
        /\ data = wire[p][i] /\ newline = IF Last(data).nl THEN <<>> ELSE <<Synthetic>>
        /\ wire' = [wire EXCEPT ![p] = RemoveAt(@, i)]
        /\ UNCHANGED <<queue, drops>> \/ Enqueue(data, newline)
  BY DEF OnReceive, byteQueueVars
<1>3. PICK data, newline :
        /\ data = wire[p][i] /\ newline = IF Last(data).nl THEN <<>> ELSE <<Synthetic>>
        /\ wire' = [wire EXCEPT ![p] = RemoveAt(@, i)]
        /\ UNCHANGED <<queue, drops>> \/ Enqueue(data, newline)
  BY <1>2
<1>4. /\ carry \in Buffer /\ queue \in Buffer /\ drops \in Nat /\ torn \in Nat
      /\ wire \in [Peers -> Seq(Buffer)]
  BY <1>1, Buffers DEF QueueInv
<1>5. data \in Buffer /\ data # <<>> /\ SeamCount(data) = 0
  BY <1>1, <1>3, <1>4 DEF WholeInv, DatagramsWhole
<1>6. newline \in Buffer /\ SeamCount(data \o newline) = 0 /\ EndsLine(data \o newline)
  <2>1. Last(data) = data[Len(data)]
    BY DEF Last
  <2>2. CASE data[Len(data)].nl
    <3>1. newline = <<>> /\ data \o newline = data /\ newline \in Buffer
      BY <1>3, <1>5, <2>1, <2>2, NothingJoined
    <3> QED BY <1>5, <2>2, <3>1 DEF EndsLine
  <2>3. CASE ~data[Len(data)].nl
    BY <1>3, <1>5, <2>1, <2>3, SyntheticEnds
  <2> QED BY <2>2, <2>3
<1>7. DatagramsWhole'
  BY <1>1, <1>3, DatagramGone DEF WholeInv
<1>8. SeamsCounted'
  <2>1. CASE UNCHANGED <<queue, drops>>
    BY <1>1, <2>1, SeamsUntouched DEF WholeInv
  <2>2. CASE Enqueue(data, newline)
    <3>1. SeamsCounted /\ UNCHANGED <<kind, carry, loop, torn>> /\ kind # "stdin"
      BY <1>1 DEF WholeInv
    <3> QED BY <1>4, <1>5, <1>6, <2>2, <3>1, LinesEnqueued
  <2> QED BY <1>3, <2>1, <2>2
<1> QED BY <1>1, <1>7, <1>8 DEF WholeInv, SessionsWhole, StreamsRise

(* stdin is one stream, queued as it is read.                              *)
LEMMA StdinReadWhole ==
    ASSUME QueueInv, WholeInv, StdinRead PROVE WholeInv'
<1>1. UNCHANGED <<kind, sent, midLine, link, clients, sessionCarry, loop, carry, last, torn>>
      /\ kind = "stdin" /\ 1 \in Peers
  BY ProducersAssumption DEF StdinRead, configVars, sessionVars, loopVars, QueueInv, StdinWorker
<1>2. SessionsWhole' /\ DatagramsWhole'
  BY <1>1 DEF SessionsWhole, DatagramsWhole
<1>3. CASE UNCHANGED <<queue, drops, wire>>
  BY <1>1, <1>3, NothingMoved
<1>4. CASE \E n \in 1 .. Least(ReadChunk, Len(wire[1])) :
             /\ Enqueue(SubSeq(wire[1], 1, n), <<>>)
             /\ wire' = [wire EXCEPT ![1] = SubSeq(@, n + 1, Len(@))]
  <2>1. PICK n \in 1 .. Least(ReadChunk, Len(wire[1])) :
             /\ Enqueue(SubSeq(wire[1], 1, n), <<>>)
             /\ wire' = [wire EXCEPT ![1] = SubSeq(@, n + 1, Len(@))]
    BY <1>4
  <2>2. /\ carry \in Buffer /\ queue \in Buffer /\ drops \in Nat /\ torn \in Nat
        /\ sessionCarry \in [Peers -> Buffer] /\ wire \in [Peers -> Buffer] /\ wire[1] \in Buffer
        /\ carry \o queue \in Buffer
    BY <1>1, Buffers DEF QueueInv
  <2>3. n \in 0 .. Len(wire[1]) /\ n # 0
    <3>1. Len(wire[1]) \in Nat
      BY <2>2 DEF Buffer
    <3> QED BY <3>1, ProducersAssumption DEF Least
  <2>4. PICK d, w \in Buffer : /\ d = SubSeq(wire[1], 1, n) /\ w = SubSeq(wire[1], n + 1, Len(wire[1]))
                              /\ wire[1] = d \o w /\ Len(d) = n
    <3>1. /\ SubSeq(wire[1], 1, n) \in Buffer /\ SubSeq(wire[1], n + 1, Len(wire[1])) \in Buffer
          /\ Len(SubSeq(wire[1], 1, n)) = n
          /\ wire[1] = SubSeq(wire[1], 1, n) \o SubSeq(wire[1], n + 1, Len(wire[1]))
      BY <2>2, <2>3, Parted
    <3> QED BY <3>1, Zenon
  <2>5. PICK e \in Buffer : e = <<>>
    BY EmptySeq DEF Buffer
  <2>6. Enqueue(d, e) /\ d # <<>>
    <3>1. Len(<<>>) = 0
      OBVIOUS
    <3>2. d # <<>>
      BY <2>3, <2>4, <3>1
    <3>3. Enqueue(SubSeq(wire[1], 1, n), <<>>) /\ d = SubSeq(wire[1], 1, n)
      BY <2>1, <2>4
    <3> QED BY <2>5, <3>2, <3>3
  <2>7. wire'[1] = w /\ \A q \in Peers : q # 1 => wire'[q] = wire[q]
    BY <1>1, <2>1, <2>2, <2>4
  <2>8. PICK a, b \in Buffer : queue = a \o b /\ queue' = b \o d
    <3>1. Enqueue(d, <<>>)
      BY <2>5, <2>6
    <3> QED BY <2>2, <3>1, QueueGrows
  <2>9. drops' \in Nat /\ drops <= drops' /\ queue' \in Buffer
    BY <2>2, <2>6, SeamsEnqueued
  <2>10. Flow = (carry \o queue) \o (d \o w) /\ Flow' = (carry \o queue') \o w
    BY <1>1, <2>4, <2>7 DEF Flow, Incoming
  <2>11. carry \o queue' \in Buffer /\ Flow' \in Buffer /\ Flow \in Buffer /\ d \o w \in Buffer
    BY <2>2, <2>9, <2>10, Joined
  <2>12. SeamCount(Flow') + drops <= SeamCount(Flow) + drops'
    <3>1. SeamCount((carry \o queue') \o w) + drops <= SeamCount((carry \o queue) \o (d \o (e \o w))) + drops'
      BY <2>2, <2>6, SeamsEnqueued
    <3>2. e \o w = w
      BY <2>5, NothingJoined
    <3> QED BY <2>10, <3>1, <3>2
  <2>13. Flow # <<>> /\ Flow' # <<>> /\ Flow'[Len(Flow')] = Flow[Len(Flow)]
    <3>1. CASE w # <<>>
      <4>1. d \o w # <<>> /\ (d \o w)[Len(d \o w)] = w[Len(w)]
        BY <3>1, LastJoined
      <4>2. Flow # <<>> /\ Flow[Len(Flow)] = (d \o w)[Len(d \o w)]
        BY <2>2, <2>10, <2>11, <4>1, LastJoined
      <4>3. Flow' # <<>> /\ Flow'[Len(Flow')] = w[Len(w)]
        BY <2>10, <2>11, <3>1, LastJoined
      <4> QED BY <4>1, <4>2, <4>3
    <3>2. CASE w = <<>>
      <4>1. d \o w = d /\ Flow' = carry \o queue'
        BY <2>10, <2>11, <3>2, NothingJoined
      <4>2. Flow # <<>> /\ Flow[Len(Flow)] = d[Len(d)]
        BY <2>2, <2>6, <2>10, <4>1, LastJoined
      <4>3. queue' # <<>> /\ queue'[Len(queue')] = d[Len(d)]
        BY <2>6, <2>8, LastJoined
      <4>4. Flow' # <<>> /\ Flow'[Len(Flow')] = queue'[Len(queue')]
        BY <2>2, <2>9, <4>1, <4>3, LastJoined
      <4> QED BY <4>2, <4>3, <4>4
    <3> QED BY <3>1, <3>2
  <2>14. SeamsCounted'
    <3>1. CASE loop = "end"
      BY <1>1, <2>2, <2>9, <3>1 DEF WholeInv, SeamsCounted
    <3>2. CASE loop # "end"
      <4>1. torn + SeamCount(Flow) <= drops /\ GoesOn(Flow, 1, sent[1], midLine[1])
        BY <1>1, <3>2 DEF WholeInv, SeamsCounted
      <4>2. SeamCount(Flow) \in Nat /\ SeamCount(Flow') \in Nat
        BY <2>11, SeamsFinite
      <4>3. torn + SeamCount(Flow') <= drops' /\ torn <= drops'
        BY <2>2, <2>9, <2>12, <4>1, <4>2
      <4>4. GoesOn(Flow', 1, sent[1], midLine[1])
        BY <2>13, <4>1 DEF GoesOn
      <4> QED BY <1>1, <3>2, <4>3, <4>4 DEF SeamsCounted
    <3> QED BY <3>1, <3>2
  <2>15. StreamsRise'
    <3> SUFFICES ASSUME NEW q \in Peers PROVE StreamRises(q)'
      BY DEF StreamsRise
    <3>1. StreamRises(q) /\ StreamRises(1)
      BY <1>1 DEF WholeInv, StreamsRise
    <3>2. Own(d, 1) /\ Own(w, 1)
      <4>1. Own(d \o w, 1)
        BY <2>4, <3>1 DEF StreamRises
      <4> QED BY <4>1, OwnParts
    <3>3. CASE q # 1
      <4>1. Foreign(d, q)
        BY <3>2, <3>3 DEF Own, Foreign
      <4>2. sessionCarry[q] \in Buffer /\ wire[q] \in Buffer
        BY <2>2
      <4>3. InOrder(((carry \o (a \o b)) \o sessionCarry[q]) \o wire[q], q, last[q], sent[q])
        BY <2>8, <3>1 DEF StreamRises, Stream
      <4>4. InOrder(((carry \o (b \o d)) \o sessionCarry[q]) \o wire[q], q, last[q], sent[q])
        BY <2>2, <4>1, <4>2, <4>3, OthersMoved
      <4>5. Stream(q)' = ((carry \o (b \o d)) \o sessionCarry[q]) \o wire[q]
        BY <1>1, <2>7, <2>8, <3>3 DEF Stream
      <4> QED BY <1>1, <2>7, <3>1, <3>3, <4>4, <4>5 DEF StreamRises
    <3>4. CASE q = 1
      <4>1. sessionCarry[1] = e
        BY <1>1, <2>5, <3>1 DEF StreamRises
      <4>2. PICK c \in Buffer : c = carry
        BY <2>2
      <4>3. InOrder(Cat(Cat(Cat(c, Cat(a, b)), e), Cat(d, w)), 1, last[1], sent[1])
        BY <2>4, <2>8, <3>1, <4>1, <4>2 DEF StreamRises, Stream, Cat
      <4>4. InOrder(Cat(Cat(Cat(c, Cat(b, d)), e), w), 1, last[1], sent[1])
        <5>1. Cat(e, d) = Cat(d, e)
          BY <2>5, NothingJoined DEF Cat
        <5>2. Moves(c, a, b, e, d, w, d, e)
          BY <5>1 DEF Moves
        <5> QED BY <4>3, <5>2, OwnMoved
      <4>5. Stream(1)' = Cat(Cat(Cat(c, Cat(b, d)), e), w)
        BY <1>1, <2>7, <2>8, <4>1, <4>2 DEF Stream, Cat
      <4> QED BY <1>1, <2>7, <3>1, <3>2, <3>4, <4>4, <4>5 DEF StreamRises
    <3> QED BY <3>3, <3>4
  <2> QED BY <1>2, <2>14, <2>15 DEF WholeInv
<1> QED BY <1>3, <1>4 DEF StdinRead

-----------------------------------------------------------------------------
(* Lines stay whole: the steps of the parse loop, and the theorem.         *)

(* Read moves bytes from one buffer to the next.                           *)
LEMMA LoopReadWhole ==
    ASSUME QueueInv, WholeInv, LoopRead PROVE WholeInv'
<1>1. UNCHANGED <<kind, wire, sent, midLine, link, clients, sessionCarry, last, torn, drops>> /\ loop = "head"
  BY DEF LoopRead, configVars, peerVars, sessionVars
<1>2. CASE UNCHANGED <<carry, queue>>
  BY <1>1, <1>2, NothingMoved
<1>3. CASE \E n : /\ n = Least(ReadBuffer, Len(queue))
                  /\ carry' = carry \o SubSeq(queue, 1, n)
                  /\ queue' = SubSeq(queue, n + 1, Len(queue))
  <2>1. PICK n : /\ n = Least(ReadBuffer, Len(queue))
                 /\ carry' = carry \o SubSeq(queue, 1, n)
                 /\ queue' = SubSeq(queue, n + 1, Len(queue))
    BY <1>3
  <2>2. carry \in Buffer /\ queue \in Buffer
    BY Buffers DEF QueueInv
  <2>3. n \in 0 .. Len(queue)
    <3>1. Len(queue) \in Nat
      BY <2>2 DEF Buffer
    <3> QED BY <2>1, <3>1, ProducersAssumption DEF Least
  <2>4. PICK u : u = SubSeq(queue, 1, n)
    OBVIOUS
  <2>5. u \in Buffer /\ queue' \in Buffer /\ queue = u \o queue'
    BY <2>1, <2>2, <2>3, <2>4, Parted
  <2>6. carry' \o queue' = carry \o queue
    <3>1. Cat(Cat(carry, u), queue') = Cat(carry, Cat(u, queue'))
      BY <2>2, <2>5, Regroup
    <3> QED BY <2>1, <2>4, <2>5, <3>1 DEF Cat
  <2>7. Flow' = Flow
    BY <1>1, <2>6 DEF Flow, Incoming
  <2>8. SeamsCounted'
    BY <1>1, <2>7 DEF WholeInv, SeamsCounted
  <2>9. StreamsRise'
    <3> SUFFICES ASSUME kind # "udp", NEW p \in Peers PROVE StreamRises(p)'
      BY <1>1 DEF StreamsRise
    <3>1. Stream(p)' = Stream(p)
      BY <1>1, <2>6 DEF Stream
    <3> QED BY <1>1, <3>1 DEF WholeInv, StreamsRise, StreamRises
  <2>10. SessionsWhole'
    BY <1>1, SessionUntouched DEF WholeInv, SessionsWhole
  <2>11. DatagramsWhole'
    BY <1>1 DEF WholeInv, DatagramsWhole
  <2> QED BY <2>8, <2>9, <2>10, <2>11 DEF WholeInv
<1> QED BY <1>2, <1>3 DEF LoopRead

(* The last byte of a peer the parser saw is the one before, or one of the *)
(* line.                                                                   *)
LEMMA LastSeen ==
    ASSUME NEW line \in Buffer, ProcessLine(line), last \in [Peers -> Nat], NEW p \in Peers
    PROVE  last'[p] = last[p] \/ \E i \in 1 .. Len(line) : line[i].peer = p /\ line[i].at = last'[p]
<1> DEFINE T == {last[p]} \union {b.at : b \in {c \in Range(line) : c.peer = p}}
<1>1. line \in Seq(Byte) /\ last[p] \in Nat
  BY DEF Buffer
<1>2. PICK n \in Nat : \A i \in 1 .. Len(line) : line[i].at <= n
  BY <1>1, PositionsBounded
<1>3. ASSUME NEW b \in Range(line)
      PROVE  b.at \in 0 .. n + last[p]
  <2>1. PICK i \in 1 .. Len(line) : b = line[i]
    BY <1>1 DEF Range
  <2>2. line[i] \in Byte
    BY <1>1
  <2>3. line[i].at \in Nat
    BY <2>2 DEF Byte
  <2> QED BY <1>1, <1>2, <2>1, <2>3
<1>4. T \in SUBSET (0 .. n + last[p]) /\ T # {} /\ n + last[p] \in Nat
  BY <1>1, <1>3
<1>5. last'[p] = Max(T)
  BY DEF ProcessLine
<1>6. last'[p] \in T
  <2> HIDE DEF T
  <2> QED BY <1>4, <1>5, MaxNat
<1>7. \A b \in Range(line) : \E i \in 1 .. Len(line) : b = line[i]
  BY <1>1 DEF Range
<1> QED BY <1>6, <1>7

(* A line is taken from the front of the buffer.                           *)
LEMMA LineTaken ==
    ASSUME QueueInv, WholeInv, LoopScan, NEW l \in Buffer, NEW r \in Buffer,
           carry = l \o r, carry' = r, ProcessLine(l), l # <<>>,
           \A i \in 1 .. Len(l) - 1 : ~l[i].nl, EndsLine(l) \/ loop' = "end"
    PROVE  WholeInv'
<1>1. UNCHANGED <<kind, wire, sent, midLine, link, clients, sessionCarry, queue, drops>> /\ loop # "end"
  BY DEF LoopScan, configVars, peerVars, sessionVars, byteQueueVars
<1>2. /\ queue \in Buffer /\ drops \in Nat /\ torn \in Nat /\ last \in [Peers -> Nat] /\ sent \in [Peers -> Nat]
      /\ sessionCarry \in [Peers -> Buffer] /\ midLine \in [Peers -> BOOLEAN] /\ Incoming \in Buffer
      /\ (kind # "udp" => wire \in [Peers -> Buffer])
  BY Buffers DEF QueueInv
<1>3. torn' = torn + IF Whole(l) THEN 0 ELSE 1
  BY DEF ProcessLine
<1>4. PICK x \in Buffer : x = Incoming
  BY <1>2
<1>5. PICK rest \in Buffer : rest = Cat(Cat(r, queue), x)
  BY <1>2, Regroup
<1>6. Flow = l \o rest /\ Flow' = rest
  <2>1. Cat(Cat(Cat(l, r), queue), x) = Cat(l, Cat(Cat(r, queue), x))
    <3>1. PICK q \in Buffer : q = queue
      BY <1>2
    <3>2. PICK rq \in Buffer : rq = Cat(r, q)
      BY Regroup
    <3>3. Cat(Cat(l, r), q) = Cat(l, rq)
      BY <3>2, Regroup
    <3>4. Cat(Cat(l, rq), x) = Cat(l, Cat(rq, x))
      BY Regroup
    <3> QED BY <3>1, <3>2, <3>3, <3>4
  <2>2. Incoming' = x
    BY <1>1, <1>4 DEF Incoming
  <2> QED BY <1>1, <1>4, <1>5, <2>1, <2>2 DEF Flow, Cat
<1>7. torn + SeamCount(Flow) <= drops
  BY <1>1 DEF WholeInv, SeamsCounted
<1>8. SeamCount(l) \in Nat /\ SeamCount(rest) \in Nat /\ SeamCount(l) <= SeamCount(l \o rest)
  BY SeamsFinite, SeamsOfPart
<1>9. torn' <= torn + SeamCount(l) /\ torn' \in Nat
  <2>1. SeamCount(l) = 0 => Whole(l)
    BY SeamlessIsWhole
  <2> QED BY <1>2, <1>3, <1>8, <2>1
<1>10. SeamsCounted'
  <2>1. torn' <= drops'
    <3>1. SeamCount(l \o rest) \in Nat
      BY Joined, SeamsFinite
    <3> QED BY <1>1, <1>2, <1>6, <1>7, <1>8, <1>9, <3>1
  <2>2. CASE loop' = "end"
    BY <2>1, <2>2 DEF SeamsCounted
  <2>3. CASE loop' # "end"
    <3>1. EndsLine(l)
      BY <2>3
    <3>2. SeamCount(l \o rest) = SeamCount(l) + SeamCount(rest)
      BY <3>1, SeamsAfterLine
    <3>3. torn' + SeamCount(Flow') <= drops'
      BY <1>1, <1>2, <1>6, <1>7, <1>8, <1>9, <3>2
    <3>4. kind = "stdin" => GoesOn(Flow', 1, sent[1], midLine[1])
      <4> SUFFICES ASSUME kind = "stdin" PROVE GoesOn(rest, 1, sent[1], midLine[1])
        BY <1>6
      <4>1. GoesOn(l \o rest, 1, sent[1], midLine[1])
        BY <1>1, <1>6 DEF WholeInv, SeamsCounted
      <4>2. midLine[1] \in BOOLEAN
        BY <1>2, ProducersAssumption
      <4> QED BY <3>1, <4>1, <4>2, GoesOnAfter
    <3>5. kind # "stdin" => EndsLine(Flow')
      BY <1>1, <1>6, EndsJoined DEF WholeInv, SeamsCounted
    <3> QED BY <1>1, <2>1, <3>3, <3>4, <3>5 DEF SeamsCounted
  <2> QED BY <2>2, <2>3
<1>11. StreamsRise'
  <2> SUFFICES ASSUME kind # "udp", NEW p \in Peers PROVE StreamRises(p)'
    BY <1>1 DEF StreamsRise
  <2>1. StreamRises(p)
    BY DEF WholeInv, StreamsRise
  <2>2. PICK q, k, w \in Buffer : q = queue /\ k = sessionCarry[p] /\ w = wire[p]
    BY <1>2
  <2>3. PICK e \in Buffer : e = Cat(Cat(Cat(r, q), k), w)
    BY Regroup
  <2>4. Stream(p) = l \o e /\ Stream(p)' = e
    <3>1. PICK rq \in Buffer : rq = Cat(r, q)
      BY Regroup
    <3>2. PICK rqk \in Buffer : rqk = Cat(rq, k)
      BY Regroup
    <3>3. Cat(Cat(l, r), q) = Cat(l, rq)
      BY <3>1, Regroup
    <3>4. Cat(Cat(l, rq), k) = Cat(l, rqk)
      BY <3>2, Regroup
    <3>5. Cat(Cat(l, rqk), w) = Cat(l, Cat(rqk, w))
      BY Regroup
    <3> QED BY <1>1, <2>2, <2>3, <3>1, <3>2, <3>3, <3>4, <3>5 DEF Stream, Cat
  <2>5. InOrder(l \o e, p, last[p], sent[p]) /\ last[p] <= sent[p]
    BY <2>1, <2>4 DEF StreamRises
  <2>6. last'[p] = last[p] \/ \E i \in 1 .. Len(l) : l[i].peer = p /\ l[i].at = last'[p]
    BY <1>2, LastSeen
  <2>7. InOrder(e, p, last'[p], sent[p]) /\ last'[p] <= sent[p]
    <3>1. InOrder(e, p, last'[p], sent[p]) /\ (last'[p] = last[p] \/ last'[p] <= sent[p])
      BY <2>5, <2>6, OrderAfter
    <3> QED BY <2>5, <3>1
  <2> QED BY <1>1, <2>1, <2>4, <2>7 DEF StreamRises
<1>12. SessionsWhole'
  BY <1>1, SessionUntouched DEF WholeInv, SessionsWhole
<1>13. DatagramsWhole'
  BY <1>1 DEF WholeInv, DatagramsWhole
<1> QED BY <1>10, <1>11, <1>12, <1>13 DEF WholeInv

LEMMA LoopScanWhole ==
    ASSUME QueueInv, WholeInv, LoopScan PROVE WholeInv'
<1>1. carry \in Buffer
  BY Buffers DEF QueueInv
<1>2. PICK end : end = SelectInSeq(carry, LAMBDA b : b.nl)
  OBVIOUS
<1>3. /\ end \in 0 .. Len(carry)
      /\ end # 0 => carry[end].nl /\ \A i \in 1 .. end - 1 : ~carry[i].nl
      /\ end = 0 => \A i \in 1 .. Len(carry) : ~carry[i].nl
  BY <1>1, <1>2, FirstLine
<1>4. Len(carry) \in Nat /\ end \in Nat
  BY <1>1, <1>3 DEF Buffer
<1>5. CASE UNCHANGED <<carry, parsed, last, torn>>
  <2>1. UNCHANGED <<kind, wire, sent, midLine, link, clients, sessionCarry, queue, drops>> /\ loop # "end"
    BY DEF LoopScan, configVars, peerVars, sessionVars, byteQueueVars
  <2> QED BY <1>5, <2>1, NothingMoved
<1>6. CASE /\ end > 0
           /\ ProcessLine(SubSeq(carry, 1, end))
           /\ carry' = SubSeq(carry, end + 1, Len(carry))
  <2>1. PICK l, r : l = SubSeq(carry, 1, end) /\ r = SubSeq(carry, end + 1, Len(carry))
    OBVIOUS
  <2>2. l \in Buffer /\ r \in Buffer /\ Len(l) = end /\ carry = l \o r
    BY <1>1, <1>3, <2>1, Parted
  <2>3. \A i \in 1 .. end : carry[i] = l[i]
    BY <2>2, Joined
  <2>4. l # <<>>
    <3>1. Len(<<>>) = 0
      OBVIOUS
    <3> QED BY <1>4, <1>6, <2>2, <3>1
  <2>5. EndsLine(l) /\ \A i \in 1 .. Len(l) - 1 : ~l[i].nl
    <3>1. end # 0 /\ end \in 1 .. end /\ \A i \in 1 .. end - 1 : i \in 1 .. end
      BY <1>4, <1>6
    <3> QED BY <1>3, <2>2, <2>3, <3>1 DEF EndsLine
  <2>6. ProcessLine(l) /\ carry' = r
    BY <1>6, <2>1
  <2> QED BY <2>2, <2>4, <2>5, <2>6, LineTaken
<1>7. CASE end = 0 /\ loop' = "end" /\ carry # <<>> /\ ProcessLine(carry) /\ carry' = <<>>
  <2>1. PICK e \in Buffer : e = <<>>
    BY EmptySeq DEF Buffer
  <2>2. carry = carry \o e /\ carry' = e
    BY <1>1, <1>7, <2>1, NothingJoined
  <2>3. \A i \in 1 .. Len(carry) - 1 : ~carry[i].nl
    BY <1>3, <1>4, <1>7
  <2> QED BY <1>1, <1>7, <2>2, <2>3, LineTaken
<1> QED BY <1>2, <1>5, <1>6, <1>7 DEF LoopScan

LEMMA WholeStep == QueueInv /\ WholeInv /\ [LinesNext]_linesVars => WholeInv'
<1> SUFFICES ASSUME QueueInv, WholeInv, [LinesNext]_linesVars PROVE WholeInv'
  OBVIOUS
<1> DEFINE Still == /\ loop' # "end" => loop # "end"
                    /\ UNCHANGED <<kind, wire, sent, midLine, link, clients, sessionCarry, queue, carry, last, torn, drops>>
<1>0. Still => WholeInv'
  BY NothingMoved
<1>1. ASSUME NEW p \in Peers, Send(p) \/ Connect(p) \/ HangUp(p) \/ LoseLine(p) PROVE WholeInv'
  BY <1>1, SendWhole, ConnectWhole, HangUpWhole, LoseLineWhole
<1>2. ASSUME NEW p \in Peers, OnAccept(p) \/ OnRead(p) \/ OnReadError(p) \/ OnReceive(p) PROVE WholeInv'
  BY <1>2, OnAcceptWhole, OnReadWhole, OnReadErrorWhole, OnReceiveWhole
<1>3. CASE OnPostedClose \/ RunReturns
  <2>1. Still
    BY <1>3 DEF OnPostedClose, RunReturns, configVars, peerVars, sessionVars, byteQueueVars, loopVars
  <2> QED BY <1>0, <2>1
<1>4. CASE StdinHead \/ StdinPoll \/ StdinExit
  <2>1. Still
    BY <1>4 DEF StdinHead, StdinPoll, StdinExit, configVars, peerVars, sessionVars, byteQueueVars, loopVars
  <2> QED BY <1>0, <2>1
<1>5. CASE StdinRead
  BY <1>5, StdinReadWhole
<1>6. ASSUME NEW s \in Stoppers, StopBegin(s) \/ StopWon(s) \/ StopJoined(s) \/ StopLatched(s) PROVE WholeInv'
  <2>1. Still
    BY <1>6 DEF StopBegin, StopWon, StopJoined, StopLatched, configVars, peerVars, sessionVars, byteQueueVars, loopVars
  <2> QED BY <1>0, <2>1
<1>7. CASE RequestLoopStop \/ LoopCheck \/ LoopWait
  <2>1. Still
    BY <1>7 DEF RequestLoopStop, LoopCheck, LoopWait, configVars, peerVars, sessionVars, byteQueueVars
  <2> QED BY <1>0, <2>1
<1>8. CASE LoopRead \/ LoopScan
  BY <1>8, LoopReadWhole, LoopScanWhole
<1>9. CASE UNCHANGED linesVars
  <2>1. Still
    BY <1>9 DEF linesVars, configVars, peerVars, sessionVars, byteQueueVars, loopVars
  <2> QED BY <1>0, <2>1
<1>10. ASSUME LinesNext PROVE WholeInv'
  <2>1. Callers \subseteq Stoppers
    BY ProducersAssumption DEF Callers
  <2> QED BY <1>1, <1>2, <1>3, <1>4, <1>5, <1>6, <1>7, <1>8, <1>10, <2>1
          DEF LinesNext, PeerStep, ProducerWorker, StopReturns, Loop
<1> QED BY <1>9, <1>10

LEMMA WholeIs == QueueInv /\ WholeInv => LinesKeptWhole
<1> SUFFICES ASSUME QueueInv, WholeInv PROVE LinesKeptWhole
  OBVIOUS
<1>1. TornOnlyByDrops
  BY DEF WholeInv, SeamsCounted, TornOnlyByDrops
<1>2. ASSUME kind # "udp", NEW p \in Peers, NEW i \in DOMAIN Held(p), Held(p)[i].peer = p
      PROVE  /\ last[p] < Held(p)[i].at
             /\ \A j \in 1 .. i - 1 : Held(p)[j].peer = p => Held(p)[j].at < Held(p)[i].at
  <2>1. /\ carry \o queue \in Buffer /\ sessionCarry \in [Peers -> Buffer] /\ wire \in [Peers -> Buffer]
    BY <1>2, Buffers DEF QueueInv
  <2>2. PICK h, w \in Buffer : h = Held(p) /\ w = wire[p]
    <3>1. sessionCarry[p] \in Buffer /\ wire[p] \in Buffer
      BY <2>1
    <3>2. Held(p) \in Buffer
      BY <2>1, <3>1, Joined DEF Held
    <3> QED BY <3>1, <3>2
  <2>3. InOrder(h \o w, p, last[p], sent[p])
    BY <1>2, <2>2 DEF WholeInv, StreamsRise, StreamRises, Stream, Held
  <2>4. InOrder(h, p, last[p], sent[p])
    BY <2>3, OrderJoins
  <2>5. i \in 1 .. Len(h) /\ Len(h) \in Nat
    BY <1>2, <2>2 DEF Buffer
  <2>6. ASSUME NEW j \in 1 .. i - 1, h[j].peer = p PROVE h[j].at < h[i].at
    <3>1. j \in 1 .. Len(h) /\ j < i
      BY <2>5
    <3> QED BY <1>2, <2>2, <2>4, <2>5, <2>6, <3>1 DEF InOrder, Rising
  <2> QED BY <1>2, <2>2, <2>4, <2>5, <2>6 DEF InOrder, Within
<1>3. StreamInOrder
  BY <1>2 DEF StreamInOrder
<1> QED BY <1>1, <1>3 DEF LinesKeptWhole

(* Lines of concurrent peers stay whole and in order but for the drops:    *)
(* every line the parser tears is paid for by a drop of the full queue,    *)
(* and no stream is reordered or delivered twice, for any number of peers, *)
(* any lines, cap and chunk sizes.                                         *)
THEOREM LinesStayWhole == LinesSpec => []LinesKeptWhole
<1>1. LinesInit => QueueInv /\ WholeInv
  BY QueueInit, WholeInit
<1>2. QueueInv /\ WholeInv /\ [LinesNext]_linesVars => (QueueInv /\ WholeInv)'
  BY QueueStep, WholeStep
<1>3. QueueInv /\ WholeInv => LinesKeptWhole
  BY WholeIs
<1> QED BY <1>1, <1>2, <1>3, PTL DEF LinesSpec
====
