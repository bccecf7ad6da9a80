--------------------------- MODULE SingleInstance ---------------------------
(***************************************************************************)
(* SingleInstanceGuard: a launch forwards its files to the process that    *)
(* listens on a local socket and exits, or takes the socket over and runs. *)
(* Several launches run TryAcquire at once; each of its system calls is a  *)
(* step, and a process may crash or time out at every one of them.         *)
(***************************************************************************)
EXTENDS Integers, FiniteSets, FiniteSetsExt

CONSTANTS
    Procs,          \* the launches of the scenario, one process each
    MaxForwarded,   \* MAX_FORWARDED_FILES
    FileCounts,     \* how many files a launch may name
    MaxSlow,        \* bound: timeouts that expire against a live process
    MaxGuardCrashes \* bound: crashes

NoProc == "none"
NoConn == [to |-> NoProc, frame |-> "none"]

ASSUME GuardAssumption ==
    /\ IsFiniteSet(Procs) /\ NoProc \notin Procs /\ FileCounts \subseteq Nat
    /\ MaxForwarded \in Nat \ {0} /\ MaxSlow \in Nat /\ MaxGuardCrashes \in Nat

VARIABLES
    launch,     \* where a process is in main and TryAcquire
    files,      \* forwardFiles, and what of it fits the wire
    conn,       \* the connection a secondary holds to a primary
    bound,      \* the process the socket name leads to, or NoProc
    listening,  \* processes whose mServer listens
    takeover,   \* holder of the takeover lock
    opened,     \* windows opened for a launch, and the files they were told of
    slow, guardCrashes, \* bounds used up
    contended   \* history: a launch began while another was acquiring, a timeout
                \* expired against a live process, or a frame did not fit

guardVars == <<launch, files, conn, bound, listening, takeover, opened, slow,
               guardCrashes, contended>>

Alive(p) == p \in Procs /\ launch[p] \notin {"off", "crashed", "exited"}
Acquiring(p) == launch[p] \in {"probe", "sent", "lock", "retry", "resent",
                               "remove", "listen", "late", "latesent"}

GuardInit ==
    /\ launch = [p \in Procs |-> "off"]
    /\ files = [p \in Procs |-> [asked |-> 0, sent |-> 0]]
    /\ conn = [p \in Procs |-> NoConn]
    /\ bound = NoProc /\ listening = {} /\ takeover = NoProc
    /\ opened = [p \in Procs |-> <<0, 0, 0>>]
    /\ slow = 0 /\ guardCrashes = 0 /\ contended = FALSE

-----------------------------------------------------------------------------
(* The files a frame carries: the count cap, then as many as the byte cap *)
(* admits.  A frame whose files were all trimmed away does not fit.        *)
Trimmed(asked, fit) == Min({asked, fit, MaxForwarded})
PayloadFits(f) == f.asked = 0 \/ f.sent > 0

(* A process that runs opens its own window for the files of its launch.  *)
Run(p) ==
    /\ launch' = [launch EXCEPT ![p] = "run"]
    /\ opened' = [opened EXCEPT ![p] = <<@[1] + 1, files[p].asked, 0>>]

(* --new-instance and stdin launches bypass the guard.                     *)
Launch(p, alone, asked, fit) ==
    /\ launch[p] = "off"
    /\ files' = [files EXCEPT ![p] = [asked |-> asked, sent |-> Trimmed(asked, fit)]]
    /\ IF alone
         THEN /\ launch' = [launch EXCEPT ![p] = "run"]
              /\ opened' = [opened EXCEPT ![p] = <<1, asked, 0>>]
              /\ UNCHANGED contended
         ELSE /\ launch' = [launch EXCEPT ![p] = IF PayloadFits(files'[p]) THEN "probe" ELSE "lock"]
              /\ contended' = (contended \/ ~PayloadFits(files'[p]) \/ \E q \in Procs : Acquiring(q))
              /\ UNCHANGED opened
    /\ UNCHANGED <<conn, bound, listening, takeover, slow, guardCrashes>>

Reachable == bound \in listening /\ Alive(bound)

(* Connect to whoever the name leads to and write the frame; the write    *)
(* buffers completely or leaves bytes pending when the primary is stalled. *)
Awaits == [probe |-> "sent", retry |-> "resent", late |-> "latesent"]
Connect(p, whole) ==
    /\ launch[p] \in DOMAIN Awaits
    /\ PayloadFits(files[p])
    /\ Reachable
    /\ conn' = [conn EXCEPT ![p] = [to |-> bound, frame |-> IF whole THEN "whole" ELSE "partial"]]
    /\ launch' = [launch EXCEPT ![p] = Awaits[@]]
    /\ UNCHANGED <<files, bound, listening, takeover, opened, slow, guardCrashes, contended>>

(* Where a failed forward leads: from the probe to the takeover, from a    *)
(* retry to a process that runs without a socket.                          *)
GiveUp(p) ==
    IF launch[p] \in {"probe", "sent"}
      THEN launch' = [launch EXCEPT ![p] = "lock"] /\ UNCHANGED <<opened, takeover>>
      ELSE /\ Run(p)
           /\ takeover' = IF launch[p] \in {"late", "latesent"} THEN NoProc ELSE takeover

(* Nothing listens, or the connect timed out, or there is no frame to send. *)
ConnectFails(p) ==
    /\ launch[p] \in DOMAIN Awaits
    /\ \/ ~PayloadFits(files[p]) /\ UNCHANGED <<slow, contended>>
       \/ ~Reachable /\ UNCHANGED <<slow, contended>>
       \/ Reachable /\ slow < MaxSlow /\ slow' = slow + 1 /\ contended' = TRUE
    /\ GiveUp(p)
    /\ UNCHANGED <<files, conn, bound, listening, guardCrashes>>

(* Disconnected by the other side (whatever its reason), or a timeout with *)
(* nothing left to write: the forward counts as done and the process exits. *)
Forwarded(p) ==
    /\ launch[p] \in {"sent", "resent", "latesent"}
    /\ \/ conn[p].frame = "closed" /\ UNCHANGED <<slow, contended>>
       \/ /\ conn[p].frame = "whole"
          /\ slow < MaxSlow /\ slow' = slow + 1 /\ contended' = TRUE
    /\ launch' = [launch EXCEPT ![p] = "exited"]
    /\ takeover' = IF launch[p] = "latesent" THEN NoProc ELSE takeover
    /\ UNCHANGED <<files, conn, bound, listening, opened, guardCrashes>>

(* The timeout expires while connected with bytes pending.                 *)
\* mutant: every unacknowledged forward counts as stalled
StalledIfUnacknowledged(p) == conn[p].frame \in {"partial", "whole"}
Stalled(p) == conn[p].frame = "partial"
ForwardStalls(p) ==
    /\ launch[p] \in {"sent", "resent", "latesent"}
    /\ Stalled(p)
    /\ slow < MaxSlow /\ slow' = slow + 1 /\ contended' = TRUE
    /\ GiveUp(p)
    /\ conn' = [conn EXCEPT ![p].frame = IF @ = "partial" THEN "closed" ELSE @]
    /\ UNCHANGED <<files, bound, listening, guardCrashes>>

(* The takeover lock: free, or left by a process that died.                *)
\* mutant: the takeover is not serialised
TakeoverFreeAlways == TRUE
TakeoverFree == takeover = NoProc \/ ~Alive(takeover)
TakeLock(p) ==
    /\ launch[p] = "lock" /\ TakeoverFree
    /\ takeover' = p
    /\ launch' = [launch EXCEPT ![p] = "remove"]
    /\ UNCHANGED <<files, conn, bound, listening, opened, slow, guardCrashes, contended>>

LockTimesOut(p) ==
    /\ launch[p] = "lock" /\ ~TakeoverFree
    /\ launch' = [launch EXCEPT ![p] = "retry"]
    /\ UNCHANGED <<files, conn, bound, listening, takeover, opened, slow, guardCrashes, contended>>

(* removeServer unlinks the name, whoever listens behind it.               *)
RemoveServer(p) ==
    /\ launch[p] = "remove"
    /\ bound' = NoProc
    /\ launch' = [launch EXCEPT ![p] = "listen"]
    /\ UNCHANGED <<files, conn, listening, takeover, opened, slow, guardCrashes, contended>>

Listen(p) ==
    /\ launch[p] = "listen" /\ bound = NoProc
    /\ bound' = p /\ listening' = listening \union {p}
    /\ takeover' = NoProc
    /\ Run(p)
    /\ UNCHANGED <<files, conn, slow, guardCrashes, contended>>

(* listen fails: the name was bound meanwhile, or the path is unusable.    *)
ListenFails(p) ==
    /\ launch[p] = "listen"
    /\ launch' = [launch EXCEPT ![p] = "late"]
    /\ UNCHANGED <<files, conn, bound, listening, takeover, opened, slow, guardCrashes, contended>>

(* The primary decodes a complete frame, opens the window and disconnects. *)
HandleNewConnection(q, p) ==
    /\ q \in listening /\ Alive(q)
    /\ conn[p] = [to |-> q, frame |-> "whole"]
    /\ opened' = [opened EXCEPT ![p] =
                    <<@[1] + 1, files[p].sent, files[p].asked - files[p].sent>>]
    /\ conn' = [conn EXCEPT ![p].frame = "closed"]
    /\ UNCHANGED <<launch, files, bound, listening, takeover, slow, guardCrashes, contended>>

(* The idle watchdog drops a peer whose frame never completes.             *)
DropIdle(q, p) ==
    /\ q \in listening /\ Alive(q)
    /\ conn[p] = [to |-> q, frame |-> "partial"]
    /\ conn' = [conn EXCEPT ![p].frame = "closed"]
    /\ UNCHANGED <<launch, files, bound, listening, takeover, opened, slow, guardCrashes, contended>>

(* The destructor: drop the connections, close, unlink the name.           *)
DropConnections(q) ==
    [p \in Procs |-> IF conn[p].to = q THEN [conn[p] EXCEPT !.frame = "closed"] ELSE conn[p]]
\* mutant: the destructor leaves the server to the operating system
QuitKeepsListening(p) ==
    /\ launch[p] = "run"
    /\ launch' = [launch EXCEPT ![p] = "exited"]
    /\ conn' = DropConnections(p)
    /\ bound' = IF p \in listening THEN NoProc ELSE bound
    /\ UNCHANGED <<listening, files, takeover, opened, slow, guardCrashes, contended>>
\* mutant: a process without a server unlinks the name too
QuitUnlinksAlways(p) ==
    /\ launch[p] = "run"
    /\ launch' = [launch EXCEPT ![p] = "exited"]
    /\ listening' = listening \ {p}
    /\ conn' = DropConnections(p)
    /\ bound' = NoProc
    /\ UNCHANGED <<files, takeover, opened, slow, guardCrashes, contended>>
Quit(p) ==
    /\ launch[p] = "run"
    /\ launch' = [launch EXCEPT ![p] = "exited"]
    /\ listening' = listening \ {p}
    /\ conn' = DropConnections(p)
    /\ bound' = IF p \in listening THEN NoProc ELSE bound
    /\ UNCHANGED <<files, takeover, opened, slow, guardCrashes, contended>>

(* A crash leaves the socket file and the lock file behind.                *)
GuardCrash(p) ==
    /\ Alive(p) /\ guardCrashes < MaxGuardCrashes
    /\ guardCrashes' = guardCrashes + 1
    /\ launch' = [launch EXCEPT ![p] = "crashed"]
    /\ listening' = listening \ {p}
    /\ conn' = [DropConnections(p) EXCEPT ![p].frame = IF @ = "partial" THEN "closed" ELSE @]
    /\ UNCHANGED <<files, bound, takeover, opened, slow, contended>>

GuardNext ==
    \E p \in Procs :
        \/ \E alone \in BOOLEAN, n \in FileCounts : \E fit \in 0..n : Launch(p, alone, n, fit)
        \/ \E whole \in BOOLEAN : Connect(p, whole)
        \/ ConnectFails(p) \/ Forwarded(p) \/ ForwardStalls(p)
        \/ TakeLock(p) \/ LockTimesOut(p) \/ RemoveServer(p) \/ Listen(p) \/ ListenFails(p)
        \/ \E q \in Procs : HandleNewConnection(p, q) \/ DropIdle(p, q)
        \/ Quit(p) \/ GuardCrash(p)

GuardSpec == GuardInit /\ [][GuardNext]_guardVars

-----------------------------------------------------------------------------
GuardTypeOK ==
    /\ launch \in [Procs -> {"off", "probe", "sent", "lock", "retry", "resent", "remove",
                             "listen", "late", "latesent", "run", "exited", "crashed"}]
    /\ \A p \in Procs : conn[p].to \in Procs \union {NoProc}
    /\ bound \in Procs \union {NoProc} /\ takeover \in Procs \union {NoProc}
    /\ listening \subseteq {p \in Procs : launch[p] = "run"}
    /\ contended \in BOOLEAN

(* A launch never opens two windows, whatever times out: TryAcquire lets a *)
(* process run on only when the frame it tried to forward can no longer be *)
(* decoded.  The files a window is told of, opened or dropped on the way,  *)
(* are the files of the launch.                                            *)
OneWindowPerLaunch ==
    \A p \in Procs :
        /\ opened[p][1] <= 1
        /\ opened[p][1] = 1 => opened[p][2] + opened[p][3] = files[p].asked

(* Launches that do not overlap and meet no timeout leave one primary: the *)
(* name leads to it, so the next launch finds it.                          *)
SerialLaunchesOnePrimary ==
    ~contended => /\ Cardinality(listening) <= 1
                  /\ \A p \in listening : bound = p

(* Only one process at a time is between removeServer and listen, so none *)
(* unlinks a socket that another one is about to bind (the comment in      *)
(* TryAcquire: "Serialise the racy removeServer + listen pair").           *)
TakeoverExclusive ==
    \A p, q \in Procs :
        launch[p] \in {"remove", "listen"} /\ launch[q] \in {"remove", "listen"} => p = q

(* One takeover at a time, and undisturbed launches leave one primary.     *)
OnePrimary == GuardTypeOK /\ SerialLaunchesOnePrimary /\ TakeoverExclusive

(* The class comment: "Cross-process coordinator that funnels every launch *)
(* to the first running instance", "so the user sees a single application". *)
SingleApplication == Cardinality(listening) <= 1
=============================================================================
