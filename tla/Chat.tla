-------------------------------- MODULE Chat --------------------------------
(***************************************************************************)
(* The chat programs socket/tcp5 to socket/tcp9 (server.c, client.c).      *)
(*                                                                         *)
(* Each end forks once: one process reads the connection, the other writes *)
(* what the user types.  At the server the parent reads, at the client the *)
(* parent writes.  The two share the connection, but learn of its end      *)
(* separately: from tcp6 on a reader that gets 0 sends SIGUSR1 to its      *)
(* partner.  Lines are units; their assembly is the subject of LineReader  *)
(* and FrameReader.  Errors of the socket and a reset follow Linux.        *)
(***************************************************************************)
EXTENDS Integers, FiniteSets

CONSTANTS Versions,  \* which of the five pairs of programs are considered
          MaxLines,  \* bound on the lines a user types
          MaxKills   \* bound on the processes that are killed

ASSUME ChatAssumption ==
    /\ Versions \subseteq {"tcp5", "tcp6", "tcp7", "tcp8", "tcp9"}
    /\ MaxLines \in Nat
    /\ MaxKills \in Nat

Ends  == {"server", "client"}
Roles == {"reader", "writer"}
Procs == Ends \X Roles

Peer(e)   == IF e = "server" THEN "client" ELSE "server"
Reader(e) == <<e, "reader">>
Writer(e) == <<e, "writer">>
\* Who forked: the server's reader and the client's writer.
Parent(e) == IF e = "server" THEN Reader(e) ELSE Writer(e)
Child(e)  == IF e = "server" THEN Writer(e) ELSE Reader(e)

-----------------------------------------------------------------------------
(* The ten programs differ in the signals main() installs sigHandler for,   *)
(* in what the reader does when read returns 0, and in what the writer     *)
(* does when write returns -1.                                             *)

Program(signals, zero, minus) == [signals |-> signals, zero |-> zero, minus |-> minus]

Tcp5Server == Program({}, "exit", "exit")
Tcp5Client == Program({}, "loop", "exit")
Tcp6Server == Program({"SIGUSR1"}, "signal", "exit")
Tcp6Client == Program({"SIGUSR1"}, "signal", "exit")
Tcp7Server == Program({"SIGUSR1"}, "signal", "ignored")
Tcp7Client == Program({"SIGUSR1"}, "signal", "ignored")
Tcp8Server == Program({"SIGUSR1"}, "signal", "ignored")
Tcp8Client == Program({"SIGUSR1"}, "signal", "ignored")
Tcp9Server == Program({"SIGUSR1", "SIGPIPE"}, "signal", "ignored")
Tcp9Client == Program({"SIGUSR1", "SIGPIPE"}, "signal", "ignored")

Programs ==
    [tcp5 |-> [server |-> Tcp5Server, client |-> Tcp5Client],
     tcp6 |-> [server |-> Tcp6Server, client |-> Tcp6Client],
     tcp7 |-> [server |-> Tcp7Server, client |-> Tcp7Client],
     tcp8 |-> [server |-> Tcp8Server, client |-> Tcp8Client],
     tcp9 |-> [server |-> Tcp9Server, client |-> Tcp9Client]]

-----------------------------------------------------------------------------
VARIABLES version,  \* the pair of programs at hand
          pc,       \* where each process is
          linked,   \* the connection has been made
          inbox,    \* lines that have been sent to an end and not read there
          fin,      \* the other end has closed
          rst,      \* the connection has been reset
          err,      \* the error of the reset, which one call returns
          doomed,   \* a line went to an end that had closed: a reset is coming
          usr1,     \* SIGUSR1 is pending for the writer of an end
          typed,    \* lines each user has typed
          \* what the properties ask for
          wrote,    \* lines each writer has sent
          seen,     \* lines each reader has received
          heard,    \* what its read returned last: "lines", "zero", "error"
          stolen,   \* the error of the reset went to the writer of an end
          futile,   \* writes that failed and the writer went on
          strayed,  \* a SIGUSR1 went to another process
          killed    \* processes that somebody killed

tcp   == <<linked, inbox, fin, rst, err, doomed>>
ghost == <<wrote, seen, heard, stolen, futile, strayed, killed>>
vars  == <<version, pc, tcp, usr1, typed, ghost>>

Prog(e) == Programs[version][e]

Holding == {"accepted", "connected", "reading", "ended", "typing", "writing"}
Over    == {"zombie", "gone"}
States  == Holding \cup Over \cup {"boot", "unborn", "listening", "signal"}

Alive(p) == pc[p] \notin Over \cup {"unborn"}

TypeOK ==
    /\ version \in Versions
    /\ pc \in [Procs -> States]
    /\ linked \in BOOLEAN
    /\ inbox \in [Ends -> 0..MaxLines]
    /\ fin \in [Ends -> BOOLEAN] /\ rst \in [Ends -> BOOLEAN]
    /\ err \in [Ends -> BOOLEAN] /\ doomed \in [Ends -> BOOLEAN]
    /\ usr1 \in [Ends -> BOOLEAN]
    /\ typed \in [Ends -> 0..MaxLines]
    /\ wrote \in [Ends -> 0..MaxLines] /\ seen \in [Ends -> 0..MaxLines]
    /\ heard \in [Ends -> {"lines", "zero", "error"}]
    /\ stolen \in [Ends -> BOOLEAN]
    /\ futile \in [Ends -> 0..MaxLines]
    /\ strayed \in [Ends -> BOOLEAN]
    /\ killed \in SUBSET Procs

Init ==
    /\ version \in Versions
    /\ pc = [p \in Procs |-> IF p \in {Parent(e) : e \in Ends} THEN "boot" ELSE "unborn"]
    /\ linked = FALSE
    /\ inbox = [e \in Ends |-> 0]
    /\ fin = [e \in Ends |-> FALSE] /\ rst = [e \in Ends |-> FALSE]
    /\ err = [e \in Ends |-> FALSE] /\ doomed = [e \in Ends |-> FALSE]
    /\ usr1 = [e \in Ends |-> FALSE]
    /\ typed = [e \in Ends |-> 0]
    /\ wrote = [e \in Ends |-> 0] /\ seen = [e \in Ends |-> 0]
    /\ heard = [e \in Ends |-> "lines"]
    /\ stolen = [e \in Ends |-> FALSE]
    /\ futile = [e \in Ends |-> 0]
    /\ strayed = [e \in Ends |-> FALSE]
    /\ killed = {}

-----------------------------------------------------------------------------
(* Processes that end, and what the kernel does then *)

\* In the state x of the processes somebody has the connection open; before
\* accept it is the listening socket that keeps it.
OpenIn(x, e) ==
    \/ \E r \in Roles : x[<<e, r>>] \in Holding
    \/ e = "server" /\ linked /\ x[Reader(e)] = "listening"

Open(e) == OpenIn(pc, e)

\* Mutant: SIGCHLD is ignored, as in tcp9/echo_server.c, and no zombie keeps a pid.
EndingReaped(S) == [p \in Procs |-> IF p \in S THEN "gone" ELSE pc[p]]

\* The processes after those of S have ended.  A child is a zombie until its
\* parent, which never waits for it, is gone too.
Ending(S) ==
    [p \in Procs |->
        LET e == p[1]
            parentGone == Parent(e) \in S \/ pc[Parent(e)] = "gone"
        IN IF p \in S \/ pc[p] = "zombie"
           THEN IF p = Child(e) /\ ~parentGone THEN "zombie" ELSE "gone"
           ELSE pc[p]]

\* The processes become x.  An end nobody holds any more is closed: with a
\* reset if lines lie unread there or it was never accepted, and lines on
\* their way to the peer may be lost then, otherwise with a FIN.
Becomes(x) ==
    LET closing == {e \in Ends : Open(e) /\ ~OpenIn(x, e) /\ ~rst[e]}
        abrupt  == {e \in closing : inbox[e] > 0 \/ pc[Reader(e)] = "listening"}
    IN /\ pc' = x
       /\ fin' = [e \in Ends |-> fin[e] \/ Peer(e) \in closing \ abrupt]
       /\ rst' = [e \in Ends |-> rst[e] \/ Peer(e) \in abrupt]
       /\ err' = [e \in Ends |-> err[e] \/ Peer(e) \in abrupt]
       /\ \E n \in [Ends -> 0..MaxLines] :
            /\ \A e \in Ends : n[e] = inbox[e] \/ (Peer(e) \in abrupt /\ n[e] < inbox[e])
            /\ inbox' = n
       /\ UNCHANGED <<linked, doomed>>

Goes(p, s) == pc' = [pc EXCEPT ![p] = s]

-----------------------------------------------------------------------------
(* Starting *)

Listen ==
    /\ pc[Reader("server")] = "boot"
    /\ Goes(Reader("server"), "listening")
    /\ UNCHANGED <<version, tcp, usr1, typed, ghost>>

Connect ==
    /\ pc[Writer("client")] = "boot"
    /\ pc[Reader("server")] = "listening"
    /\ linked' = TRUE
    /\ Goes(Writer("client"), "connected")
    /\ UNCHANGED <<version, inbox, fin, rst, err, doomed, usr1, typed, ghost>>

ConnectRefused ==
    /\ pc[Writer("client")] = "boot"
    /\ pc[Reader("server")] # "listening"
    /\ Goes(Writer("client"), "gone")
    /\ UNCHANGED <<version, tcp, usr1, typed, ghost>>

Accept ==
    /\ pc[Reader("server")] = "listening" /\ linked
    /\ Goes(Reader("server"), "accepted")
    /\ UNCHANGED <<version, tcp, usr1, typed, ghost>>

Fork(e) ==
    /\ pc[Parent(e)] \in {"accepted", "connected"}
    /\ pc' = [pc EXCEPT ![Reader(e)] = "reading", ![Writer(e)] = "typing"]
    /\ UNCHANGED <<version, tcp, usr1, typed, ghost>>

ForkFails(e) ==
    /\ pc[Parent(e)] \in {"accepted", "connected"}
    /\ Becomes(Ending({Parent(e)}))
    /\ UNCHANGED <<version, usr1, typed, ghost>>

-----------------------------------------------------------------------------
(* The reader *)

ReadLine(e) ==
    /\ pc[Reader(e)] = "reading" /\ inbox[e] > 0
    /\ inbox' = [inbox EXCEPT ![e] = @ - 1]
    /\ seen' = [seen EXCEPT ![e] = @ + 1]
    /\ UNCHANGED <<version, pc, linked, fin, rst, err, doomed, usr1, typed,
                   wrote, heard, stolen, futile, strayed, killed>>

\* What has been received is read first; the error of a reset is returned to
\* the process that asks first, the other one gets 0.
AtEnd(e)   == pc[Reader(e)] = "reading" /\ inbox[e] = 0 /\ (fin[e] \/ rst[e])
AtError(e) == AtEnd(e) /\ ~fin[e] /\ err[e]

\* Mutant: every reader goes on after 0, like that of tcp5/client.c.
ReadZeroLoops(e) ==
    /\ AtEnd(e) /\ ~AtError(e)
    /\ heard' = [heard EXCEPT ![e] = "zero"]
    /\ UNCHANGED <<version, pc, tcp, usr1, typed, wrote, seen, stolen, futile, strayed, killed>>

ReadZero(e) ==
    /\ AtEnd(e) /\ ~AtError(e)
    /\ heard' = [heard EXCEPT ![e] = "zero"]
    /\ \/ Prog(e).zero = "signal" /\ Goes(Reader(e), "ended") /\ UNCHANGED tcp
       \/ Prog(e).zero = "loop" /\ UNCHANGED <<pc, tcp>>
       \/ Prog(e).zero = "exit" /\ Becomes(Ending({Reader(e)}))
    /\ UNCHANGED <<version, usr1, typed, wrote, seen, stolen, futile, strayed, killed>>

\* ERROR_EXIT: the partner is not told.
ReadError(e) ==
    /\ AtError(e)
    /\ heard' = [heard EXCEPT ![e] = "error"]
    /\ pc' = Ending({Reader(e)})
    /\ err' = [err EXCEPT ![e] = FALSE]
    /\ UNCHANGED <<version, linked, inbox, fin, rst, doomed, usr1, typed,
                   wrote, seen, stolen, futile, strayed, killed>>

CloseConn(e) ==
    /\ pc[Reader(e)] = "ended"
    /\ Becomes([pc EXCEPT ![Reader(e)] = "signal"])
    /\ UNCHANGED <<version, usr1, typed, ghost>>

\* kill(pid) at the server, whose child keeps its pid until it is waited for;
\* kill(getppid()) at the client, which names another process once the parent
\* has exited.
PartnerPid(e) ==
    IF e = "client" THEN Alive(Writer(e)) ELSE pc[Writer(e)] # "gone"

\* Mutant: the reader exits without telling its partner.
SignalForgotten(e) ==
    /\ pc[Reader(e)] = "signal"
    /\ pc' = Ending({Reader(e)})
    /\ UNCHANGED <<version, tcp, usr1, typed, ghost>>

SignalPartner(e) ==
    /\ pc[Reader(e)] = "signal"
    /\ usr1' = [usr1 EXCEPT ![e] = Alive(Writer(e))]
    /\ strayed' = [strayed EXCEPT ![e] = ~PartnerPid(e)]
    /\ pc' = Ending({Reader(e)})
    /\ UNCHANGED <<version, tcp, typed, wrote, seen, heard, stolen, futile, killed>>

-----------------------------------------------------------------------------
(* The writer *)

GetLine(e) ==
    /\ pc[Writer(e)] = "typing" /\ typed[e] < MaxLines
    /\ typed' = [typed EXCEPT ![e] = @ + 1]
    /\ Goes(Writer(e), "writing")
    /\ UNCHANGED <<version, tcp, usr1, ghost>>

\* Mutant: the writer shuts the connection down when its user has finished.
InputEndsShutdown(e) ==
    /\ pc[Writer(e)] = "typing"
    /\ fin' = [x \in Ends |-> TRUE]
    /\ pc' = Ending({Writer(e)})
    /\ UNCHANGED <<version, linked, inbox, rst, err, doomed, usr1, typed, ghost>>

\* fgets returns NULL: the descriptors are closed and the process exits, while
\* the reader of the same end keeps the connection.
InputEnds(e) ==
    /\ pc[Writer(e)] = "typing"
    /\ Becomes(Ending({Writer(e)}))
    /\ UNCHANGED <<version, usr1, typed, ghost>>

\* A line for an end that has closed is accepted too, and answered by a reset.
Write(e) ==
    /\ pc[Writer(e)] = "writing" /\ ~rst[e]
    /\ Goes(Writer(e), "typing")
    /\ wrote' = [wrote EXCEPT ![e] = @ + 1]
    /\ IF Open(Peer(e))
       THEN inbox' = [inbox EXCEPT ![Peer(e)] = @ + 1] /\ UNCHANGED doomed
       ELSE doomed' = [doomed EXCEPT ![e] = TRUE] /\ UNCHANGED inbox
    /\ UNCHANGED <<version, linked, fin, rst, err, usr1, typed,
                   seen, heard, stolen, futile, strayed, killed>>

GoesOn(e) ==
    /\ Goes(Writer(e), "typing")
    /\ futile' = [futile EXCEPT ![e] = @ + 1]

\* The first call after a reset returns its error, ECONNRESET, without a signal.
WriteError(e) ==
    /\ pc[Writer(e)] = "writing" /\ rst[e] /\ err[e]
    /\ err' = [err EXCEPT ![e] = FALSE]
    /\ stolen' = [stolen EXCEPT ![e] = TRUE]
    /\ \/ Prog(e).minus = "ignored" /\ GoesOn(e)
       \/ Prog(e).minus = "exit" /\ pc' = Ending({Writer(e)}) /\ UNCHANGED futile
    /\ UNCHANGED <<version, linked, inbox, fin, rst, doomed, usr1, typed,
                   wrote, seen, heard, strayed, killed>>

\* Mutant: SIGPIPE is ignored in every version, and so is the result.
WritePipeIgnored(e) ==
    /\ pc[Writer(e)] = "writing" /\ rst[e] /\ ~err[e]
    /\ GoesOn(e)
    /\ UNCHANGED <<version, tcp, usr1, typed, wrote, seen, heard, stolen, strayed, killed>>

\* Every other one is an EPIPE with SIGPIPE, which kills the writer or is
\* handled: then writen returns -1.
WritePipe(e) ==
    /\ pc[Writer(e)] = "writing" /\ rst[e] /\ ~err[e]
    /\ \/ "SIGPIPE" \in Prog(e).signals /\ Prog(e).minus = "ignored" /\ GoesOn(e)
       \/ "SIGPIPE" \notin Prog(e).signals /\ pc' = Ending({Writer(e)}) /\ UNCHANGED futile
    /\ UNCHANGED <<version, tcp, usr1, typed, wrote, seen, heard, stolen, strayed, killed>>

\* sigHandler exits, wherever the writer is.
HandleUsr1(e) ==
    /\ usr1[e] /\ Alive(Writer(e))
    /\ usr1' = [usr1 EXCEPT ![e] = FALSE]
    /\ Becomes(Ending({Writer(e)}))
    /\ UNCHANGED <<version, typed, ghost>>

-----------------------------------------------------------------------------
(* The network, the terminal, and whoever kills a process *)

ResetArrives(e) ==
    /\ doomed[e]
    /\ doomed' = [doomed EXCEPT ![e] = FALSE]
    /\ rst' = [rst EXCEPT ![e] = TRUE]
    /\ UNCHANGED <<version, pc, linked, inbox, fin, err, usr1, typed, ghost>>

\* SIGKILL to one process, or to both: the interrupt key, while the parent is
\* the job in the foreground.
Kill(S) ==
    /\ S # {} /\ \A p \in S : Alive(p)
    /\ killed' = killed \cup S
    /\ Becomes(Ending(S))
    /\ UNCHANGED <<version, usr1, typed, wrote, seen, heard, stolen, futile, strayed>>

Interrupt(e) ==
    /\ pc[Parent(e)] \notin Over
    /\ Kill({p \in {Parent(e), Child(e)} : Alive(p)})

KillOne(p) == Cardinality(killed) < MaxKills /\ Kill({p})

-----------------------------------------------------------------------------
Serve(e) ==
    \/ ReadLine(e) \/ ReadZero(e) \/ ReadError(e)
    \/ CloseConn(e) \/ SignalPartner(e)
    \/ Write(e) \/ WriteError(e) \/ WritePipe(e) \/ HandleUsr1(e)

User(e) == GetLine(e) \/ InputEnds(e) \/ Interrupt(e)

Next ==
    \/ Listen \/ Connect \/ ConnectRefused \/ Accept
    \/ \E e \in Ends : Fork(e) \/ ForkFails(e) \/ Serve(e) \/ User(e) \/ ResetArrives(e)
    \/ \E p \in Procs : KillOne(p)

Spec == Init /\ [][Next]_vars

\* Processes run and segments arrive; users type, or stop, when they like.
Fairness ==
    /\ WF_vars(Accept)
    /\ \A e \in Ends : /\ WF_vars(Fork(e)) /\ WF_vars(ResetArrives(e))
                       /\ WF_vars(ReadLine(e)) /\ WF_vars(ReadZero(e))
                       /\ WF_vars(ReadError(e)) /\ WF_vars(CloseConn(e))
                       /\ WF_vars(SignalPartner(e)) /\ WF_vars(HandleUsr1(e))
                       /\ WF_vars(Write(e) \/ WriteError(e) \/ WritePipe(e))

FairSpec == Spec /\ Fairness

-----------------------------------------------------------------------------
(* Properties *)

\* A reader that is told 0 has received every line the other user sent, unless
\* the writer of its own end has taken the error of a reset away from it: then
\* "server close" is printed although lines were lost.  (tcp6 to tcp9: the 0 of
\* read, readn and readline; writen's result is looked at by nobody.)
ZeroMeansAll ==
    \A e \in Ends : heard[e] = "zero" /\ ~stolen[e] => seen[e] = wrote[Peer(e)]

\* SIGUSR1 never goes to another process: the server's pid is a child that has
\* not been waited for, and getppid names a stranger only at a client whose
\* user has ended the input, or whose writer ended some other way, before.
SignalsStayHome ==
    \A e \in Ends : strayed[e] => e = "client" /\ ~Alive(Writer(e))

\* How long a writer goes on into a connection that was reset: not at all when
\* it looks at the result of write, one line when SIGPIPE is left to kill it,
\* and for ever in tcp9, where it is handled and the result ignored.
FutileLines(v) == IF v \in {"tcp5", "tcp6"} THEN 0 ELSE IF v = "tcp9" THEN MaxLines ELSE 1

StopsAfterReset == \A e \in Ends : futile[e] <= FutileLines(version)

\* From tcp6 on a reader that saw the end of the connection takes its partner
\* along, wherever that one is, unless somebody kills the reader before.
PartnerFollows ==
    \A e \in Ends :
        heard[e] = "zero" /\ Prog(e).zero = "signal"
            ~> pc[Writer(e)] \in Over \/ Reader(e) \in killed

\* When all processes of one end are gone the reader of the other ends too
\* (that of the client of tcp5 reads 0 for ever).
EndReachesPeer ==
    \A e \in Ends :
        linked /\ ~Open(e) ~> \/ pc[Reader(Peer(e))] \in Over
                              \/ ~Open(Peer(e))
                              \/ Prog(Peer(e)).zero = "loop" /\ heard[Peer(e)] = "zero"
=============================================================================
