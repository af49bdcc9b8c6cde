--------------------------- MODULE RuntimeSocket ---------------------------
(***************************************************************************)
(* The runtime socket: how a daemon takes the one name by which clients    *)
(* find it.  RuntimePaths::bind looks whether a socket is there, connects  *)
(* to it, removes one that nobody answers, and binds: four system calls,   *)
(* between which another daemon that starts may do the same.               *)
(*                                                                         *)
(* A daemon of the systemd unit differs from one started by hand in what   *)
(* its end leaves behind: the unit owns the runtime directory, and systemd *)
(* removes it with all that is in it whenever the service stops, be it     *)
(* because it found another daemon running.                                *)
(***************************************************************************)
EXTENDS Naturals, FiniteSets

CONSTANTS
  Daemon,
  Managed,        \* the daemons run by the systemd unit
  MaxStarts       \* bound: how often daemons start

\* "dead": a socket file that nobody listens to.
NoOwner == {"absent", "dead"}

ASSUME SocketAssumption ==
  /\ Managed \subseteq Daemon /\ Daemon \cap NoOwner = {}
  /\ MaxStarts \in Nat

VARIABLES
  phase,          \* how far each daemon is
  socket,         \* whose listener the socket file names
  starts,         \* how many daemons have been started
  alone           \* history: no other start overlapped this daemon's, and
                  \* nobody has removed the runtime directory since

socketVars == <<phase, socket, starts, alone>>

StartPhases == {"exists", "connect", "remove", "bind", "listen"}
Starting(d) == phase[d] \in StartPhases
Up(d) == phase[d] = "up"

SocketInit ==
  /\ phase = [d \in Daemon |-> "down"]
  /\ socket \in NoOwner
  /\ starts = 0
  /\ alone = [d \in Daemon |-> FALSE]

SocketTypeOK ==
  /\ phase \in [Daemon -> StartPhases \cup {"down", "up"}]
  /\ socket \in NoOwner \cup Daemon
  /\ starts \in 0..MaxStarts
  /\ alone \in [Daemon -> BOOLEAN]

-----------------------------------------------------------------------------

Advance(d, p) ==
  /\ phase' = [phase EXCEPT ![d] = p]
  /\ UNCHANGED <<starts, alone>>

\* A start that overlaps another one spoils both.
StartDaemon(d) ==
  LET others == {e \in Daemon : Starting(e)}
  IN /\ phase[d] = "down"
     /\ starts < MaxStarts
     /\ starts' = starts + 1
     /\ phase' = [phase EXCEPT ![d] = "exists"]
     /\ alone' = [e \in Daemon |-> IF e = d THEN others = {}
                                   ELSE alone[e] /\ e \notin others]
     /\ UNCHANGED socket

\* self.socket.exists()
LookForSocket(d) ==
  /\ phase[d] = "exists"
  /\ Advance(d, IF socket = "absent" THEN "bind" ELSE "connect")
  /\ UNCHANGED socket

ProbeSocketNever(d) ==
  /\ phase[d] = "connect"
  /\ Advance(d, "remove")
  /\ UNCHANGED socket

\* UnixStream::connect: AlreadyRunning if somebody accepts; a socket that is
\* refused, or has gone, is to be removed.  Until its owner listens a bound
\* socket refuses too.
ProbeSocket(d) ==
  /\ phase[d] = "connect"
  /\ ~ \E e \in Daemon : socket = e /\ Up(e)
  /\ Advance(d, "remove")
  /\ UNCHANGED socket

\* fs::remove_file: whatever is there now.
RemoveSocket(d) ==
  /\ phase[d] = "remove"
  /\ socket # "absent"
  /\ socket' = "absent"
  /\ Advance(d, "bind")

\* UnixListener::bind, its first half: the name is taken, or it was taken by
\* another daemon and the start fails.
BindSocket(d) ==
  /\ phase[d] = "bind"
  /\ socket = "absent"
  /\ socket' = d
  /\ Advance(d, "listen")

\* Its second half; run_foreground accepts from then on.
Listen(d) ==
  /\ phase[d] = "listen"
  /\ Advance(d, "up")
  /\ UNCHANGED socket

\* The end of a daemon: a step of its start fails, for AlreadyRunning or
\* another error; accept or a thread's start fails; or it is stopped or killed.
\* The socket file stays, unless the unit's directory goes with the service.
EndDaemon(d) ==
  /\ phase[d] # "down"
  /\ phase' = [phase EXCEPT ![d] = "down"]
  /\ IF d \in Managed
     THEN /\ socket' = "absent"
          /\ alone' = [e \in Daemon |-> FALSE]
     ELSE /\ socket' = IF socket = d THEN "dead" ELSE socket
          /\ UNCHANGED alone
  /\ UNCHANGED starts

SocketNext ==
  \E d \in Daemon :
    \/ StartDaemon(d) \/ LookForSocket(d) \/ ProbeSocket(d) \/ RemoveSocket(d)
    \/ BindSocket(d) \/ Listen(d) \/ EndDaemon(d)

-----------------------------------------------------------------------------

\* `already running` is enforced without a lock: a daemon that started while
\* no other did is the one behind the socket for as long as it runs and its
\* directory is left alone.  So two daemons never serve side by side but when
\* their starts overlapped or the unit took the directory away from one.
AloneIsReached == \A d \in Daemon : Up(d) /\ alone[d] => socket = d

============================================================================
