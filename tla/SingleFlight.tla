--------------------------- MODULE SingleFlight ---------------------------
(***************************************************************************)
(* SingleFlight, the one lock of surfacecheckd: at most one mutating or    *)
(* interactive operation at a time, and a cancellation flag that another   *)
(* client raises by naming the operation's id and its generation.          *)
(*                                                                         *)
(* Every method runs under one mutex and is one step.  A request id is     *)
(* chosen by the client: the command line derives it from its arguments,   *)
(* so the same command comes back under the same id.  The generations      *)
(* start again with the daemon.                                            *)
(***************************************************************************)
EXTENDS Naturals, FiniteSets

CONSTANTS
  Worker,           \* the threads of the daemon
  OpId,             \* the request ids clients use
  GenerationLimit,  \* 2^64: generations are u64
  MaxLeases,        \* bound: the leases of all runs of the daemon together
  MaxBoots          \* bound: the restarts of the daemon

\* No run of the daemon lasts for 2^64 operations: a generation that wraps
\* names two leases.
ASSUME FlightAssumption ==
  /\ GenerationLimit \in Nat
  /\ MaxLeases \in Nat
  /\ MaxBoots \in Nat
  /\ MaxLeases < GenerationLimit

VARIABLES
  active,           \* the lease in flight: no element, or one
  nextGeneration,   \* the generation given out last
  cancelled,        \* the serials of the leases whose flag is raised
  lease,            \* what begin returned to each thread, until it finishes
  boot,             \* history: the current run of the daemon
  begun,            \* history: how many leases there have been
  seen,             \* history: the leases a status answer has reported
  strikes           \* history: the lease each cancel was meant for and hit

flightVars == <<active, nextGeneration, cancelled, lease, boot, begun, seen,
                strikes>>

\* The serial stands for the identity of the flag, which the lease and its
\* clones share and no other lease does.
Lease == [id : OpId, generation : Nat, serial : Nat, boot : Nat]

SameId(l, m) == l.id = m.id
SameLease(l, m) == l.id = m.id /\ l.generation = m.generation

\* wrapping_add(1).max(1)
GenerationAfterMax(g) == ((IF g = 0 THEN 1 ELSE g) + 1) % GenerationLimit
GenerationAfter(g) ==
  LET next == (g + 1) % GenerationLimit
  IN IF next = 0 THEN 1 ELSE next

FreshLease(id) ==
  [id |-> id, generation |-> GenerationAfter(nextGeneration),
   serial |-> begun + 1, boot |-> boot]

FlightFree == active = {}

-----------------------------------------------------------------------------

\* begin: the caller for whom FlightFree is false gets ActiveOperation.
BeginUnchecked(w, id) ==
  /\ lease[w] = {}
  /\ begun < MaxLeases
  /\ active' = {FreshLease(id)}
  /\ nextGeneration' = GenerationAfter(nextGeneration)
  /\ lease' = [lease EXCEPT ![w] = {FreshLease(id)}]
  /\ begun' = begun + 1
  /\ UNCHANGED <<cancelled, boot, seen, strikes>>

Begin(w, id) ==
  /\ FlightFree
  /\ lease[w] = {}
  /\ begun < MaxLeases
  /\ active' = {FreshLease(id)}
  /\ nextGeneration' = GenerationAfter(nextGeneration)
  /\ lease' = [lease EXCEPT ![w] = {FreshLease(id)}]
  /\ begun' = begun + 1
  /\ UNCHANGED <<cancelled, boot, seen, strikes>>

\* finish, with the lease begin returned.
Finish(w) ==
  /\ lease[w] # {}
  /\ active' = {l \in active : \A own \in lease[w] : ~SameLease(l, own)}
  /\ lease' = [lease EXCEPT ![w] = {}]
  /\ UNCHANGED <<nextGeneration, cancelled, boot, begun, seen, strikes>>

\* cancel: raises the flag of the lease in flight if the id and generation,
\* those of a lease that was seen once, are its own.
CancelById(target) ==
  LET hit == {l \in active : SameId(l, target)}
  IN /\ cancelled' = cancelled \cup {l.serial : l \in hit}
     /\ strikes' = strikes \cup {[meant |-> target, hit |-> l] : l \in hit}
     /\ UNCHANGED <<active, nextGeneration, lease, boot, begun, seen>>

Cancel(target) ==
  LET hit == {l \in active : SameLease(l, target)}
  IN /\ cancelled' = cancelled \cup {l.serial : l \in hit}
     /\ strikes' = strikes \cup {[meant |-> target, hit |-> l] : l \in hit}
     /\ UNCHANGED <<active, nextGeneration, lease, boot, begun, seen>>

\* active: a status answer tells a client what is in flight.
Observe ==
  /\ seen' = seen \cup active
  /\ UNCHANGED <<active, nextGeneration, cancelled, lease, boot, begun, strikes>>

\* The daemon stops in the middle of anything and is started again.  What the
\* clients know of the leases stays with them.
Restart ==
  /\ boot < MaxBoots
  /\ boot' = boot + 1
  /\ active' = {}
  /\ nextGeneration' = 0
  /\ lease' = [w \in Worker |-> {}]
  /\ UNCHANGED <<cancelled, begun, seen, strikes>>

-----------------------------------------------------------------------------

FlightInit ==
  /\ active = {} /\ nextGeneration = 0 /\ cancelled = {}
  /\ lease = [w \in Worker |-> {}]
  /\ boot = 0 /\ begun = 0 /\ seen = {} /\ strikes = {}

FlightNext ==
  \/ \E w \in Worker, id \in OpId : Begin(w, id)
  \/ \E w \in Worker : Finish(w)
  \/ \E target \in seen : Cancel(target)
  \/ Observe
  \/ Restart

FlightSpec == FlightInit /\ [][FlightNext]_flightVars

-----------------------------------------------------------------------------
\* Properties

\* Every variable stays in its range.
FlightTypeOK ==
  /\ active \subseteq Lease
  /\ nextGeneration \in 0..MaxLeases
  /\ cancelled \subseteq 1..begun
  /\ lease \in [Worker -> SUBSET Lease]
  /\ boot \in 0..MaxBoots
  /\ begun \in 0..MaxLeases
  /\ seen \subseteq Lease
  /\ strikes \subseteq [meant : Lease, hit : Lease]

\* One operation at a time: no two threads ever hold a lease together, and the
\* one that holds one holds the lease in flight, so that its finish frees the
\* daemon.
OneFlight ==
  /\ \A w \in Worker : lease[w] \in {{}, active}
  /\ \A v, w \in Worker : lease[v] # {} /\ lease[w] # {} => v = w
  /\ \A l, m \in active : l = m

\* Within a run of the daemon, a cancellation that arrives late never reaches
\* another operation than the one whose status it answered to, though clients
\* use the same request id again and again.
StaleCancelHarmless ==
  \A s \in strikes : s.meant.boot = s.hit.boot => s.meant = s.hit

\* What the architecture record and the security notes say of cancellation,
\* with no exception for a restart: an old request cannot cancel a newer
\* operation.
CancelHitsItsTarget == \A s \in strikes : s.meant = s.hit

============================================================================
