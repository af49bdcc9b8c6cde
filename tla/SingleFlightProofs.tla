------------------------ MODULE SingleFlightProofs ------------------------
(***************************************************************************)
(* The single-flight lock for any number of threads, ids, leases and       *)
(* restarts.  The argument is about names: within a run of the daemon no   *)
(* two leases that anyone can still name, the one in flight and those seen *)
(* by clients, share a generation, because the generation given out last   *)
(* is at least as large as that of each of them.                           *)
(***************************************************************************)
EXTENDS SingleFlight, TLAPS

\* The leases a cancel or a finish can name.
Named == active \cup seen

\* Generations count the leases of a run, so that they never wrap.
GenerationsCount == nextGeneration <= begun

\* A named lease was given out before now, and the one in flight in this run.
NamedArePast ==
  /\ \A l \in active : l.boot = boot
  /\ \A l \in Named : /\ l.boot <= boot
                      /\ l.boot = boot => l.generation <= nextGeneration

\* A generation names one lease of a run.
NamesDiffer ==
  \A l, m \in Named : l.boot = m.boot /\ l.generation = m.generation => l = m

\* The serial of a named lease, which its flag is filed under.
SerialsBegun == \A l \in Named : l.serial \in 1..begun

FlightInv ==
  /\ FlightTypeOK
  /\ GenerationsCount
  /\ NamedArePast
  /\ NamesDiffer
  /\ SerialsBegun
  /\ OneFlight
  /\ StaleCancelHarmless

-----------------------------------------------------------------------------

\* Below the limit, the next generation is the next number.
LEMMA NextGeneration ==
  ASSUME NEW g \in Nat, g + 1 < GenerationLimit
  PROVE  GenerationAfter(g) = g + 1
<1>1. GenerationLimit \in Nat
  BY FlightAssumption
<1>2. (g + 1) % GenerationLimit = g + 1
  BY <1>1
<1> QED
  BY <1>2 DEF GenerationAfter

LEMMA FlightInitially == FlightInit => FlightInv
<1> SUFFICES ASSUME FlightInit PROVE FlightInv
  OBVIOUS
<1> USE FlightAssumption DEF FlightInit
<1>1. FlightTypeOK
  BY DEF FlightTypeOK
<1>2. GenerationsCount /\ NamedArePast /\ NamesDiffer /\ SerialsBegun
  BY DEF GenerationsCount, NamedArePast, NamesDiffer, SerialsBegun, Named
<1>3. OneFlight /\ StaleCancelHarmless
  BY DEF OneFlight, StaleCancelHarmless
<1> QED
  BY <1>1, <1>2, <1>3 DEF FlightInv

\* What begin gives out is a lease nobody can name yet.
LEMMA BeginIsFresh ==
  ASSUME FlightInv, NEW w \in Worker, NEW id \in OpId, Begin(w, id)
  PROVE  /\ FreshLease(id) \in Lease
         /\ FreshLease(id).generation = nextGeneration + 1
         /\ FreshLease(id).serial = begun + 1
         /\ FreshLease(id).boot = boot
         /\ nextGeneration' = nextGeneration + 1
         /\ active = {}
         /\ active' = {FreshLease(id)}
         /\ begun' = begun + 1
         /\ begun' \in 0..MaxLeases
<1>1. /\ nextGeneration \in Nat /\ begun \in Nat /\ boot \in Nat
      /\ nextGeneration <= begun
      /\ MaxLeases \in Nat /\ GenerationLimit \in Nat
      /\ MaxLeases < GenerationLimit
  BY FlightAssumption DEF FlightInv, FlightTypeOK, GenerationsCount
<1>2. /\ begun < MaxLeases
      /\ begun' = begun + 1
      /\ active' = {FreshLease(id)}
      /\ nextGeneration' = GenerationAfter(nextGeneration)
      /\ active = {}
  BY DEF Begin, FlightFree
<1>3. nextGeneration + 1 < GenerationLimit
  BY <1>1, <1>2
<1>4. GenerationAfter(nextGeneration) = nextGeneration + 1
  BY <1>1, <1>3, NextGeneration
<1>5. FreshLease(id) = [id |-> id, generation |-> nextGeneration + 1,
                        serial |-> begun + 1, boot |-> boot]
  BY <1>4 DEF FreshLease
<1>6. FreshLease(id) \in Lease
  BY <1>1, <1>5 DEF Lease
<1> QED
  BY <1>1, <1>2, <1>4, <1>5, <1>6

LEMMA BeginKeeps ==
  ASSUME FlightInv, NEW w \in Worker, NEW id \in OpId, Begin(w, id)
  PROVE  FlightInv'
<1> DEFINE fresh == FreshLease(id)
<1>1. /\ fresh \in Lease
      /\ fresh.generation = nextGeneration + 1
      /\ fresh.serial = begun + 1
      /\ fresh.boot = boot
      /\ nextGeneration' = nextGeneration + 1
      /\ active = {}
      /\ active' = {fresh}
      /\ begun' = begun + 1
      /\ begun' \in 0..MaxLeases
  BY BeginIsFresh
<1>2. /\ lease' = [lease EXCEPT ![w] = {fresh}]
      /\ UNCHANGED <<cancelled, boot, seen, strikes>>
  BY DEF Begin
<1> HIDE DEF fresh
<1>3. /\ FlightTypeOK /\ GenerationsCount /\ NamedArePast /\ NamesDiffer
      /\ SerialsBegun /\ OneFlight /\ StaleCancelHarmless
  BY DEF FlightInv
<1>4. /\ nextGeneration \in Nat /\ begun \in Nat /\ boot \in Nat
      /\ nextGeneration <= begun
  BY <1>3, FlightAssumption DEF FlightTypeOK, GenerationsCount
<1>5. seen \subseteq Lease
  BY <1>3 DEF FlightTypeOK
<1>6. Named' = {fresh} \cup seen
  BY <1>1, <1>2 DEF Named
<1>7. \A l \in seen : /\ l.generation \in Nat /\ l.serial \in 1..begun
                      /\ l.boot \in Nat /\ l.boot <= boot
                      /\ l.boot = boot => l.generation <= nextGeneration
  BY <1>3, <1>5 DEF NamedArePast, SerialsBegun, Named, Lease
<1>8. FlightTypeOK'
  <2>1. active' \subseteq Lease /\ lease' \in [Worker -> SUBSET Lease]
    BY <1>1, <1>2, <1>3 DEF FlightTypeOK
  <2>2. nextGeneration' \in 0..MaxLeases /\ cancelled' \subseteq 1..begun'
    BY <1>1, <1>2, <1>3, <1>4, FlightAssumption DEF FlightTypeOK
  <2> QED
    BY <1>1, <1>2, <1>3, <2>1, <2>2 DEF FlightTypeOK
<1>9. GenerationsCount'
  BY <1>1, <1>4 DEF GenerationsCount
<1>10. NamedArePast'
  BY <1>1, <1>2, <1>4, <1>6, <1>7 DEF NamedArePast
<1>11. NamesDiffer'
  <2>1. \A l \in seen : l.boot = boot => l.generation # fresh.generation
    BY <1>1, <1>4, <1>7
  <2>2. \A l, m \in seen :
          l.boot = m.boot /\ l.generation = m.generation => l = m
    BY <1>3 DEF NamesDiffer, Named
  <2> QED
    BY <1>1, <1>6, <2>1, <2>2 DEF NamesDiffer
<1>12. SerialsBegun'
  BY <1>1, <1>4, <1>6, <1>7 DEF SerialsBegun
<1>13. OneFlight'
  <2>1. \A v \in Worker : lease[v] = {}
    BY <1>1, <1>3 DEF OneFlight
  <2>2. \A v \in Worker : lease'[v] = IF v = w THEN {fresh} ELSE {}
    BY <1>2, <1>3, <2>1 DEF FlightTypeOK
  <2> QED
    BY <1>1, <2>2 DEF OneFlight
<1>14. StaleCancelHarmless'
  BY <1>2, <1>3 DEF StaleCancelHarmless
<1> QED
  BY <1>8, <1>9, <1>10, <1>11, <1>12, <1>13, <1>14 DEF FlightInv

LEMMA FinishKeeps ==
  ASSUME FlightInv, NEW w \in Worker, Finish(w)
  PROVE  FlightInv'
<1>1. /\ FlightTypeOK /\ GenerationsCount /\ NamedArePast /\ NamesDiffer
      /\ SerialsBegun /\ OneFlight /\ StaleCancelHarmless
  BY DEF FlightInv
<1>2. /\ lease[w] # {}
      /\ lease' = [lease EXCEPT ![w] = {}]
      /\ UNCHANGED <<nextGeneration, cancelled, boot, begun, seen, strikes>>
  BY DEF Finish
<1>3. lease[w] = active
  BY <1>1, <1>2 DEF OneFlight
<1>4. active' = {}
  BY <1>3 DEF Finish, SameLease
<1>5. FlightTypeOK'
  BY <1>1, <1>2, <1>4 DEF FlightTypeOK
<1>6. Named' \subseteq Named
  BY <1>2, <1>4 DEF Named
<1>7. GenerationsCount' /\ NamedArePast' /\ NamesDiffer' /\ SerialsBegun'
  BY <1>1, <1>2, <1>4, <1>6
     DEF GenerationsCount, NamedArePast, NamesDiffer, SerialsBegun
<1>8. OneFlight'
  <2>1. \A v \in Worker : lease'[v] = {}
    BY <1>1, <1>2 DEF OneFlight, FlightTypeOK
  <2> QED
    BY <1>4, <2>1 DEF OneFlight
<1>9. StaleCancelHarmless'
  BY <1>1, <1>2 DEF StaleCancelHarmless
<1> QED
  BY <1>5, <1>7, <1>8, <1>9 DEF FlightInv

\* The heart of it: a lease that was seen and the lease in flight that has its
\* id and generation are the same one, if they are of the same run.
LEMMA CancelKeeps ==
  ASSUME FlightInv, NEW target \in seen, Cancel(target)
  PROVE  FlightInv'
<1> DEFINE hit == {l \in active : SameLease(l, target)}
<1>1. /\ FlightTypeOK /\ GenerationsCount /\ NamedArePast /\ NamesDiffer
      /\ SerialsBegun /\ OneFlight /\ StaleCancelHarmless
  BY DEF FlightInv
<1>2. /\ cancelled' = cancelled \cup {l.serial : l \in hit}
      /\ strikes' = strikes \cup {[meant |-> target, hit |-> l] : l \in hit}
      /\ UNCHANGED <<active, nextGeneration, lease, boot, begun, seen>>
  BY DEF Cancel
<1>3. target \in Lease /\ hit \subseteq Lease
  BY <1>1 DEF FlightTypeOK
<1>4. FlightTypeOK'
  <2>1. cancelled' \subseteq 1..begun'
    BY <1>1, <1>2 DEF FlightTypeOK, SerialsBegun, Named
  <2>2. strikes' \subseteq [meant : Lease, hit : Lease]
    BY <1>1, <1>2, <1>3 DEF FlightTypeOK
  <2> QED
    BY <1>1, <1>2, <2>1, <2>2 DEF FlightTypeOK
<1>5. GenerationsCount' /\ NamedArePast' /\ NamesDiffer' /\ SerialsBegun'
  BY <1>1, <1>2
     DEF GenerationsCount, NamedArePast, NamesDiffer, SerialsBegun, Named
<1>6. OneFlight'
  BY <1>1, <1>2 DEF OneFlight
<1>7. StaleCancelHarmless'
  <2>1. \A l \in hit : target.boot = l.boot => target = l
    BY <1>1 DEF NamesDiffer, Named, SameLease
  <2>2. ASSUME NEW s \in strikes', s.meant.boot = s.hit.boot
        PROVE  s.meant = s.hit
    <3>1. CASE s \in strikes
      BY <1>1, <2>2, <3>1 DEF StaleCancelHarmless
    <3>2. CASE s \in {[meant |-> target, hit |-> l] : l \in hit}
      BY <2>1, <2>2, <3>2
    <3> QED
      BY <1>2, <2>2, <3>1, <3>2
  <2> QED
    BY <2>2 DEF StaleCancelHarmless
<1> QED
  BY <1>4, <1>5, <1>6, <1>7 DEF FlightInv

LEMMA ObserveKeeps ==
  ASSUME FlightInv, Observe
  PROVE  FlightInv'
<1>1. Named' = Named
  BY DEF Observe, Named
<1>2. UNCHANGED <<active, nextGeneration, cancelled, lease, boot, begun, strikes>>
  BY DEF Observe
<1>3. FlightTypeOK'
  BY <1>2 DEF FlightInv, FlightTypeOK, Observe
<1>4. GenerationsCount' /\ NamedArePast' /\ NamesDiffer' /\ SerialsBegun'
  BY <1>1, <1>2
     DEF FlightInv, GenerationsCount, NamedArePast, NamesDiffer, SerialsBegun
<1>5. OneFlight' /\ StaleCancelHarmless'
  BY <1>2 DEF FlightInv, OneFlight, StaleCancelHarmless
<1> QED
  BY <1>3, <1>4, <1>5 DEF FlightInv

LEMMA RestartKeeps ==
  ASSUME FlightInv, Restart
  PROVE  FlightInv'
<1>1. /\ boot < MaxBoots
      /\ boot' = boot + 1
      /\ active' = {}
      /\ nextGeneration' = 0
      /\ lease' = [w \in Worker |-> {}]
      /\ UNCHANGED <<cancelled, begun, seen, strikes>>
  BY DEF Restart
<1>2. /\ FlightTypeOK /\ NamedArePast /\ NamesDiffer
      /\ SerialsBegun /\ OneFlight /\ StaleCancelHarmless
  BY DEF FlightInv
<1>3. boot \in Nat /\ begun \in Nat /\ MaxBoots \in Nat /\ MaxLeases \in Nat
  BY <1>2, FlightAssumption DEF FlightTypeOK
<1>4. FlightTypeOK'
  BY <1>1, <1>2, <1>3 DEF FlightTypeOK
<1>5. Named' \subseteq Named
  BY <1>1 DEF Named
<1>6. \A l \in Named' : l.boot \in Nat /\ l.boot <= boot
  <2>1. Named \subseteq Lease
    BY <1>2 DEF FlightTypeOK, Named
  <2> QED
    BY <1>2, <1>5, <2>1 DEF NamedArePast, Lease
<1>7. NamedArePast'
  BY <1>1, <1>3, <1>6 DEF NamedArePast
<1>8. GenerationsCount' /\ NamesDiffer' /\ SerialsBegun'
  BY <1>1, <1>2, <1>3, <1>5 DEF GenerationsCount, NamesDiffer, SerialsBegun
<1>9. OneFlight' /\ StaleCancelHarmless'
  BY <1>1, <1>2 DEF OneFlight, StaleCancelHarmless
<1> QED
  BY <1>4, <1>7, <1>8, <1>9 DEF FlightInv

LEMMA FlightStep == FlightInv /\ [FlightNext]_flightVars => FlightInv'
<1> SUFFICES ASSUME FlightInv, [FlightNext]_flightVars PROVE FlightInv'
  OBVIOUS
<1>1. ASSUME NEW w \in Worker, NEW id \in OpId, Begin(w, id) PROVE FlightInv'
  BY <1>1, BeginKeeps
<1>2. ASSUME NEW w \in Worker, Finish(w) PROVE FlightInv'
  BY <1>2, FinishKeeps
<1>3. ASSUME NEW target \in seen, Cancel(target) PROVE FlightInv'
  BY <1>3, CancelKeeps
<1>4. CASE Observe
  BY <1>4, ObserveKeeps
<1>5. CASE Restart
  BY <1>5, RestartKeeps
<1>6. CASE UNCHANGED flightVars
  BY <1>6 DEF flightVars, FlightInv, FlightTypeOK, GenerationsCount,
              NamedArePast, NamesDiffer, SerialsBegun, Named, OneFlight,
              StaleCancelHarmless
<1> QED
  BY <1>1, <1>2, <1>3, <1>4, <1>5, <1>6 DEF FlightNext

LEMMA FlightInvariant == FlightSpec => []FlightInv
<1> QED
  BY FlightInitially, FlightStep, PTL DEF FlightSpec

-----------------------------------------------------------------------------

\* FlightState::next_generation and the leases stay in their ranges for any
\* number of threads, leases and restarts: the generation counts the leases
\* of its run and never wraps.
THEOREM FlightTyped == FlightSpec => []FlightTypeOK
<1>1. FlightInv => FlightTypeOK
  BY DEF FlightInv
<1> QED
  BY <1>1, FlightInvariant, PTL

\* SingleFlight::begin and finish admit one holder at a time, however many
\* threads call them.
THEOREM FlightExclusive == FlightSpec => []OneFlight
<1>1. FlightInv => OneFlight
  BY DEF FlightInv
<1> QED
  BY <1>1, FlightInvariant, PTL

\* SingleFlight::cancel with what a status answer of this run of the daemon
\* said raises the flag of that very lease or none.
THEOREM CancelIsExact == FlightSpec => []StaleCancelHarmless
<1>1. FlightInv => StaleCancelHarmless
  BY DEF FlightInv
<1> QED
  BY <1>1, FlightInvariant, PTL

============================================================================
