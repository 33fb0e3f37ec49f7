---------------------------- MODULE UtilityCycles ----------------------------
(***************************************************************************)
(* The electricity of one sub-metered room: its billing cycles, the meter  *)
(* readings that bound them, the people who come and go in between, and    *)
(* the apportioning of a cycle's cost when it is closed.                   *)
(*                                                                         *)
(* Time is counted in days of four instants: midnight, where the           *)
(* administrator's dates fall; the morning, where a date-only move-in      *)
(* falls (the date is read as UTC); ten o'clock, the hour the move-out     *)
(* form proposes; and the afternoon, in which transfers are executed.      *)
(* The meter moves overnight only.  One unit costs one cent.               *)
(*                                                                         *)
(* The log of nights is not in the program: it is the truth the bills are  *)
(* compared with.                                                          *)
(***************************************************************************)
EXTENDS Integers, Sequences, FiniteSetsExt, SequencesExt

CONSTANTS
  Tenants,   \* the tenants, numbered: the number is the key that breaks ties
  Meter0,    \* what the meter shows at first
  Uses,      \* what a night may consume
  LastDay,   \* bound: the last day
  Kinds      \* which operations may happen

ASSUME TenantsAssumption ==
  Tenants \subseteq Nat \ {0} /\ IsFiniteSet(Tenants)

ASSUME MeterAssumption ==
  Meter0 \in Nat /\ Uses \subseteq Nat /\ LastDay \in Nat

VARIABLES
  day,       \* today
  meter,     \* what the meter shows
  nights,    \* nights[d + 1]: what night d consumed and who was there
  stays,     \* the rows of BedHistory for this room, in the order written
  joined,    \* moveInDate of each tenant's reservation, None before
  readings,  \* the UtilityReading documents, in the order written
  cycles,    \* the UtilityPeriod documents, in the order written
  settled    \* the UtilityFinalization documents

vars == <<day, meter, nights, stays, joined, readings, cycles, settled>>
world == <<day, meter, nights>>

None == -1
Nobody == 0
Midnight(d) == 4 * d
Morning(d) == 4 * d + 1
Ten(d) == 4 * d + 2
Afternoon(d) == 4 * d + 3
Day(at) == at \div 4
Resets == {"meterReplacement"}

-----------------------------------------------------------------------------
(* Readings and cycles                                                      *)

Reading(at, event, t, value, c) ==
  [at |-> at, event |-> event, tenant |-> t, value |-> value,
   final |-> None, cycle |-> c]

Cycle(start, from, vacancy) ==
  [status |-> "open", start |-> start, end |-> None, from |-> from,
   to |-> None, computed |-> FALSE, lines |-> [t \in Tenants |-> 0],
   overhead |-> 0, vacancy |-> vacancy]

Active == {c \in DOMAIN cycles : cycles[c].status = "open"}

\* An exact, half-open interval of instants.
Covers(c, at) ==
  /\ cycles[c].start <= at
  /\ cycles[c].end # None => at < cycles[c].end

Open(at) == {c \in Active : Cardinality(Active) = 1 /\ Covers(c, at)}

Present(t) == \E h \in DOMAIN stays :
                stays[h].tenant = t /\ stays[h].status = "active"

-----------------------------------------------------------------------------
(* Who took part in a cycle                                                 *)

RowsOf(t) == {h \in DOMAIN stays : stays[h].tenant = t}
Overlaps(h, start, end) ==
  /\ stays[h].in < end
  /\ stays[h].out # None => stays[h].out > start

\* The first row of the tenant that overlaps the cycle stands for the stay;
\* without one, the latest row does.
RowFor(t, start, end) ==
  LET over == {h \in RowsOf(t) : Overlaps(h, start, end)}
  IN  IF over # {} THEN Min(over)
      ELSE CHOOSE h \in RowsOf(t) :
             \A g \in RowsOf(t) : stays[g].in <= stays[h].in

\* The reservation is still assigned to this room.
Assigned(t) == RowsOf(t) # {} /\ stays[Max(RowsOf(t))].status # "transferred"
MoveOutDate(t) ==
  IF stays[Max(RowsOf(t))].status = "completed"
  THEN stays[Max(RowsOf(t))].out ELSE None

Participants(start, end) ==
  {t \in Tenants :
     /\ RowsOf(t) # {}
     /\ IF Assigned(t)
        THEN /\ joined[t] < end
             /\ MoveOutDate(t) # None => MoveOutDate(t) > start
        ELSE Overlaps(RowFor(t, start, end), start, end)}

\* The dates of the stay in this room; departing is a tenant about to leave
\* at the end of the interval, or Nobody.
Came(t, start, end) == stays[RowFor(t, start, end)].in
Went(t, start, end, departing) ==
  IF t = departing THEN end ELSE stays[RowFor(t, start, end)].out

Billable(start, end, departing) ==
  {t \in Participants(start, end) :
     /\ Day(Came(t, start, end)) < Day(end)
     /\ Went(t, start, end, departing) # None
          => Day(Went(t, start, end, departing)) > Day(start)}

CameInside(t, start, end) ==
  LET in == Came(t, start, end)
  IN  Day(in) > Day(start) /\ Day(in) <= Day(end)
WentInside(t, start, end, departing) ==
  LET out == Went(t, start, end, departing)
  IN  out # None /\ Day(out) >= Day(start) /\ Day(out) <= Day(end)

-----------------------------------------------------------------------------
(* The billing engine: rs are readings by number, in the order written      *)

\* The table of priorities gives boundary events 0, which "|| 1" turns into 1.
Priority(r) == IF r.event = "moveIn" THEN 2 ELSE 1

\* The order the engine sorts them into: by instant, then priority, then as
\* they were written.
Before(rs, i, j) ==
  \/ rs[i].at < rs[j].at
  \/ rs[i].at = rs[j].at /\ Priority(rs[i]) < Priority(rs[j])
  \/ rs[i].at = rs[j].at /\ Priority(rs[i]) = Priority(rs[j]) /\ i < j
After(rs, i) == {j \in DOMAIN rs : Before(rs, i, j)}
Following(rs, i) ==
  CHOOSE j \in After(rs, i) : \A k \in After(rs, i) \ {j} : Before(rs, j, k)

DuplicateTimestamps(rs) ==
  \E i, j \in DOMAIN rs :
    i # j /\ rs[i].at = rs[j].at /\ rs[i].event = rs[j].event

EventsOf(rs, t, event) ==
  {i \in DOMAIN rs : rs[i].tenant = t /\ rs[i].event = event}

Missing(rs, start, end, departing) ==
  \E t \in Billable(start, end, departing) :
    \/ /\ CameInside(t, start, end)
       /\ ~\E i \in EventsOf(rs, t, "moveIn") :
             Day(rs[i].at) = Day(Came(t, start, end))
    \/ /\ WentInside(t, start, end, departing)
       /\ ~\E i \in EventsOf(rs, t, "moveOut") :
             Day(rs[i].at) = Day(Went(t, start, end, departing))

\* Mutation: who came on the first day is not there from the start.
InReadingStrict(rs, t, start, end, from) ==
  IF Day(Came(t, start, end)) < Day(start) THEN from
  ELSE LET ins == EventsOf(rs, t, "moveIn")
       IN  IF ins = {} THEN None ELSE rs[Min(ins)].value

\* The meter value from which, and up to which, a tenant pays.
InReading(rs, t, start, end, from) ==
  IF Day(Came(t, start, end)) <= Day(start) THEN from
  ELSE LET ins == EventsOf(rs, t, "moveIn")
       IN  IF ins = {} THEN None
           ELSE LET first == CHOOSE i \in ins :
                               \A j \in ins : rs[i].at <= rs[j].at
                IN  rs[first].value
OutReading(rs, t) ==
  LET outs == EventsOf(rs, t, "moveOut")
  IN  IF outs = {} THEN None
      ELSE rs[CHOOSE i \in outs : \A j \in outs : rs[i].at >= rs[j].at].value

\* Mutation: off by one at the departure.
ActiveUpTo(value, in, out) ==
  in # None /\ in <= value /\ (out # None => out >= value)

\* Occupancy is compared by meter value, not by date.
ActiveAt(value, in, out) ==
  in # None /\ in <= value /\ (out # None => out > value)

\* What the meter shows when a segment ends: the last value of the old one.
Upto(r) == IF r.event \in Resets THEN r.final ELSE r.value

\* A segment between each reading and the one that follows it.
Segments(rs, start, end, from, departing) ==
  [i \in {i \in DOMAIN rs : After(rs, i) # {}} |->
     [units |-> Upto(rs[Following(rs, i)]) - rs[i].value,
      who |-> {t \in Billable(start, end, departing) :
                 ActiveAt(rs[i].value, InReading(rs, t, start, end, from),
                          OutReading(rs, t))}]]

\* Mutation: each share is rounded down.
FloorShare(cents, who, t) == cents \div Cardinality(who)

\* Equal weights: the odd cents go to the smallest keys.
HamiltonShare(cents, who, t) ==
  LET base == cents \div Cardinality(who)
      rank == Cardinality({u \in who : u < t})
  IN  IF rank < cents % Cardinality(who) THEN base + 1 ELSE base

Line(segs, t) ==
  MapThenSumSet(LAMBDA k : HamiltonShare(segs[k].units, segs[k].who, t),
                {k \in DOMAIN segs : t \in segs[k].who})
VacantUnits(segs) ==
  MapThenSumSet(LAMBDA k : segs[k].units,
                {k \in DOMAIN segs : segs[k].who = {}})

\* Why the computation throws, or "" when it does not.
Trouble(rs, start, end, from, departing) ==
  IF Missing(rs, start, end, departing) THEN "missing_reading"
  ELSE IF DuplicateTimestamps(rs) THEN "duplicate_timestamp"
  ELSE LET segs == Segments(rs, start, end, from, departing)
       IN  IF \E k \in DOMAIN segs : segs[k].units < 0 THEN "negative_delta"
           ELSE ""

Computed(c, rs, end, departing) ==
  LET segs == Segments(rs, c.start, end, c.from, departing)
  IN  [c EXCEPT !.computed = TRUE,
                !.lines = [t \in Tenants |-> Line(segs, t)],
                !.overhead = VacantUnits(segs)]

-----------------------------------------------------------------------------
(* Which readings each computation is given                                 *)

\* At the close: of this cycle, and of the tenants who moved during it only.
CycleReadings(c, rs, start, end) ==
  LET movers == {t \in Billable(start, end, Nobody) :
                   \/ CameInside(t, start, end)
                   \/ WentInside(t, start, end, Nobody)}
  IN  Restrict(rs, {i \in DOMAIN rs :
                      /\ rs[i].at >= start /\ rs[i].at <= end
                      /\ rs[i].cycle = c
                      /\ rs[i].tenant # Nobody => rs[i].tenant \in movers})

\* At a revision: all the readings of the room between the two dates.
AllReadings(start, end) ==
  Restrict(readings, {i \in DOMAIN readings :
                        readings[i].at >= start /\ readings[i].at <= end})

\* At a transfer: the cycle so far, between a start and a move-out made up.
TransferReadings(c, t, at) ==
  LET inside == {i \in DOMAIN readings :
                   /\ readings[i].at >= cycles[c].start /\ readings[i].at < at
                   /\ readings[i].event \notin {"periodStart", "periodEnd"}}
  IN  [i \in inside \cup {0, Len(readings) + 1} |->
         IF i = 0 THEN Reading(cycles[c].start, "periodStart", Nobody,
                               cycles[c].from, c)
         ELSE IF i \in inside THEN readings[i]
         ELSE Reading(at, "moveOut", t, meter, c)]

-----------------------------------------------------------------------------
(* Opening a cycle                                                          *)

\* The closed history shows nobody in the room since its last cycle ended.
ClosedContinuity(at) ==
  /\ \A c, d \in DOMAIN cycles :
       /\ cycles[c].end > cycles[c].start
       /\ cycles[c].start < cycles[d].start
            => cycles[c].end <= cycles[d].start
  /\ \E c \in DOMAIN cycles :
       LET end == cycles[c].end
           closing == {i \in DOMAIN readings :
                         /\ readings[i].cycle = c /\ readings[i].at = end
                         /\ readings[i].event = "periodEnd"}
       IN  /\ \A d \in DOMAIN cycles : cycles[d].end <= end
           /\ end <= at
           /\ Cardinality(closing) = 1
           /\ \A i \in closing : readings[i].value = cycles[c].to
           /\ ~\E i \in DOMAIN readings :
                 readings[i].at > end /\ readings[i].at <= at
           /\ ~\E h \in DOMAIN stays : Overlaps(h, end, at)

\* Mutation: a cycle that is already open is not looked for.
CanInitializeAnyway(at) ==
  Cardinality(DOMAIN cycles) < 2

CanInitialize(at) ==
  /\ Active = {}
  /\ IF cycles = <<>> THEN readings = <<>> ELSE ClosedContinuity(at)

\* What the vacant room consumed since its last cycle was closed.
VacancyBefore == IF cycles = <<>> THEN 0
                 ELSE meter - Max({cycles[c].to : c \in DOMAIN cycles})

\* The reading at which a tenant enters, opening a cycle when none is open.
EnterReading(t, at) ==
  \/ \E c \in Open(at) :
       /\ readings' = Append(readings, Reading(at, "moveIn", t, meter, c))
       /\ UNCHANGED cycles
  \/ LET c == Len(cycles) + 1 IN
     /\ CanInitialize(at)
     /\ cycles' = Append(cycles, Cycle(at, meter, VacancyBefore))
     /\ readings' = readings
          \o <<Reading(at, "periodStart", Nobody, meter, c),
               Reading(at, "moveIn", t, meter, c)>>

LeaveRow(t, at, status) ==
  stays' = [h \in DOMAIN stays |->
              IF stays[h].tenant = t /\ stays[h].status = "active"
              THEN [stays[h] EXCEPT !.out = at, !.status = status]
              ELSE stays[h]]

EnterRow(t, at) ==
  stays' = Append(stays, [tenant |-> t, in |-> at, out |-> None,
                          status |-> "active"])

\* Bound: comings and goings are recorded in the order of their instants, and
\* transfers, whose instant is the clock's, one a day.
InOrder(at) == ~\E i \in DOMAIN readings :
                   readings[i].at > at /\ readings[i].tenant # Nobody
TransferredToday == \E i \in DOMAIN readings : readings[i].at = Afternoon(day)

\* Bound: a tenant stays in the room at most twice.
MayReturn(t) == Cardinality(RowsOf(t)) = 1 /\ ~Assigned(t)

-----------------------------------------------------------------------------
(* The operations.  The reading entered is the one the meter shows.         *)

Init ==
  /\ day = 0 /\ meter = Meter0 /\ nights = <<>>
  /\ stays = <<>> /\ joined = [t \in Tenants |-> None]
  /\ readings = <<>> /\ cycles = <<>> /\ settled = {}

Night(u) ==
  /\ day < LastDay
  /\ day' = day + 1
  /\ meter' = meter + u
  /\ nights' = Append(nights,
                [units |-> u, who |-> {t \in Tenants : Present(t)}])
  /\ UNCHANGED <<stays, joined, readings, cycles, settled>>

\* Mutation: the date is not compared with the cycles that ended.
NeverWithin(at) == FALSE

FallsWithinClosed(at) ==
  \E c \in DOMAIN cycles : cycles[c].start <= at /\ at < cycles[c].end

\* Bound: no cycle is opened at a date before the start of another one.
OpenCycle ==
  /\ "open" \in Kinds
  /\ \A c \in DOMAIN cycles : cycles[c].start < Midnight(day)
  /\ Active = {}
  /\ ~FallsWithinClosed(Midnight(day))
  /\ cycles' = Append(cycles, Cycle(Midnight(day), meter, 0))
  /\ readings' = Append(readings, Reading(Midnight(day), "periodStart",
                                          Nobody, meter, Len(cycles) + 1))
  /\ UNCHANGED <<world, stays, joined, settled>>

\* Check-in.
Arrive(t) ==
  /\ joined[t] = None /\ InOrder(Morning(day))
  /\ EnterReading(t, Morning(day))
  /\ EnterRow(t, Morning(day))
  /\ joined' = [joined EXCEPT ![t] = Morning(day)]
  /\ UNCHANGED <<world, settled>>

\* The move-out of the last occupant closes the cycle, computing nothing.
Leave(t) ==
  \E c \in Open(Ten(day)) :
    /\ "leave" \in Kinds
    /\ Present(t) /\ InOrder(Ten(day))
    /\ readings' = Append(readings, Reading(Ten(day), "moveOut", t, meter, c))
    /\ LeaveRow(t, Ten(day), "completed")
    /\ cycles' = IF \E u \in Tenants \ {t} : Present(u) THEN cycles
                  ELSE [cycles EXCEPT ![c].status = "closed",
                                      ![c].end = Ten(day), ![c].to = meter]
    /\ UNCHANGED <<world, joined, settled>>

\* A tenant of another room, or one who left this room for another.
TransferIn(t) ==
  /\ "transfer" \in Kinds /\ ~TransferredToday
  /\ joined[t] = None \/ ("return" \in Kinds /\ MayReturn(t))
  /\ EnterReading(t, Afternoon(day))
  /\ EnterRow(t, Midnight(day))
  /\ joined' = [joined EXCEPT ![t] = IF @ = None THEN 0 ELSE @]
  /\ UNCHANGED <<world, settled>>

TransferOut(t) ==
  LET at == Afternoon(day) IN
  \E c \in Open(at) :
    LET start == cycles[c].start
        rs == TransferReadings(c, t, at)
    IN
    /\ "transfer" \in Kinds /\ ~TransferredToday
    /\ Present(t)
    /\ meter >= cycles[c].from
    /\ t \in Participants(start, at)
    /\ Trouble(rs, start, at, cycles[c].from, t) = ""
    /\ settled' = settled \union
         {[tenant |-> t, cycle |-> c,
           amount |-> Computed(cycles[c], rs, at, t).lines[t]]}
    /\ readings' = Append(readings, Reading(at, "moveOut", t, meter, c))
    /\ LeaveRow(t, Midnight(day), "transferred")
    /\ UNCHANGED <<world, joined, cycles>>

\* Bound: the meter is replaced before anything else happens that day, and
\* once in a cycle.
Replace ==
  \E c \in Open(Midnight(day)) :
    /\ "replace" \in Kinds
    /\ ~\E i \in DOMAIN readings :
          \/ readings[i].at > Midnight(day)
          \/ readings[i].cycle = c /\ readings[i].event \in Resets
    /\ readings' = Append(readings,
         [Reading(Midnight(day), "meterReplacement", Nobody, 0, c)
            EXCEPT !.final = meter])
    /\ meter' = 0
    /\ UNCHANGED <<day, nights, stays, joined, cycles, settled>>

\* The range of the cycle and its boundary readings.
MayEnd(c, end) ==
  /\ cycles[c].start < end
  /\ meter >= cycles[c].from
  /\ \A d \in DOMAIN cycles \ {c} :
       ~(cycles[d].start < end /\ cycles[d].end > cycles[c].start)

Continuing(start, end) ==
  {t \in Billable(start, end, Nobody) :
     /\ Came(t, start, end) <= end
     /\ Went(t, start, end, Nobody) # None
          => Went(t, start, end, Nobody) > end}

Close ==
  \E c \in Active :
    LET end == Midnight(day)
        start == cycles[c].start
        ended == Append(readings, Reading(end, "periodEnd", Nobody, meter, c))
        rs == CycleReadings(c, ended, start, end)
        done == [Computed(cycles[c], rs, end, Nobody)
                   EXCEPT !.status = "closed", !.end = end, !.to = meter]
    IN
    /\ MayEnd(c, end)
    /\ Trouble(rs, start, end, cycles[c].from, Nobody) = ""
    /\ IF Continuing(start, end) # {}
       THEN /\ cycles' = Append([cycles EXCEPT ![c] = done],
                               Cycle(end, meter, 0))
            /\ readings' = Append(ended, Reading(end, "periodStart", Nobody,
                                                 meter, Len(cycles) + 1))
       ELSE /\ cycles' = [cycles EXCEPT ![c] = done]
            /\ readings' = ended
    /\ UNCHANGED <<world, stays, joined, settled>>

\* A closed cycle is computed again; what its vacancy cost is not kept.
Revise(c) ==
  LET cy == cycles[c]
      rs == AllReadings(cy.start, cy.end)
  IN
  /\ "revise" \in Kinds
  /\ cy.status = "closed"
  /\ Trouble(rs, cy.start, cy.end, cy.from, Nobody) = ""
  /\ cycles' = [cycles EXCEPT ![c] =
                   [Computed(cy, rs, cy.end, Nobody)
                      EXCEPT !.status = "revised", !.vacancy = 0]]
  /\ UNCHANGED <<world, stays, joined, readings, settled>>

Next ==
  \/ \E u \in Uses : Night(u)
  \/ OpenCycle
  \/ \E t \in Tenants :
       Arrive(t) \/ Leave(t) \/ TransferIn(t) \/ TransferOut(t)
  \/ Replace
  \/ Close
  \/ \E c \in DOMAIN cycles : Revise(c)

Spec == Init /\ [][Next]_vars

-----------------------------------------------------------------------------
(* Properties                                                               *)

Instants == 0..Afternoon(LastDay)

TypeOK ==
  /\ day \in 0..LastDay /\ meter \in Nat
  /\ joined \in [Tenants -> Instants \union {None}]
  /\ \A h \in DOMAIN stays :
       /\ stays[h].tenant \in Tenants /\ stays[h].in \in Instants
       /\ stays[h].status \in {"active", "completed", "transferred"}
       /\ (stays[h].status = "active") = (stays[h].out = None)
  /\ \A t \in Tenants :
       Cardinality({h \in RowsOf(t) : stays[h].status = "active"}) <= 1
  /\ \A i \in DOMAIN readings :
       /\ readings[i].at \in Instants /\ readings[i].value \in Nat
       /\ readings[i].cycle \in DOMAIN cycles
  /\ Cardinality(Active) <= 1
  /\ \A c \in DOMAIN cycles :
       (cycles[c].status = "open") = (cycles[c].end = None)

\* No instant is in two cycles of the room, so no night is billed twice: the
\* range check of a close and the opening checks together, with cycles the
\* last move-out closes and cycles a move-in opens in between.
CyclesDoNotOverlap ==
  \A c, d \in DOMAIN cycles :
    c < d => /\ cycles[c].end # None
             /\ cycles[c].end <= cycles[d].start

NightsIn(c) == {n \in DOMAIN nights : /\ n - 1 >= Day(cycles[c].start)
                                      /\ n - 1 < Day(cycles[c].end)}

\* What the cycle's tenants owe and what the vacancy cost add up to what the
\* meters really consumed in its nights: nothing is charged twice or lost,
\* whoever came and went and whichever meter was in place.
RoomIsCharged ==
  \A c \in DOMAIN cycles :
    cycles[c].computed =>
      MapThenSumSet(LAMBDA t : cycles[c].lines[t], Tenants)
        + cycles[c].overhead
      = MapThenSumSet(LAMBDA n : nights[n].units, NightsIn(c))

\* The meter was not replaced in the cycle and nobody came back to the room:
\* the two cases in which comparing meter values misjudges who was there.
Plain(c) ==
  /\ ~\E i \in DOMAIN readings :
        readings[i].cycle = c /\ readings[i].event \in Resets
  /\ \A t \in Tenants : Cardinality(RowsOf(t)) <= 1

\* A tenant pays an equal part of each night spent in the room, to less than
\* a cent a night, and nothing for the others: occupancy, which the engine
\* reads off the meter values, agrees with who was there.
FairShare ==
  \A c \in DOMAIN cycles : \A t \in Tenants :
    (cycles[c].computed /\ Plain(c)) =>
      LET mine == {n \in NightsIn(c) : t \in nights[n].who}
          heads(n) == Cardinality(nights[n].who)
      IN  /\ MapThenSumSet(LAMBDA n : nights[n].units \div heads(n), mine)
             <= cycles[c].lines[t]
          /\ cycles[c].lines[t]
             <= MapThenSumSet(LAMBDA n : (nights[n].units + heads(n) - 1)
                                         \div heads(n), mine)

\* The meter was replaced at the instant the cycle begins: a transfer takes
\* the old meter's last value for a reading of this cycle.
ReplacedAtStart(c) ==
  \E i \in DOMAIN readings :
    readings[i].event \in Resets /\ readings[i].at = cycles[c].start

\* What was settled on the day of a transfer is what the close of the cycle
\* finds the tenant owed, although others came and went since.
TransferSettled ==
  \A s \in settled :
    (cycles[s.cycle].computed /\ Plain(s.cycle) /\ ~ReplacedAtStart(s.cycle))
      => cycles[s.cycle].lines[s.tenant] = s.amount
=============================================================================
