------------------------ MODULE UtilityCycles_proofs ------------------------
(***************************************************************************)
(* What is proved about UtilityCycles, for any number of tenants and days  *)
(* and any consumption: every document keeps its type, the cycles of a     *)
(* room follow one another without a common instant, whoever opens and     *)
(* whatever closes them, apportioning a cycle loses no cent, what is       *)
(* charged for a cycle is what its nights consumed, every tenant pays for  *)
(* the nights spent in the room, and what a transfer settled in advance is *)
(* what the cycle charges.                                                 *)
(***************************************************************************)
EXTENDS UtilityCycles, CountingLemmas, SequenceTheorems, FiniteSetTheorems,
        TLAPS

-----------------------------------------------------------------------------
(* The inductive invariant                                                 *)

Row == [tenant: Tenants, in: Instants, out: Instants \cup {None},
        status: {"active", "completed", "transferred"}]

Measure == [at: Instants, tenant: Tenants \cup {Nobody}, value: Nat,
            final: Nat \cup {None}, cycle: Nat,
            event: {"periodStart", "periodEnd", "moveIn", "moveOut",
                    "meterReplacement"}]

\* A cycle document, with amounts in X.
CycleWith(X) ==
    [status: {"open", "closed", "revised"}, start: Instants,
     end: Instants \cup {None}, from: Nat, to: Nat \cup {None},
     computed: BOOLEAN, lines: X, overhead: X, vacancy: X]

Documents ==
    /\ day \in 0..LastDay /\ meter \in Nat
    /\ joined \in [Tenants -> Instants \cup {None}]
    /\ stays \in Seq(Row)
    /\ readings \in Seq(Measure)
    /\ \E X : cycles \in Seq(CycleWith(X))

\* A tenant has one stay at a time, and had an arrival if any.
StayInv ==
    /\ \A h \in DOMAIN stays :
          /\ (stays[h].status = "active") = (stays[h].out = None)
          /\ joined[stays[h].tenant] # None
    /\ \A g, h \in DOMAIN stays :
          /\ stays[g].tenant = stays[h].tenant
          /\ stays[g].status = "active" /\ stays[h].status = "active"
          => g = h

ReadingInv == \A i \in DOMAIN readings : readings[i].cycle \in DOMAIN cycles

\* A cycle without an end is open and is the last; each one ends before the
\* next begins.
Ordered(cs) ==
    /\ \A c \in DOMAIN cs : (cs[c].status = "open") = (cs[c].end = None)
    /\ \A c, d \in DOMAIN cs :
          c < d => /\ cs[c].end # None
                   /\ cs[c].end <= cs[d].start

IInv == Documents /\ StayInv /\ ReadingInv /\ Ordered(cycles)

-----------------------------------------------------------------------------
(* Instants and lists                                                      *)

LEMMA InstantsAre ==
    ASSUME day \in 0..LastDay
    PROVE  /\ Midnight(day) \in Instants /\ Morning(day) \in Instants
           /\ Ten(day) \in Instants /\ Afternoon(day) \in Instants
           /\ \A i \in Instants : i \in Nat /\ i # None
           /\ 0 \in Instants
PROOF
<1>1. LastDay \in Nat /\ day \in Nat /\ day <= LastDay
  BY MeterAssumption
<1>2. Instants = 0..(4 * LastDay + 3)
  BY DEF Instants, Afternoon
<1>3. 4 * LastDay + 3 \in Nat
  BY <1>1
<1>4. \A i \in Instants : i \in Nat /\ i # None
  BY <1>2, <1>3 DEF None
<1>. QED BY <1>1, <1>2, <1>3, <1>4 DEF Midnight, Morning, Ten, Afternoon

LEMMA SeqParts ==
    ASSUME NEW S, NEW f \in Seq(S)
    PROVE  /\ Len(f) \in Nat /\ DOMAIN f = 1..Len(f)
           /\ f \in [DOMAIN f -> S]
           /\ \A i \in DOMAIN f : f[i] \in S
PROOF
BY LenProperties

LEMMA Appended ==
    ASSUME NEW S, NEW f \in Seq(S), NEW e \in S
    PROVE  /\ Append(f, e) \in Seq(S)
           /\ DOMAIN Append(f, e) = DOMAIN f \cup {Len(f) + 1}
           /\ Len(f) + 1 \notin DOMAIN f
           /\ \A i \in DOMAIN f : Append(f, e)[i] = f[i]
           /\ Append(f, e)[Len(f) + 1] = e
PROOF
<1>1. /\ Append(f, e) \in Seq(S)
      /\ Len(Append(f, e)) = Len(f) + 1
      /\ \A i \in 1..Len(f) : Append(f, e)[i] = f[i]
      /\ Append(f, e)[Len(f) + 1] = e
  BY AppendProperties
<1>2. Len(f) \in Nat /\ DOMAIN f = 1..Len(f)
  BY SeqParts
<1>3. DOMAIN Append(f, e) = 1..(Len(f) + 1)
  BY <1>1, SeqParts
<1>4. 1..(Len(f) + 1) = 1..Len(f) \cup {Len(f) + 1}
  BY <1>2
<1>. QED BY <1>1, <1>2, <1>3, <1>4

\* Two readings at once.
LEMMA Added ==
    ASSUME NEW S, NEW f \in Seq(S), NEW d \in S, NEW e \in S
    PROVE  f \o <<d, e>> = Append(Append(f, d), e)
PROOF
<1>1. <<d, e>> \in Seq(S) /\ Len(<<d, e>>) = 2
  OBVIOUS
<1> DEFINE g == f \o <<d, e>>
           h == Append(Append(f, d), e)
<1>2. /\ g \in Seq(S) /\ Len(g) = Len(f) + 2
      /\ \A i \in 1..Len(g) : g[i] = IF i <= Len(f) THEN f[i]
                                     ELSE <<d, e>>[i - Len(f)]
  BY <1>1, ConcatProperties
<1>3. Append(f, d) \in Seq(S) /\ Len(Append(f, d)) = Len(f) + 1
      /\ \A i \in 1..Len(f) : Append(f, d)[i] = f[i]
      /\ Append(f, d)[Len(f) + 1] = d
  BY AppendProperties
<1>4. h \in Seq(S) /\ Len(h) = Len(f) + 2
      /\ \A i \in 1..(Len(f) + 1) : h[i] = Append(f, d)[i]
      /\ h[Len(f) + 2] = e
  BY <1>3, AppendProperties, LenProperties
<1>5. Len(f) \in Nat
  BY LenProperties
<1>6. <<d, e>>[1] = d /\ <<d, e>>[2] = e
  OBVIOUS
<1>. HIDE DEF g, h
<1>7. ASSUME NEW i \in 1..Len(g) PROVE g[i] = h[i]
  <2>1. CASE i <= Len(f)
    <3>1. i \in 1..Len(f) /\ i \in 1..(Len(f) + 1)
      BY <1>2, <1>5, <2>1
    <3>. QED BY <1>2, <1>3, <1>4, <2>1, <3>1
  <2>2. CASE i = Len(f) + 1
    <3>1. i - Len(f) = 1 /\ ~(i <= Len(f)) /\ i \in 1..(Len(f) + 1)
      BY <1>5, <2>2
    <3>. QED BY <1>2, <1>3, <1>4, <1>6, <2>2, <3>1
  <2>3. CASE i = Len(f) + 2
    <3>1. i - Len(f) = 2 /\ ~(i <= Len(f))
      BY <1>5, <2>3
    <3>. QED BY <1>2, <1>4, <1>6, <2>3, <3>1
  <2>. QED BY <1>2, <1>5, <2>1, <2>2, <2>3
<1>8. g = h
  BY <1>2, <1>4, <1>7, SeqEqual
<1>. QED BY <1>8 DEF g, h

\* A list with one changed element, or with every element changed.
LEMMA Changed ==
    ASSUME NEW S, NEW f \in Seq(S), NEW i \in DOMAIN f, NEW e \in S
    PROVE  /\ [f EXCEPT ![i] = e] \in Seq(S)
           /\ DOMAIN [f EXCEPT ![i] = e] = DOMAIN f
           /\ Len([f EXCEPT ![i] = e]) = Len(f)
           /\ \A j \in DOMAIN f :
                 [f EXCEPT ![i] = e][j] = IF j = i THEN e ELSE f[j]
PROOF
<1>1. i \in 1..Len(f)
  BY SeqParts
<1>2. [f EXCEPT ![i] = e] \in Seq(S) /\ Len([f EXCEPT ![i] = e]) = Len(f)
  BY <1>1, ExceptSeq
<1>. QED BY <1>2

LEMMA Mapped ==
    ASSUME NEW S, NEW f \in Seq(S), NEW T, NEW g \in [DOMAIN f -> T]
    PROVE  g \in Seq(T) /\ DOMAIN g = DOMAIN f
PROOF
<1>1. Len(f) \in Nat /\ DOMAIN f = 1..Len(f)
  BY SeqParts
<1>2. g \in [1..Len(f) -> T]
  BY <1>1
<1>. QED BY <1>1, <1>2, SeqDef

LEMMA Widened ==
    ASSUME NEW X, NEW Y, X \subseteq Y, NEW f \in Seq(CycleWith(X))
    PROVE  f \in Seq(CycleWith(Y))
PROOF
<1>1. CycleWith(X) \subseteq CycleWith(Y)
  BY DEF CycleWith
<1>. QED BY <1>1, SeqMonotonic

LEMMA AtMostOne ==
    ASSUME NEW S, \A x, y \in S : x = y
    PROVE  IsFiniteSet(S) /\ Cardinality(S) \in {0, 1}
PROOF
<1>1. CASE S = {}
  BY <1>1, FS_EmptySet
<1>2. CASE S # {}
  <2>1. PICK x : x \in S
    BY <1>2
  <2>2. S = {x}
    BY <2>1
  <2>. QED BY <2>2, FS_Singleton
<1>. QED BY <1>1, <1>2

-----------------------------------------------------------------------------
(* The cycles of a room, one after another                                 *)

\* The open cycle is the last one.
LEMMA OpenIsLast ==
    ASSUME NEW X, NEW cs \in Seq(CycleWith(X)), Ordered(cs),
           NEW c \in DOMAIN cs, cs[c].status = "open",
           NEW d \in DOMAIN cs
    PROVE  ~(c < d)
PROOF
BY DEF Ordered

\* A new cycle that starts when all the others have ended.
LEMMA OrderedAppend ==
    ASSUME NEW X, NEW cs \in Seq(CycleWith(X)), Ordered(cs),
           NEW e \in CycleWith(X), e.status = "open", e.end = None,
           \A c \in DOMAIN cs : cs[c].end # None /\ cs[c].end <= e.start
    PROVE  /\ Append(cs, e) \in Seq(CycleWith(X))
           /\ Ordered(Append(cs, e))
           /\ DOMAIN cs \subseteq DOMAIN Append(cs, e)
           /\ Len(cs) + 1 \in DOMAIN Append(cs, e)
PROOF
<1>1. PICK n : n = Len(cs) + 1
  OBVIOUS
<1>2. PICK ds : ds = Append(cs, e)
  OBVIOUS
<1>3. /\ ds \in Seq(CycleWith(X))
      /\ DOMAIN ds = DOMAIN cs \cup {n}
      /\ n \notin DOMAIN cs
      /\ \A i \in DOMAIN cs : ds[i] = cs[i]
      /\ ds[n] = e
  BY <1>1, <1>2, Appended
<1>4. n \in Nat /\ \A i \in DOMAIN cs : i \in Nat /\ ~(n < i)
  BY <1>1, SeqParts
<1>5. \A c \in DOMAIN ds : (ds[c].status = "open") = (ds[c].end = None)
  BY <1>3 DEF Ordered
<1>6. ASSUME NEW c \in DOMAIN ds, NEW d \in DOMAIN ds, c < d
      PROVE  ds[c].end # None /\ ds[c].end <= ds[d].start
  <2>1. c \in DOMAIN cs
    BY <1>3, <1>4, <1>6
  <2>2. CASE d = n
    BY <1>3, <2>1, <2>2
  <2>3. CASE d \in DOMAIN cs
    <3>1. cs[c].end # None /\ cs[c].end <= cs[d].start
      BY <1>6, <2>1, <2>3 DEF Ordered
    <3>. QED BY <1>3, <2>1, <2>3, <3>1
  <2>. QED BY <1>3, <2>2, <2>3
<1>7. Ordered(ds)
  BY <1>5, <1>6 DEF Ordered
<1>. QED BY <1>1, <1>2, <1>3, <1>7

\* A cycle whose document changes and whose start does not: its end, if it
\* changes, is that of the last cycle.
LEMMA OrderedChange ==
    ASSUME NEW X, NEW cs \in Seq(CycleWith(X)), Ordered(cs),
           NEW c \in DOMAIN cs, NEW e \in CycleWith(X),
           e.start = cs[c].start,
           (e.status = "open") = (e.end = None),
           e.end = cs[c].end \/ cs[c].status = "open"
    PROVE  /\ [cs EXCEPT ![c] = e] \in Seq(CycleWith(X))
           /\ Ordered([cs EXCEPT ![c] = e])
           /\ DOMAIN [cs EXCEPT ![c] = e] = DOMAIN cs
PROOF
<1>1. PICK ds : ds = [cs EXCEPT ![c] = e]
  OBVIOUS
<1>2. /\ ds \in Seq(CycleWith(X)) /\ DOMAIN ds = DOMAIN cs
      /\ \A j \in DOMAIN cs : ds[j] = IF j = c THEN e ELSE cs[j]
  BY <1>1, Changed
<1>3. \A j \in DOMAIN ds : (ds[j].status = "open") = (ds[j].end = None)
  BY <1>2 DEF Ordered
<1>4. \A j \in DOMAIN ds : ds[j].start = cs[j].start
  BY <1>2
<1>5. ASSUME NEW i \in DOMAIN ds, NEW j \in DOMAIN ds, i < j
      PROVE  ds[i].end # None /\ ds[i].end <= ds[j].start
  <2>1. cs[i].end # None /\ cs[i].end <= cs[j].start
    BY <1>2, <1>5 DEF Ordered
  <2>2. cs[i].status # "open"
    BY <1>2, <2>1 DEF Ordered
  <2>3. ds[i].end = cs[i].end
    BY <1>2, <2>2
  <2>. QED BY <1>4, <2>1, <2>3
<1>6. Ordered(ds)
  BY <1>3, <1>5 DEF Ordered
<1>. QED BY <1>1, <1>2, <1>6

\* The documents of the engine: whatever the amounts, they are in some set.
LEMMA NewCycle ==
    ASSUME NEW X, NEW start \in Instants, NEW from \in Nat, NEW vacancy
    PROVE  \E Y : /\ X \subseteq Y
                  /\ Cycle(start, from, vacancy) \in CycleWith(Y)
                  /\ Cycle(start, from, vacancy).status = "open"
                  /\ Cycle(start, from, vacancy).start = start
                  /\ Cycle(start, from, vacancy).end = None
PROOF
<1>1. PICK l : l = [t \in Tenants |-> 0]
  OBVIOUS
<1>2. PICK Y : Y = X \cup {l, 0, vacancy}
  OBVIOUS
<1>3. Cycle(start, from, vacancy) \in CycleWith(Y)
  BY <1>1, <1>2 DEF Cycle, CycleWith
<1>4. X \subseteq Y
  BY <1>2
<1>. QED BY <1>3, <1>4 DEF Cycle

LEMMA ComputedCycle ==
    ASSUME NEW X, NEW c \in CycleWith(X), NEW rs, NEW end, NEW departing
    PROVE  \E Y : /\ X \subseteq Y
                  /\ Computed(c, rs, end, departing) \in CycleWith(Y)
                  /\ Computed(c, rs, end, departing).start = c.start
                  /\ Computed(c, rs, end, departing).end = c.end
PROOF
<1>1. PICK l, o : Computed(c, rs, end, departing)
                    = [c EXCEPT !.computed = TRUE, !.lines = l, !.overhead = o]
  BY Zenon DEF Computed
<1>2. PICK d : d = Computed(c, rs, end, departing)
  OBVIOUS
<1>3. PICK Y : Y = X \cup {l, o}
  OBVIOUS
<1>4. d \in CycleWith(Y) /\ d.start = c.start /\ d.end = c.end
  BY <1>1, <1>2, <1>3 DEF CycleWith
<1>5. X \subseteq Y
  BY <1>3
<1>. QED BY <1>2, <1>4, <1>5

-----------------------------------------------------------------------------
(* Who comes and who goes                                                  *)

LEMMA RowAppended ==
    ASSUME Documents, StayInv, NEW t \in Tenants, NEW at \in Instants,
           ~Present(t), EnterRow(t, at),
           joined' \in [Tenants -> Instants \cup {None}], joined'[t] # None,
           \A u \in Tenants : joined[u] # None => joined'[u] # None
    PROVE  stays' \in Seq(Row) /\ StayInv'
PROOF
<1>1. PICK e : e = [tenant |-> t, in |-> at, out |-> None, status |-> "active"]
  OBVIOUS
<1>2. e \in Row /\ e.tenant = t /\ e.status = "active" /\ e.out = None
  BY <1>1 DEF Row
<1>3. stays \in Seq(Row)
  BY DEF Documents
<1>4. stays' = Append(stays, e)
  BY <1>1 DEF EnterRow
<1>5. PICK n : n = Len(stays) + 1
  OBVIOUS
<1>6. /\ stays' \in Seq(Row)
      /\ DOMAIN stays' = DOMAIN stays \cup {n}
      /\ n \notin DOMAIN stays
      /\ \A h \in DOMAIN stays : stays'[h] = stays[h]
      /\ stays'[n] = e
  BY <1>2, <1>3, <1>4, <1>5, Appended
<1>7. \A h \in DOMAIN stays : stays[h].tenant \in Tenants
  <2>1. \A h \in DOMAIN stays : stays[h] \in Row
    BY <1>3, SeqParts, Zenon
  <2>. QED BY <2>1 DEF Row
<1>8. \A h \in DOMAIN stays :
         /\ (stays[h].status = "active") = (stays[h].out = None)
         /\ joined'[stays[h].tenant] # None
         /\ ~(stays[h].tenant = t /\ stays[h].status = "active")
  BY <1>7 DEF StayInv, Present
<1>9. \A h \in DOMAIN stays' :
         /\ (stays'[h].status = "active") = (stays'[h].out = None)
         /\ joined'[stays'[h].tenant] # None
  BY <1>2, <1>6, <1>8
<1>10. ASSUME NEW g \in DOMAIN stays', NEW h \in DOMAIN stays',
              stays'[g].tenant = stays'[h].tenant,
              stays'[g].status = "active", stays'[h].status = "active"
       PROVE  g = h
  <2>1. CASE g \in DOMAIN stays /\ h \in DOMAIN stays
    BY <1>6, <1>10, <2>1 DEF StayInv
  <2>2. CASE g = n
    BY <1>2, <1>6, <1>8, <1>10, <2>2
  <2>3. CASE h = n
    BY <1>2, <1>6, <1>8, <1>10, <2>3
  <2>. QED BY <1>6, <2>1, <2>2, <2>3
<1>11. StayInv'
  BY <1>9, <1>10 DEF StayInv
<1>. QED BY <1>6, <1>11

LEMMA RowsLeft ==
    ASSUME Documents, StayInv, NEW t, NEW at \in Instants,
           NEW s \in {"completed", "transferred"}, LeaveRow(t, at, s),
           joined' = joined
    PROVE  stays' \in Seq(Row) /\ StayInv'
PROOF
<1>1. stays \in Seq(Row)
  BY DEF Documents
<1>2. DOMAIN stays' = DOMAIN stays
  BY DEF LeaveRow
<1>3. \A i \in Instants : i # None
  BY InstantsAre DEF Documents
<1>4. ASSUME NEW h \in DOMAIN stays
      PROVE  /\ stays'[h] \in Row
             /\ stays'[h].tenant = stays[h].tenant
             /\ (stays'[h].status = "active") = (stays'[h].out = None)
             /\ stays'[h].status = "active" => stays[h].status = "active"
  <2>1. stays[h] \in Row
    BY <1>1, SeqParts
  <2>2. (stays[h].status = "active") = (stays[h].out = None)
    BY DEF StayInv
  <2>3. CASE stays[h].tenant = t /\ stays[h].status = "active"
    <3>1. stays'[h] = [stays[h] EXCEPT !.out = at, !.status = s]
      BY <2>3, Zenon DEF LeaveRow
    <3>2. PICK r, q : r = stays[h] /\ q = stays'[h]
      OBVIOUS
    <3>3. /\ q \in Row /\ q.tenant = r.tenant
          /\ q.status # "active" /\ q.out # None
      BY <1>3, <2>1, <3>1, <3>2 DEF Row
    <3>. QED BY <3>2, <3>3
  <2>4. CASE ~(stays[h].tenant = t /\ stays[h].status = "active")
    <3>1. stays'[h] = stays[h]
      BY <2>4, Zenon DEF LeaveRow
    <3>. QED BY <2>1, <2>2, <3>1
  <2>. QED BY <2>3, <2>4
<1>5. stays' \in [DOMAIN stays -> Row]
  <2>1. stays' = [h \in DOMAIN stays' |-> stays'[h]]
    BY <1>2 DEF LeaveRow
  <2>. QED BY <1>2, <1>4, <2>1
<1>6. stays' \in Seq(Row)
  BY <1>1, <1>5, Mapped
<1>7. StayInv'
  BY <1>2, <1>4 DEF StayInv
<1>. QED BY <1>6, <1>7

\* Only who left for another room may be let in again.
LEMMA ReturningIsAway ==
    ASSUME Documents, StayInv, NEW t \in Tenants, MayReturn(t)
    PROVE  ~Present(t) /\ joined[t] # None
PROOF
<1>1. stays \in Seq(Row)
  BY DEF Documents
<1>2. Len(stays) \in Nat /\ DOMAIN stays = 1..Len(stays)
  BY <1>1, SeqParts
<1>3. RowsOf(t) \subseteq DOMAIN stays
  BY DEF RowsOf
<1>4. IsFiniteSet(RowsOf(t))
  <2>1. IsFiniteSet(DOMAIN stays)
    BY <1>2, FS_Interval
  <2>. QED BY <1>3, <2>1, FS_Subset
<1>5. PICK h : RowsOf(t) = {h}
  <2>1. Cardinality(RowsOf(t)) = 1
    BY DEF MayReturn
  <2>. QED BY <1>4, <2>1, FS_Singleton
<1>6. Max(RowsOf(t)) = h
  <2>1. RowsOf(t) \subseteq 0..Len(stays)
    BY <1>2, <1>3
  <2>2. RowsOf(t) # {}
    BY <1>5
  <2>3. Max(RowsOf(t)) \in RowsOf(t)
    BY <1>2, <2>1, <2>2, MaxIn
  <2>. QED BY <1>5, <2>3
<1>7. stays[h].status = "transferred"
  BY <1>5, <1>6 DEF MayReturn, Assigned
<1>8. h \in DOMAIN stays /\ stays[h].tenant = t
  BY <1>5 DEF RowsOf
<1>9. joined[t] # None
  BY <1>8 DEF StayInv
<1>10. ASSUME Present(t) PROVE FALSE
  <2>1. PICK g \in DOMAIN stays : stays[g].tenant = t /\ stays[g].status = "active"
    BY <1>10 DEF Present
  <2>2. g = h
    BY <1>5, <2>1 DEF RowsOf
  <2>. QED BY <1>7, <2>1, <2>2
<1>. QED BY <1>9, <1>10

\* Who never joined has no stay.
LEMMA NewcomerIsAway ==
    ASSUME Documents, StayInv, NEW t \in Tenants, joined[t] = None
    PROVE  ~Present(t)
PROOF
BY DEF StayInv, Present

-----------------------------------------------------------------------------
(* The reading at which a tenant enters                                    *)

\* One more reading, of a cycle there is.
LEMMA ReadingAppended ==
    ASSUME NEW rs \in Seq(Measure), NEW e \in Measure, NEW D,
           e.cycle \in D, \A i \in DOMAIN rs : rs[i].cycle \in D
    PROVE  /\ Append(rs, e) \in Seq(Measure)
           /\ \A i \in DOMAIN Append(rs, e) : Append(rs, e)[i].cycle \in D
PROOF
BY Appended

LEMMA ReadingTyped ==
    ASSUME Documents, NEW at \in Instants, NEW t \in Tenants \cup {Nobody},
           NEW v \in Nat, NEW c \in Nat,
           NEW event \in {"periodStart", "periodEnd", "moveIn", "moveOut",
                          "meterReplacement"}
    PROVE  Reading(at, event, t, v, c) \in Measure
           /\ Reading(at, event, t, v, c).cycle = c
PROOF
BY DEF Reading, Measure

\* When a cycle may be opened at an instant, all the others have ended.
LEMMA AllEnded ==
    ASSUME NEW at \in Instants, CanInitialize(at), NEW c \in DOMAIN cycles,
           Documents, Ordered(cycles)
    PROVE  cycles[c].end # None /\ cycles[c].end <= at
PROOF
<1>1. cycles # <<>>
  OBVIOUS
<1>2. ClosedContinuity(at)
  BY <1>1 DEF CanInitialize
<1>3. PICK d \in DOMAIN cycles : cycles[c].end <= cycles[d].end /\ cycles[d].end <= at
  BY <1>2, Zenon DEF ClosedContinuity
<1>4. \A e \in DOMAIN cycles : cycles[e].end # None
  BY DEF CanInitialize, Active, Ordered
<1>5. \A e \in DOMAIN cycles : cycles[e].end \in Instants
  <2>1. PICK X : cycles \in Seq(CycleWith(X))
    BY DEF Documents
  <2>2. \A e \in DOMAIN cycles : cycles[e] \in CycleWith(X)
    BY <2>1, SeqParts, Zenon
  <2>. QED BY <1>4, <2>2 DEF CycleWith
<1>6. cycles[c].end \in Nat /\ cycles[d].end \in Nat /\ at \in Nat
  BY <1>5, InstantsAre DEF Documents
<1>. QED BY <1>3, <1>4, <1>6

LEMMA Entering ==
    ASSUME Documents, ReadingInv, Ordered(cycles),
           NEW t \in Tenants, NEW at \in Instants, EnterReading(t, at)
    PROVE  /\ readings' \in Seq(Measure)
           /\ \E Y : cycles' \in Seq(CycleWith(Y))
           /\ ReadingInv' /\ Ordered(cycles')
PROOF
<1>1. PICK X : cycles \in Seq(CycleWith(X))
  BY DEF Documents
<1>2. readings \in Seq(Measure) /\ meter \in Nat
  BY DEF Documents
<1>3. Len(cycles) \in Nat /\ DOMAIN cycles = 1..Len(cycles)
  BY <1>1, SeqParts
<1>4. CASE \E c \in Open(at) :
             /\ readings' = Append(readings, Reading(at, "moveIn", t, meter, c))
             /\ UNCHANGED cycles
  <2>1. PICK c \in Open(at) :
             /\ readings' = Append(readings, Reading(at, "moveIn", t, meter, c))
             /\ UNCHANGED cycles
    BY <1>4
  <2>2. c \in DOMAIN cycles /\ c \in Nat
    BY <1>3 DEF Open, Active
  <2>3. PICK e : e = Reading(at, "moveIn", t, meter, c)
    OBVIOUS
  <2>4. e \in Measure /\ e.cycle = c
    BY <1>2, <2>2, <2>3, ReadingTyped
  <2>5. readings' \in Seq(Measure)
        /\ \A i \in DOMAIN readings' : readings'[i].cycle \in DOMAIN cycles
    BY <1>2, <2>1, <2>2, <2>3, <2>4, ReadingAppended DEF ReadingInv
  <2>. QED BY <1>1, <2>1, <2>5 DEF ReadingInv
<1>5. CASE ~\E c \in Open(at) :
             /\ readings' = Append(readings, Reading(at, "moveIn", t, meter, c))
             /\ UNCHANGED cycles
  <2>1. PICK n : n = Len(cycles) + 1
    OBVIOUS
  <2>2. /\ CanInitialize(at)
        /\ cycles' = Append(cycles, Cycle(at, meter, VacancyBefore))
        /\ readings' = readings
             \o <<Reading(at, "periodStart", Nobody, meter, n),
                  Reading(at, "moveIn", t, meter, n)>>
    BY <1>5, <2>1, Zenon DEF EnterReading
  <2>3. PICK Y : /\ X \subseteq Y
                 /\ Cycle(at, meter, VacancyBefore) \in CycleWith(Y)
                 /\ Cycle(at, meter, VacancyBefore).status = "open"
                 /\ Cycle(at, meter, VacancyBefore).start = at
                 /\ Cycle(at, meter, VacancyBefore).end = None
    BY <1>2, NewCycle
  <2>4. cycles \in Seq(CycleWith(Y))
    BY <1>1, <2>3, Widened
  <2>5. \A c \in DOMAIN cycles : cycles[c].end # None /\ cycles[c].end <= at
    BY <2>2, AllEnded
  <2>6. PICK y : y = Cycle(at, meter, VacancyBefore)
    OBVIOUS
  <2>7. /\ cycles' \in Seq(CycleWith(Y)) /\ Ordered(cycles')
        /\ DOMAIN cycles \subseteq DOMAIN cycles' /\ n \in DOMAIN cycles'
    <3>1. y \in CycleWith(Y) /\ y.status = "open" /\ y.end = None
      BY <2>3, <2>6
    <3>2. \A c \in DOMAIN cycles : cycles[c].end # None /\ cycles[c].end <= y.start
      BY <2>3, <2>5, <2>6
    <3>. QED BY <2>1, <2>2, <2>4, <2>6, <3>1, <3>2, OrderedAppend
  <2>8. PICK d, e : /\ d = Reading(at, "periodStart", Nobody, meter, n)
                    /\ e = Reading(at, "moveIn", t, meter, n)
    OBVIOUS
  <2>9. d \in Measure /\ e \in Measure /\ d.cycle = n /\ e.cycle = n
    <3>1. n \in Nat
      BY <1>3, <2>1
    <3>2. d \in Measure /\ d.cycle = n
      BY <1>2, <2>8, <3>1 DEF Reading, Measure
    <3>3. e \in Measure /\ e.cycle = n
      BY <1>2, <2>8, <3>1, ReadingTyped
    <3>. QED BY <3>2, <3>3
  <2>10. readings' = Append(Append(readings, d), e)
    BY <1>2, <2>2, <2>8, <2>9, Added
  <2>11. PICK rs : rs = Append(readings, d)
    OBVIOUS
  <2>12. rs \in Seq(Measure)
         /\ \A i \in DOMAIN rs : rs[i].cycle \in DOMAIN cycles'
    <3>1. \A i \in DOMAIN readings : readings[i].cycle \in DOMAIN cycles'
      BY <2>7 DEF ReadingInv
    <3>. QED BY <1>2, <2>7, <2>9, <2>11, <3>1, ReadingAppended
  <2>13. readings' \in Seq(Measure)
         /\ \A i \in DOMAIN readings' : readings'[i].cycle \in DOMAIN cycles'
    BY <2>7, <2>9, <2>10, <2>11, <2>12, ReadingAppended
  <2>. QED BY <2>7, <2>13 DEF ReadingInv
<1>. QED BY <1>4, <1>5

-----------------------------------------------------------------------------
(* The steps                                                               *)

LEMMA InitInv == Init => IInv
PROOF
<1> SUFFICES ASSUME Init PROVE IInv
  OBVIOUS
<1>1. day \in 0..LastDay /\ meter \in Nat
  BY MeterAssumption DEF Init
<1>2. joined \in [Tenants -> Instants \cup {None}]
  BY DEF Init
<1>3. /\ stays = <<>> /\ readings = <<>> /\ cycles = <<>>
      /\ DOMAIN stays = {} /\ DOMAIN readings = {} /\ DOMAIN cycles = {}
  BY DEF Init
<1>4. stays \in Seq(Row) /\ readings \in Seq(Measure)
      /\ cycles \in Seq(CycleWith({}))
  BY <1>3, EmptySeq
<1>5. Documents
  BY <1>1, <1>2, <1>4, Zenon DEF Documents
<1>6. StayInv /\ ReadingInv /\ Ordered(cycles)
  BY <1>3, Zenon DEF StayInv, ReadingInv, Ordered
<1>. QED BY <1>5, <1>6 DEF IInv

LEMMA NightInv ==
    ASSUME IInv, NEW u \in Uses, Night(u)
    PROVE  IInv'
PROOF
<1>1. day' \in 0..LastDay
  <2>1. day \in 0..LastDay /\ day < LastDay /\ day' = day + 1
    BY DEF Night, IInv, Documents
  <2>. QED BY <2>1, MeterAssumption
<1>2. meter' \in Nat
  <2>1. u \in Nat /\ meter \in Nat /\ meter' = meter + u
    BY MeterAssumption DEF Night, IInv, Documents
  <2>. QED BY <2>1
<1>3. UNCHANGED <<stays, joined, readings, cycles>>
  BY DEF Night
<1>4. Documents'
  BY <1>1, <1>2, <1>3 DEF IInv, Documents
<1>5. StayInv' /\ ReadingInv' /\ Ordered(cycles')
  BY <1>3 DEF IInv, StayInv, ReadingInv
<1>. QED BY <1>4, <1>5 DEF IInv

\* The date is in no ended cycle and after every start, so after every end.
LEMMA OpenCycleInv ==
    ASSUME IInv, OpenCycle
    PROVE  IInv'
PROOF
<1>1. PICK at : at = Midnight(day)
  OBVIOUS
<1>2. at \in Instants /\ at \in Nat
  BY <1>1, InstantsAre DEF IInv, Documents
<1>3. PICK X : cycles \in Seq(CycleWith(X))
  BY DEF IInv, Documents
<1>4. readings \in Seq(Measure) /\ meter \in Nat /\ Documents
  BY DEF IInv, Documents
<1>5. Len(cycles) \in Nat /\ \A c \in DOMAIN cycles : cycles[c] \in CycleWith(X)
  BY <1>3, SeqParts, Zenon
<1>6. PICK n : n = Len(cycles) + 1
  OBVIOUS
<1>7. /\ \A c \in DOMAIN cycles : cycles[c].start < at
      /\ Active = {}
      /\ ~FallsWithinClosed(at)
      /\ cycles' = Append(cycles, Cycle(at, meter, 0))
      /\ readings' = Append(readings,
                            Reading(at, "periodStart", Nobody, meter, n))
      /\ UNCHANGED <<day, meter, stays, joined>>
  BY <1>1, <1>6, Zenon DEF OpenCycle, world
<1>8. ASSUME NEW c \in DOMAIN cycles
      PROVE  cycles[c].end # None /\ cycles[c].end <= at
  <2>1. cycles[c].end # None
    BY <1>7 DEF Active, IInv, Ordered
  <2>2. cycles[c].start \in Instants /\ cycles[c].end \in Instants
    BY <1>5, <2>1 DEF CycleWith
  <2>3. cycles[c].start \in Nat /\ cycles[c].end \in Nat
    BY <1>4, <2>2, InstantsAre DEF Documents
  <2>4. ~(cycles[c].start <= at /\ at < cycles[c].end)
    BY <1>7 DEF FallsWithinClosed
  <2>5. cycles[c].start < at
    BY <1>7
  <2>. QED BY <1>2, <2>1, <2>3, <2>4, <2>5
<1>9. PICK Y : /\ X \subseteq Y
               /\ Cycle(at, meter, 0) \in CycleWith(Y)
               /\ Cycle(at, meter, 0).status = "open"
               /\ Cycle(at, meter, 0).start = at
               /\ Cycle(at, meter, 0).end = None
  <2>1. at \in Instants /\ meter \in Nat
    BY <1>2, <1>4
  <2>. QED BY <2>1, NewCycle, Zenon
<1>10. PICK y : y = Cycle(at, meter, 0)
  OBVIOUS
<1>11. /\ cycles' \in Seq(CycleWith(Y)) /\ Ordered(cycles')
       /\ DOMAIN cycles \subseteq DOMAIN cycles' /\ n \in DOMAIN cycles'
  <2>1. y \in CycleWith(Y) /\ y.status = "open" /\ y.end = None
    BY <1>9, <1>10
  <2>2. \A c \in DOMAIN cycles : cycles[c].end # None /\ cycles[c].end <= y.start
    BY <1>8, <1>9, <1>10
  <2>3. cycles \in Seq(CycleWith(Y))
    BY <1>3, <1>9, Widened
  <2>4. Ordered(cycles)
    BY DEF IInv
  <2>5. cycles' = Append(cycles, y)
    BY <1>7, <1>10
  <2>. QED BY <1>6, <2>1, <2>2, <2>3, <2>4, <2>5, OrderedAppend
<1>12. readings' \in Seq(Measure)
       /\ \A i \in DOMAIN readings' : readings'[i].cycle \in DOMAIN cycles'
  <2>1. PICK e : e = Reading(at, "periodStart", Nobody, meter, n)
    OBVIOUS
  <2>2. n \in Nat
    BY <1>5, <1>6
  <2>3. e \in Measure /\ e.cycle = n
    BY <1>2, <1>4, <2>1, <2>2 DEF Reading, Measure
  <2>4. \A i \in DOMAIN readings : readings[i].cycle \in DOMAIN cycles'
    BY <1>11 DEF IInv, ReadingInv
  <2>. QED BY <1>4, <1>7, <1>11, <2>1, <2>3, <2>4, ReadingAppended
<1>13. Documents'
  BY <1>4, <1>7, <1>11, <1>12, Zenon DEF Documents
<1>14. StayInv' /\ ReadingInv'
  BY <1>7, <1>12 DEF IInv, StayInv, ReadingInv
<1>. QED BY <1>11, <1>13, <1>14 DEF IInv

LEMMA ArriveInv ==
    ASSUME IInv, NEW t \in Tenants, Arrive(t)
    PROVE  IInv'
PROOF
<1>1. PICK at : at = Morning(day)
  OBVIOUS
<1>2. Documents /\ StayInv /\ ReadingInv /\ Ordered(cycles)
  BY DEF IInv
<1>3. at \in Instants /\ at # None
  BY <1>1, <1>2, InstantsAre DEF Documents
<1>4. /\ joined[t] = None
      /\ EnterReading(t, at) /\ EnterRow(t, at)
      /\ joined' = [joined EXCEPT ![t] = at]
      /\ UNCHANGED <<day, meter>>
  BY <1>1, Zenon DEF Arrive, world
<1>5. /\ readings' \in Seq(Measure)
      /\ \E Y : cycles' \in Seq(CycleWith(Y))
      /\ ReadingInv' /\ Ordered(cycles')
  BY <1>2, <1>3, <1>4, Entering
<1>6. joined \in [Tenants -> Instants \cup {None}]
  BY <1>2 DEF Documents
<1>7. /\ joined' \in [Tenants -> Instants \cup {None}] /\ joined'[t] # None
      /\ \A u \in Tenants : joined[u] # None => joined'[u] # None
  BY <1>3, <1>4, <1>6
<1>8. ~Present(t)
  BY <1>2, <1>4, NewcomerIsAway
<1>9. stays' \in Seq(Row) /\ StayInv'
  BY <1>2, <1>3, <1>4, <1>7, <1>8, RowAppended
<1>10. Documents'
  BY <1>2, <1>4, <1>5, <1>7, <1>9, Zenon DEF Documents
<1>. QED BY <1>5, <1>9, <1>10 DEF IInv

LEMMA TransferInInv ==
    ASSUME IInv, NEW t \in Tenants, TransferIn(t)
    PROVE  IInv'
PROOF
<1>1. PICK at, midnight : at = Afternoon(day) /\ midnight = Midnight(day)
  OBVIOUS
<1>2. Documents /\ StayInv /\ ReadingInv /\ Ordered(cycles)
  BY DEF IInv
<1>3. /\ at \in Instants /\ midnight \in Instants
      /\ 0 \in Instants /\ 0 # None
  BY <1>1, <1>2, InstantsAre DEF Documents
<1>4. /\ joined[t] = None \/ MayReturn(t)
      /\ EnterReading(t, at) /\ EnterRow(t, midnight)
      /\ joined' = [joined EXCEPT ![t] = IF @ = None THEN 0 ELSE @]
      /\ UNCHANGED <<day, meter>>
  BY <1>1, Zenon DEF TransferIn, world
<1>5. /\ readings' \in Seq(Measure)
      /\ \E Y : cycles' \in Seq(CycleWith(Y))
      /\ ReadingInv' /\ Ordered(cycles')
  BY <1>2, <1>3, <1>4, Entering
<1>6. joined \in [Tenants -> Instants \cup {None}]
  BY <1>2 DEF Documents
<1>7. /\ joined' \in [Tenants -> Instants \cup {None}] /\ joined'[t] # None
      /\ \A u \in Tenants : joined[u] # None => joined'[u] # None
  BY <1>3, <1>4, <1>6
<1>8. ~Present(t)
  BY <1>2, <1>4, NewcomerIsAway, ReturningIsAway
<1>9. stays' \in Seq(Row) /\ StayInv'
  BY <1>2, <1>3, <1>4, <1>7, <1>8, RowAppended
<1>10. Documents'
  BY <1>2, <1>4, <1>5, <1>7, <1>9, Zenon DEF Documents
<1>. QED BY <1>5, <1>9, <1>10 DEF IInv

\* A departure reads the meter and, of the last occupant, ends the open cycle.
LEMMA LeaveInv ==
    ASSUME IInv, NEW t \in Tenants, Leave(t)
    PROVE  IInv'
PROOF
<1>1. PICK at : at = Ten(day)
  OBVIOUS
<1>2. Documents /\ StayInv /\ ReadingInv /\ Ordered(cycles)
  BY DEF IInv
<1>3. at \in Instants /\ at # None
  BY <1>1, <1>2, InstantsAre DEF Documents
<1>4. PICK c \in Open(at) :
      /\ readings' = Append(readings, Reading(at, "moveOut", t, meter, c))
      /\ LeaveRow(t, at, "completed")
      /\ cycles' = IF \E u \in Tenants \ {t} : Present(u) THEN cycles
                   ELSE [cycles EXCEPT ![c].status = "closed",
                                       ![c].end = at, ![c].to = meter]
      /\ UNCHANGED <<day, meter, joined>>
  BY <1>1, Zenon DEF Leave, world
<1>5. PICK X : cycles \in Seq(CycleWith(X))
  BY <1>2 DEF Documents
<1>6. readings \in Seq(Measure) /\ meter \in Nat
  BY <1>2 DEF Documents
<1>7. c \in DOMAIN cycles /\ cycles[c].status = "open" /\ c \in Nat
  <2>1. c \in DOMAIN cycles /\ cycles[c].status = "open"
    BY DEF Open, Active
  <2>. QED BY <1>5, <2>1, SeqParts
<1>8. /\ cycles' \in Seq(CycleWith(X)) /\ Ordered(cycles')
      /\ DOMAIN cycles' = DOMAIN cycles
  <2>1. CASE cycles' = cycles
    BY <1>2, <1>5, <2>1
  <2>2. CASE cycles' = [cycles EXCEPT ![c].status = "closed",
                                      ![c].end = at, ![c].to = meter]
    <3>1. PICK d, e : d = cycles[c] /\ e = [d EXCEPT !.status = "closed",
                                             !.end = at, !.to = meter]
      OBVIOUS
    <3>2. d \in CycleWith(X)
      BY <1>5, <1>7, <3>1, SeqParts
    <3>3. /\ e \in CycleWith(X) /\ e.start = d.start
          /\ e.status # "open" /\ e.end # None
      BY <1>3, <1>6, <3>1, <3>2 DEF CycleWith
    <3>4. cycles' = [cycles EXCEPT ![c] = e]
      BY <2>2, <3>1, Zenon
    <3>5. e.start = cycles[c].start /\ (e.status = "open") = (e.end = None)
      BY <3>1, <3>3
    <3>. QED BY <1>2, <1>5, <1>7, <3>3, <3>4, <3>5, OrderedChange
  <2>. QED BY <1>4, <2>1, <2>2
<1>9. readings' \in Seq(Measure)
      /\ \A i \in DOMAIN readings' : readings'[i].cycle \in DOMAIN cycles'
  <2>1. PICK e : e = Reading(at, "moveOut", t, meter, c)
    OBVIOUS
  <2>2. e \in Measure /\ e.cycle = c
    BY <1>3, <1>6, <1>7, <2>1 DEF Reading, Measure
  <2>3. \A i \in DOMAIN readings : readings[i].cycle \in DOMAIN cycles'
    BY <1>2, <1>8 DEF ReadingInv
  <2>. QED BY <1>4, <1>6, <1>7, <1>8, <2>1, <2>2, <2>3, ReadingAppended
<1>10. stays' \in Seq(Row) /\ StayInv'
  BY <1>2, <1>3, <1>4, RowsLeft
<1>11. Documents'
  BY <1>2, <1>4, <1>8, <1>9, <1>10, Zenon DEF Documents
<1>12. ReadingInv'
  BY <1>9 DEF ReadingInv
<1>. QED BY <1>8, <1>10, <1>11, <1>12 DEF IInv

LEMMA TransferOutInv ==
    ASSUME IInv, NEW t \in Tenants, TransferOut(t)
    PROVE  IInv'
PROOF
<1>1. PICK at, midnight : at = Afternoon(day) /\ midnight = Midnight(day)
  OBVIOUS
<1>2. Documents /\ StayInv /\ ReadingInv /\ Ordered(cycles)
  BY DEF IInv
<1>3. at \in Instants /\ midnight \in Instants
  BY <1>1, <1>2, InstantsAre DEF Documents
<1>4. PICK c \in Open(at) :
      /\ readings' = Append(readings, Reading(at, "moveOut", t, meter, c))
      /\ LeaveRow(t, midnight, "transferred")
      /\ UNCHANGED <<day, meter, joined, cycles>>
  BY <1>1, Zenon DEF TransferOut, world
<1>5. PICK X : cycles \in Seq(CycleWith(X))
  BY <1>2 DEF Documents
<1>6. readings \in Seq(Measure) /\ meter \in Nat
  BY <1>2 DEF Documents
<1>7. c \in DOMAIN cycles /\ c \in Nat
  <2>1. c \in DOMAIN cycles
    BY DEF Open, Active
  <2>. QED BY <1>5, <2>1, SeqParts
<1>8. readings' \in Seq(Measure)
      /\ \A i \in DOMAIN readings' : readings'[i].cycle \in DOMAIN cycles
  <2>1. PICK e : e = Reading(at, "moveOut", t, meter, c)
    OBVIOUS
  <2>2. e \in Measure /\ e.cycle = c
    BY <1>3, <1>6, <1>7, <2>1 DEF Reading, Measure
  <2>3. \A i \in DOMAIN readings : readings[i].cycle \in DOMAIN cycles
    BY <1>2 DEF ReadingInv
  <2>. QED BY <1>4, <1>6, <1>7, <2>1, <2>2, <2>3, ReadingAppended
<1>9. stays' \in Seq(Row) /\ StayInv'
  BY <1>2, <1>3, <1>4, RowsLeft
<1>10. Documents'
  BY <1>2, <1>4, <1>8, <1>9 DEF Documents
<1>11. ReadingInv' /\ Ordered(cycles')
  BY <1>2, <1>4, <1>8 DEF ReadingInv
<1>. QED BY <1>9, <1>10, <1>11 DEF IInv

LEMMA ReplaceInv ==
    ASSUME IInv, Replace
    PROVE  IInv'
PROOF
<1>1. PICK at : at = Midnight(day)
  OBVIOUS
<1>2. Documents /\ StayInv /\ ReadingInv /\ Ordered(cycles)
  BY DEF IInv
<1>3. at \in Instants
  BY <1>1, <1>2, InstantsAre DEF Documents
<1>4. PICK c \in Open(at) :
      /\ readings' = Append(readings,
           [Reading(at, "meterReplacement", Nobody, 0, c)
              EXCEPT !.final = meter])
      /\ meter' = 0
      /\ UNCHANGED <<day, stays, joined, cycles>>
  BY <1>1, Zenon DEF Replace
<1>5. PICK X : cycles \in Seq(CycleWith(X))
  BY <1>2 DEF Documents
<1>6. readings \in Seq(Measure) /\ meter \in Nat
  BY <1>2 DEF Documents
<1>7. c \in DOMAIN cycles /\ c \in Nat
  <2>1. c \in DOMAIN cycles
    BY DEF Open, Active
  <2>. QED BY <1>5, <2>1, SeqParts
<1>8. readings' \in Seq(Measure)
      /\ \A i \in DOMAIN readings' : readings'[i].cycle \in DOMAIN cycles
  <2>1. PICK e : e = [Reading(at, "meterReplacement", Nobody, 0, c)
                        EXCEPT !.final = meter]
    OBVIOUS
  <2>2. e \in Measure /\ e.cycle = c
    BY <1>3, <1>6, <1>7, <2>1 DEF Reading, Measure
  <2>3. \A i \in DOMAIN readings : readings[i].cycle \in DOMAIN cycles
    BY <1>2 DEF ReadingInv
  <2>. QED BY <1>4, <1>6, <1>7, <2>1, <2>2, <2>3, ReadingAppended
<1>9. Documents'
  <2>1. meter' \in Nat
    BY <1>4
  <2>. QED BY <1>2, <1>4, <1>8, <2>1 DEF Documents
<1>10. StayInv' /\ ReadingInv' /\ Ordered(cycles')
  BY <1>2, <1>4, <1>8 DEF StayInv, ReadingInv
<1>. QED BY <1>9, <1>10 DEF IInv

\* The open cycle ends at the date at which the next one begins.
LEMMA CloseInv ==
    ASSUME IInv, Close
    PROVE  IInv'
PROOF
<1>1. PICK end : end = Midnight(day)
  OBVIOUS
<1>2. Documents /\ StayInv /\ ReadingInv /\ Ordered(cycles)
  BY DEF IInv
<1>3. end \in Instants /\ end # None
  BY <1>1, <1>2, InstantsAre DEF Documents
<1>4. PICK c, rs, done, e :
      /\ c \in Active
      /\ cycles[c].start < end
      /\ e = Reading(end, "periodEnd", Nobody, meter, c)
      /\ done = [Computed(cycles[c], rs, end, Nobody)
                   EXCEPT !.status = "closed", !.end = end, !.to = meter]
      /\ \/ /\ cycles' = Append([cycles EXCEPT ![c] = done],
                               Cycle(end, meter, 0))
            /\ readings' = Append(Append(readings, e),
                             Reading(end, "periodStart", Nobody, meter,
                                     Len(cycles) + 1))
         \/ /\ cycles' = [cycles EXCEPT ![c] = done]
            /\ readings' = Append(readings, e)
      /\ UNCHANGED <<day, meter, stays, joined>>
  BY <1>1, Zenon DEF Close, MayEnd, world
<1>5. PICK W : cycles \in Seq(CycleWith(W))
  BY <1>2 DEF Documents
<1>6. readings \in Seq(Measure) /\ meter \in Nat
  BY <1>2 DEF Documents
<1>7. c \in DOMAIN cycles /\ cycles[c].status = "open" /\ c \in Nat
  <2>1. c \in DOMAIN cycles /\ cycles[c].status = "open"
    BY <1>4 DEF Active
  <2>. QED BY <1>5, <2>1, SeqParts
<1>8. PICK d : d = cycles[c]
  OBVIOUS
<1>9. d \in CycleWith(W)
  BY <1>5, <1>7, <1>8, SeqParts
<1>10. PICK V : /\ W \subseteq V
                /\ Computed(d, rs, end, Nobody) \in CycleWith(V)
                /\ Computed(d, rs, end, Nobody).start = d.start
  <2>1. PICK nobody : nobody = Nobody
    OBVIOUS
  <2>2. \E V : /\ W \subseteq V
               /\ Computed(d, rs, end, nobody) \in CycleWith(V)
               /\ Computed(d, rs, end, nobody).start = d.start
               /\ Computed(d, rs, end, nobody).end = d.end
    BY <1>9, ComputedCycle
  <2>. QED BY <2>1, <2>2, Zenon
<1>11. PICK X : /\ V \subseteq X
                /\ Cycle(end, meter, 0) \in CycleWith(X)
                /\ Cycle(end, meter, 0).status = "open"
                /\ Cycle(end, meter, 0).start = end
                /\ Cycle(end, meter, 0).end = None
  <2>1. end \in Instants /\ meter \in Nat
    BY <1>3, <1>6
  <2>. QED BY <2>1, NewCycle, Zenon
<1>12. PICK m, y : m = Computed(d, rs, end, Nobody) /\ y = Cycle(end, meter, 0)
  OBVIOUS
<1>13. /\ done \in CycleWith(X) /\ done.start = d.start
       /\ done.status # "open" /\ done.end = end
  <2>1. m \in CycleWith(V) /\ m.start = d.start
    BY <1>10, <1>12
  <2>2. done = [m EXCEPT !.status = "closed", !.end = end, !.to = meter]
    BY <1>4, <1>8, <1>12
  <2>. QED BY <1>3, <1>6, <1>11, <2>1, <2>2 DEF CycleWith
<1>14. cycles \in Seq(CycleWith(X))
  <2>1. W \subseteq X
    BY <1>10, <1>11
  <2>. QED BY <1>5, <2>1, Widened
<1>15. PICK ds : ds = [cycles EXCEPT ![c] = done]
  OBVIOUS
<1>16. /\ ds \in Seq(CycleWith(X)) /\ Ordered(ds)
       /\ DOMAIN ds = DOMAIN cycles /\ Len(ds) = Len(cycles)
       /\ \A j \in DOMAIN cycles : ds[j] = IF j = c THEN done ELSE cycles[j]
  <2>1. done.start = cycles[c].start /\ (done.status = "open") = (done.end = None)
    BY <1>3, <1>8, <1>13
  <2>2. ds \in Seq(CycleWith(X)) /\ Ordered(ds)
    BY <1>2, <1>7, <1>13, <1>14, <1>15, <2>1, OrderedChange
  <2>3. /\ DOMAIN ds = DOMAIN cycles /\ Len(ds) = Len(cycles)
        /\ \A j \in DOMAIN cycles : ds[j] = IF j = c THEN done ELSE cycles[j]
    BY <1>7, <1>13, <1>14, <1>15, Changed
  <2>. QED BY <2>2, <2>3
<1>17. ASSUME NEW D, DOMAIN cycles \subseteq D
       PROVE  /\ Append(readings, e) \in Seq(Measure)
              /\ \A i \in DOMAIN Append(readings, e) :
                    Append(readings, e)[i].cycle \in D
  <2>1. e \in Measure /\ e.cycle = c
    BY <1>3, <1>4, <1>6, <1>7 DEF Reading, Measure
  <2>2. \A i \in DOMAIN readings : readings[i].cycle \in D
    BY <1>2, <1>17 DEF ReadingInv
  <2>. QED BY <1>6, <1>7, <1>17, <2>1, <2>2, ReadingAppended
<1>18. CASE /\ cycles' = Append([cycles EXCEPT ![c] = done],
                                Cycle(end, meter, 0))
            /\ readings' = Append(Append(readings, e),
                             Reading(end, "periodStart", Nobody, meter,
                                     Len(cycles) + 1))
  <2>1. PICK n, f, rr : /\ n = Len(cycles) + 1
                        /\ f = Reading(end, "periodStart", Nobody, meter, n)
                        /\ rr = Append(readings, e)
    OBVIOUS
  <2>2. cycles' = Append(ds, y) /\ readings' = Append(rr, f)
    BY <1>12, <1>15, <1>18, <2>1
  <2>3. \A j \in DOMAIN ds : ds[j].end # None /\ ds[j].end <= end
    <3>1. TAKE j \in DOMAIN ds
    <3>2. CASE j = c
      <4>1. ds[j].end = end
        BY <1>7, <1>13, <1>16, <3>2
      <4>2. end \in Nat
        BY <1>2, <1>3, InstantsAre DEF Documents
      <4>. QED BY <1>3, <4>1, <4>2
    <3>3. CASE j < c
      <4>1. ds[j].end # None /\ ds[j].end <= cycles[c].start
        <5>1. cycles[j].end # None /\ cycles[j].end <= cycles[c].start
          BY <1>2, <1>7, <1>16, <3>3 DEF Ordered
        <5>2. ds[j] = cycles[j]
          BY <1>7, <1>16, <3>3
        <5>. QED BY <5>1, <5>2
      <4>2. cycles[c].start < end
        BY <1>4
      <4>3. cycles[c].start \in Nat /\ ds[j].end \in Nat /\ end \in Nat
        <5>1. cycles[c].start \in Instants
          BY <1>8, <1>9 DEF CycleWith
        <5>2. ds[j] \in CycleWith(X)
          BY <1>16, SeqParts
        <5>3. ds[j].end \in Instants
          BY <4>1, <5>2 DEF CycleWith
        <5>. QED BY <1>2, <1>3, <5>1, <5>3, InstantsAre DEF Documents
      <4>. QED BY <4>1, <4>2, <4>3
    <3>4. ~(c < j)
      BY <1>2, <1>5, <1>7, <1>16, OpenIsLast
    <3>5. j \in Nat
      BY <1>14, <1>16, SeqParts
    <3>. QED BY <1>7, <3>2, <3>3, <3>4, <3>5
  <2>4. /\ cycles' \in Seq(CycleWith(X)) /\ Ordered(cycles')
        /\ DOMAIN cycles \subseteq DOMAIN cycles' /\ n \in DOMAIN cycles'
    <3>1. y \in CycleWith(X) /\ y.status = "open" /\ y.end = None
      BY <1>11, <1>12
    <3>2. \A j \in DOMAIN ds : ds[j].end # None /\ ds[j].end <= y.start
      BY <1>11, <1>12, <2>3
    <3>. QED BY <1>16, <2>1, <2>2, <3>1, <3>2, OrderedAppend
  <2>5. readings' \in Seq(Measure)
        /\ \A i \in DOMAIN readings' : readings'[i].cycle \in DOMAIN cycles'
    <3>1. rr \in Seq(Measure)
          /\ \A i \in DOMAIN rr : rr[i].cycle \in DOMAIN cycles'
      BY <1>17, <2>1, <2>4
    <3>2. n \in Nat
      BY <1>5, <2>1, SeqParts
    <3>3. f \in Measure /\ f.cycle = n
      BY <1>3, <1>6, <2>1, <3>2 DEF Reading, Measure
    <3>. QED BY <2>2, <2>4, <3>1, <3>3, ReadingAppended
  <2>6. Documents'
    BY <1>2, <1>4, <2>4, <2>5, Zenon DEF Documents
  <2>7. StayInv' /\ ReadingInv'
    BY <1>2, <1>4, <2>5 DEF StayInv, ReadingInv
  <2>. QED BY <2>4, <2>6, <2>7 DEF IInv
<1>19. CASE /\ cycles' = [cycles EXCEPT ![c] = done]
            /\ readings' = Append(readings, e)
  <2>1. cycles' = ds /\ readings' = Append(readings, e)
    BY <1>15, <1>19
  <2>2. readings' \in Seq(Measure)
        /\ \A i \in DOMAIN readings' : readings'[i].cycle \in DOMAIN cycles'
    BY <1>16, <1>17, <2>1
  <2>3. Documents'
    BY <1>2, <1>4, <1>16, <2>1, <2>2, Zenon DEF Documents
  <2>4. StayInv' /\ ReadingInv' /\ Ordered(cycles')
    BY <1>2, <1>4, <1>16, <2>1, <2>2 DEF StayInv, ReadingInv
  <2>. QED BY <2>3, <2>4 DEF IInv
<1>. QED BY <1>4, <1>18, <1>19

\* A revision changes what a cycle charges, not when it was.
LEMMA ReviseInv ==
    ASSUME IInv, NEW c \in DOMAIN cycles, Revise(c)
    PROVE  IInv'
PROOF
<1>1. Documents /\ StayInv /\ ReadingInv /\ Ordered(cycles)
  BY DEF IInv
<1>2. PICK W : cycles \in Seq(CycleWith(W))
  BY <1>1 DEF Documents
<1>3. PICK d : d = cycles[c]
  OBVIOUS
<1>4. PICK rs :
      /\ d.status = "closed"
      /\ cycles' = [cycles EXCEPT ![c] =
                      [Computed(d, rs, d.end, Nobody)
                         EXCEPT !.status = "revised", !.vacancy = 0]]
      /\ UNCHANGED <<day, meter, stays, joined, readings>>
  BY <1>3, Zenon DEF Revise, world
<1>5. d \in CycleWith(W)
  BY <1>2, <1>3, SeqParts
<1>6. PICK V : /\ W \subseteq V
               /\ Computed(d, rs, d.end, Nobody) \in CycleWith(V)
               /\ Computed(d, rs, d.end, Nobody).start = d.start
               /\ Computed(d, rs, d.end, Nobody).end = d.end
  <2>1. PICK end, nobody : end = d.end /\ nobody = Nobody
    OBVIOUS
  <2>2. \E V : /\ W \subseteq V
               /\ Computed(d, rs, end, nobody) \in CycleWith(V)
               /\ Computed(d, rs, end, nobody).start = d.start
               /\ Computed(d, rs, end, nobody).end = d.end
    BY <1>5, ComputedCycle
  <2>. QED BY <2>1, <2>2, Zenon
<1>7. PICK m, e : /\ m = Computed(d, rs, d.end, Nobody)
                  /\ e = [m EXCEPT !.status = "revised", !.vacancy = 0]
  OBVIOUS
<1>8. PICK X : X = V \cup {0}
  OBVIOUS
<1>9. /\ e \in CycleWith(X) /\ e.start = d.start /\ e.end = d.end
      /\ e.status # "open"
  <2>1. m \in CycleWith(V) /\ m.start = d.start /\ m.end = d.end
    BY <1>6, <1>7
  <2>. QED BY <1>7, <1>8, <2>1 DEF CycleWith
<1>10. d.end # None
  BY <1>1, <1>3, <1>4 DEF Ordered
<1>11. cycles \in Seq(CycleWith(X))
  <2>1. W \subseteq X
    BY <1>6, <1>8
  <2>. QED BY <1>2, <2>1, Widened
<1>12. /\ cycles' \in Seq(CycleWith(X)) /\ Ordered(cycles')
       /\ DOMAIN cycles' = DOMAIN cycles
  <2>1. cycles' = [cycles EXCEPT ![c] = e]
    BY <1>4, <1>7
  <2>2. /\ e.start = cycles[c].start /\ e.end = cycles[c].end
        /\ (e.status = "open") = (e.end = None)
    BY <1>3, <1>9, <1>10
  <2>. QED BY <1>1, <1>9, <1>11, <2>1, <2>2, OrderedChange
<1>13. Documents'
  BY <1>1, <1>4, <1>12, Zenon DEF Documents
<1>14. StayInv' /\ ReadingInv'
  BY <1>1, <1>4, <1>12 DEF StayInv, ReadingInv
<1>. QED BY <1>12, <1>13, <1>14 DEF IInv

LEMMA StutterInv ==
    ASSUME IInv, UNCHANGED vars
    PROVE  IInv'
PROOF
<1>1. UNCHANGED <<day, meter, stays, joined, readings, cycles>>
  BY DEF vars
<1>2. Documents'
  BY <1>1 DEF IInv, Documents
<1>3. StayInv' /\ ReadingInv' /\ Ordered(cycles')
  BY <1>1 DEF IInv, StayInv, ReadingInv
<1>. QED BY <1>2, <1>3 DEF IInv

LEMMA StepInv == IInv /\ [Next]_vars => IInv'
PROOF
<1> SUFFICES ASSUME IInv, [Next]_vars PROVE IInv'
  OBVIOUS
<1>1. ASSUME NEW u \in Uses, Night(u) PROVE IInv'
  BY <1>1, NightInv
<1>2. CASE OpenCycle
  BY <1>2, OpenCycleInv
<1>3. ASSUME NEW t \in Tenants, Arrive(t) PROVE IInv'
  BY <1>3, ArriveInv
<1>4. ASSUME NEW t \in Tenants, Leave(t) PROVE IInv'
  BY <1>4, LeaveInv
<1>5. ASSUME NEW t \in Tenants, TransferIn(t) PROVE IInv'
  BY <1>5, TransferInInv
<1>6. ASSUME NEW t \in Tenants, TransferOut(t) PROVE IInv'
  BY <1>6, TransferOutInv
<1>7. CASE Replace
  BY <1>7, ReplaceInv
<1>8. CASE Close
  BY <1>8, CloseInv
<1>9. ASSUME NEW c \in DOMAIN cycles, Revise(c) PROVE IInv'
  BY <1>9, ReviseInv
<1>10. CASE UNCHANGED vars
  BY <1>10, StutterInv
<1>. QED
  BY <1>1, <1>2, <1>3, <1>4, <1>5, <1>6, <1>7, <1>8, <1>9, <1>10, Zenon
     DEF Next

LEMMA Always == Spec => []IInv
PROOF
<1>. QED BY InitInv, StepInv, PTL DEF Spec

-----------------------------------------------------------------------------
(* The theorems                                                            *)

LEMMA TypesFollow == IInv => TypeOK
PROOF
<1> SUFFICES ASSUME IInv PROVE TypeOK
  OBVIOUS
<1>1. PICK X : cycles \in Seq(CycleWith(X))
  BY DEF IInv, Documents
<1>2. stays \in Seq(Row) /\ readings \in Seq(Measure)
  BY DEF IInv, Documents
<1>3. /\ day \in 0..LastDay /\ meter \in Nat
      /\ joined \in [Tenants -> Instants \union {None}]
  BY DEF IInv, Documents
<1>4. ASSUME NEW h \in DOMAIN stays
      PROVE  /\ stays[h].tenant \in Tenants /\ stays[h].in \in Instants
             /\ stays[h].status \in {"active", "completed", "transferred"}
             /\ (stays[h].status = "active") = (stays[h].out = None)
  <2>1. stays[h] \in Row
    BY <1>2, SeqParts
  <2>2. (stays[h].status = "active") = (stays[h].out = None)
    BY DEF IInv, StayInv
  <2>. QED BY <2>1, <2>2 DEF Row
<1>5. ASSUME NEW t \in Tenants
      PROVE  Cardinality({h \in RowsOf(t) : stays[h].status = "active"}) <= 1
  <2>1. PICK A : A = {h \in RowsOf(t) : stays[h].status = "active"}
    OBVIOUS
  <2>2. \A g, h \in A : g = h
    BY <2>1 DEF RowsOf, IInv, StayInv
  <2>3. Cardinality(A) \in {0, 1}
    BY <2>2, AtMostOne
  <2>. QED BY <2>1, <2>3
<1>6. ASSUME NEW i \in DOMAIN readings
      PROVE  /\ readings[i].at \in Instants /\ readings[i].value \in Nat
             /\ readings[i].cycle \in DOMAIN cycles
  <2>1. readings[i] \in Measure
    BY <1>2, SeqParts
  <2>2. readings[i].cycle \in DOMAIN cycles
    BY DEF IInv, ReadingInv
  <2>. QED BY <2>1, <2>2 DEF Measure
<1>7. Cardinality(Active) <= 1
  <2>1. ASSUME NEW c \in Active, NEW d \in Active PROVE c = d
    <3>1. /\ c \in DOMAIN cycles /\ cycles[c].status = "open"
          /\ d \in DOMAIN cycles /\ cycles[d].status = "open"
      BY DEF Active
    <3>2. ~(c < d) /\ ~(d < c)
      BY <1>1, <3>1, OpenIsLast DEF IInv
    <3>3. c \in Nat /\ d \in Nat
      BY <1>1, <3>1, SeqParts
    <3>. QED BY <3>2, <3>3
  <2>2. Cardinality(Active) \in {0, 1}
    BY <2>1, AtMostOne
  <2>. QED BY <2>2
<1>8. \A c \in DOMAIN cycles :
        (cycles[c].status = "open") = (cycles[c].end = None)
  BY DEF IInv, Ordered
<1>. QED BY <1>3, <1>4, <1>5, <1>6, <1>7, <1>8, Zenon DEF TypeOK

\* Every document of a room's electricity keeps its type, a tenant has at
\* most one stay in progress and the room at most one open cycle.
THEOREM TypeCorrect == Spec => []TypeOK
PROOF
<1>. QED BY Always, TypesFollow, PTL

\* The cycles of a room follow one another: no instant, and so no night, is
\* in two of them, for any number of tenants, days and meters.  Cycles an
\* administrator opens at a date before the start of another one are left out
\* of the model (the bound of OpenCycle): there the code lets cycles overlap.
THEOREM CyclesApart == Spec => []CyclesDoNotOverlap
PROOF
<1>1. IInv => CyclesDoNotOverlap
  BY DEF IInv, Ordered, CyclesDoNotOverlap
<1>. QED BY <1>1, Always, PTL
-----------------------------------------------------------------------------
(* Apportioning loses no cent                                              *)

LEMMA DivMod ==
    ASSUME NEW c \in Nat, NEW n \in Nat \ {0}
    PROVE  /\ c \div n \in Nat /\ c % n \in Nat /\ c % n < n
           /\ c = (c \div n) * n + (c % n)
PROOF
<1>1. c \div n \in Nat /\ c % n \in Nat
  OBVIOUS
<1>2. c % n < n
  OBVIOUS
<1>3. c = (c \div n) * n + (c % n)
  OBVIOUS
<1>. QED BY <1>1, <1>2, <1>3

\* The shares of one segment are its units.
LEMMA SharesAddUp ==
    ASSUME NEW cents \in Nat, NEW who \in SUBSET Tenants, who # {},
           NEW g, \A t \in who : g[t] = HamiltonShare(cents, who, t)
    PROVE  SumOf(who, g) = cents
PROOF
<1>1. IsFiniteSet(who) /\ who \subseteq Nat
  BY TenantsAssumption, FS_Subset
<1>2. PICK n : n = Cardinality(who)
  OBVIOUS
<1>3. n \in Nat \ {0}
  BY <1>1, <1>2, FS_CardinalityType, FS_EmptySet
<1>4. PICK b, r : b = cents \div n /\ r = cents % n
  OBVIOUS
<1>5. b \in Nat /\ r \in Nat /\ r < n /\ cents = b * n + r
  BY <1>3, <1>4, DivMod
<1>6. \A t \in who : g[t] = IF Cardinality({u \in who : u < t}) < r
                           THEN b + 1 ELSE b
  BY <1>2, <1>4 DEF HamiltonShare
<1>7. r <= Cardinality(who)
  BY <1>2, <1>3, <1>5
<1>8. SumOf(who, g) = b * Cardinality(who) + r
  BY <1>1, <1>5, <1>6, <1>7, PartsAddUp
<1>. QED BY <1>2, <1>5, <1>8

\* Folds over a set are sums.
LEMMA UnitsFold ==
    ASSUME NEW segs, NEW S, NEW g, \A k \in S : g[k] = segs[k].units
    PROVE  MapThenSumSet(LAMBDA k : segs[k].units, S) = SumOf(S, g)
PROOF
<1>1. \A F : Adds(SUBSET S, g, F) <=>
         (F = [s \in SUBSET S |->
                 IF s = {} THEN 0
                 ELSE LET x == CHOOSE x \in s : TRUE
                      IN  segs[x].units + F[s \ {x}]])
  BY DEF Adds
<1>. QED BY ONLY <1>1, ZenonT(60) DEF SumOf, MapThenSumSet, MapThenFoldSet

LEMMA LineIsSum ==
    ASSUME NEW segs, NEW t, NEW S, S = {k \in DOMAIN segs : t \in segs[k].who},
           NEW g,
           \A k \in S : g[k] = HamiltonShare(segs[k].units, segs[k].who, t)
    PROVE  Line(segs, t) = SumOf(S, g)
PROOF
<1>1. \A F : Adds(SUBSET S, g, F) <=>
         (F = [s \in SUBSET S |->
                 IF s = {} THEN 0
                 ELSE LET x == CHOOSE x \in s : TRUE
                      IN  HamiltonShare(segs[x].units, segs[x].who, t)
                          + F[s \ {x}]])
  BY DEF Adds
<1>2. Line(segs, t)
      = MapThenSumSet(
          LAMBDA k : HamiltonShare(segs[k].units, segs[k].who, t), S)
  BY DEF Line
<1>3. MapThenSumSet(
        LAMBDA k : HamiltonShare(segs[k].units, segs[k].who, t), S)
      = SumOf(S, g)
  BY ONLY <1>1, ZenonT(60) DEF SumOf, MapThenSumSet, MapThenFoldSet
<1>. QED BY <1>2, <1>3

LEMMA ShareNat ==
    ASSUME NEW cents \in Nat, NEW who \in SUBSET Tenants, NEW t \in who
    PROVE  HamiltonShare(cents, who, t) \in Nat
PROOF
<1>1. PICK n : n = Cardinality(who)
  OBVIOUS
<1>2. n \in Nat \ {0}
  BY <1>1, TenantsAssumption, FS_Subset, FS_CardinalityType, FS_EmptySet
<1>3. cents \div n \in Nat
  BY <1>2, DivMod
<1>. QED BY <1>1, <1>3 DEF HamiltonShare

\* Whatever the segments, the lines and the vacant share are their units.
LEMMA SegmentsAddUp ==
    ASSUME NEW segs, IsFiniteSet(DOMAIN segs),
           \A k \in DOMAIN segs : /\ segs[k].units \in Nat
                                  /\ segs[k].who \in SUBSET Tenants,
           NEW line, \A t \in Tenants : line[t] = Line(segs, t),
           NEW u, \A k \in DOMAIN segs : u[k] = segs[k].units
    PROVE  SumOf(Tenants, line) + VacantUnits(segs) = SumOf(DOMAIN segs, u)
PROOF
<1>1. PICK K : K = DOMAIN segs
  OBVIOUS
<1>2. PICK H : H = [t \in Tenants |-> [k \in K |->
                      IF t \in segs[k].who
                      THEN HamiltonShare(segs[k].units, segs[k].who, t)
                      ELSE 0]]
  OBVIOUS
<1>4. PICK v : v = [k \in K |-> IF segs[k].who = {} THEN segs[k].units ELSE 0]
  OBVIOUS
<1>5. PICK col : col = [k \in K |-> SumOf(Tenants, [t \in Tenants |-> H[t][k]])]
  OBVIOUS
<1>6. PICK row : row = [t \in Tenants |-> SumOf(K, H[t])]
  OBVIOUS
<1>7. /\ IsFiniteSet(K) /\ IsFiniteSet(Tenants)
      /\ \A k \in K : segs[k].units \in Nat /\ segs[k].who \in SUBSET Tenants
  BY <1>1, TenantsAssumption
<1>8. \A t \in Tenants : \A k \in K :
         /\ t \in segs[k].who =>
              H[t][k] = HamiltonShare(segs[k].units, segs[k].who, t)
         /\ t \notin segs[k].who => H[t][k] = 0
  BY <1>2
<1>9. \A t \in Tenants : \A k \in K : H[t][k] \in Nat
  BY <1>7, <1>8, ShareNat
<1>10. ASSUME NEW t \in Tenants PROVE Line(segs, t) = row[t]
  <2>1. PICK W : W = {k \in DOMAIN segs : t \in segs[k].who}
    OBVIOUS
  <2>2. \A k \in W : H[t][k] = HamiltonShare(segs[k].units, segs[k].who, t)
    BY <1>1, <1>8, <2>1
  <2>4. W \in SUBSET K
    BY <1>1, <2>1
  <2>5. \A k \in K : H[t][k] \in Nat /\ (k \notin W => H[t][k] = 0)
    BY <1>1, <1>8, <1>9, <2>1
  <2>3. Line(segs, t) = SumOf(W, H[t])
    BY <2>1, <2>2, LineIsSum
  <2>6. SumOf(K, H[t]) = SumOf(W, H[t])
    BY <1>7, <2>4, <2>5, SumSupport
  <2>. QED BY <1>6, <2>3, <2>6
<1>11. SumOf(Tenants, line) = SumOf(Tenants, row)
  <2>1. \A t \in Tenants : line[t] = row[t]
    BY <1>10
  <2>. QED BY <1>7, <2>1, SumSame
<1>12. SumOf(Tenants, row) = SumOf(K, col)
  <2>1. PICK G : G = [k \in K |-> [t \in Tenants |-> H[t][k]]]
    OBVIOUS
  <2>2. \A t \in Tenants : \A k \in K : H[t][k] \in Nat /\ G[k][t] = H[t][k]
    BY <1>9, <2>1
  <2>3. \A t \in Tenants : row[t] = SumOf(K, H[t])
    BY <1>6
  <2>4. \A k \in K : col[k] = SumOf(Tenants, G[k])
    BY <1>5, <2>1
  <2>5. Crossed(Tenants, K, H, G, row, col)
    BY <2>2, <2>3, <2>4 DEF Crossed
  <2>. QED BY <1>7, <2>5, SumTable
<1>13. ASSUME NEW k \in K
       PROVE  col[k] = IF segs[k].who = {} THEN 0 ELSE segs[k].units
  <2>1. PICK g : g = [t \in Tenants |-> H[t][k]]
    OBVIOUS
  <2>2. col[k] = SumOf(Tenants, g)
    BY <1>5, <2>1
  <2>3. PICK who : who = segs[k].who
    OBVIOUS
  <2>4. who \in SUBSET Tenants /\ IsFiniteSet(Tenants) /\ segs[k].units \in Nat
    BY <1>7, <2>3
  <2>5. \A t \in Tenants : g[t] \in Nat /\ (t \notin who => g[t] = 0)
    BY <1>8, <1>9, <2>1, <2>3
  <2>6. SumOf(Tenants, g) = SumOf(who, g)
    BY <2>4, <2>5, SumSupport
  <2>7. CASE who = {}
    BY <2>2, <2>3, <2>6, <2>7, SumEmpty
  <2>8. CASE who # {}
    <3>1. \A t \in who : g[t] = HamiltonShare(segs[k].units, who, t)
      BY <1>8, <2>1, <2>3, <2>4
    <3>2. SumOf(who, g) = segs[k].units
      BY <2>4, <2>8, <3>1, SharesAddUp
    <3>. QED BY <2>2, <2>3, <2>6, <2>8, <3>2
  <2>. QED BY <2>7, <2>8
<1>14. VacantUnits(segs) = SumOf(K, v)
  <2> DEFINE W == {k \in DOMAIN segs : segs[k].who = {}}
  <2>1. VacantUnits(segs) = MapThenSumSet(LAMBDA k : segs[k].units, W)
    BY DEF VacantUnits
  <2>2. \A k \in W : v[k] = segs[k].units
    BY <1>1, <1>4
  <2>4. W \in SUBSET K
    BY <1>1
  <2>5. \A k \in K : v[k] \in Nat /\ (k \notin W => v[k] = 0)
    BY <1>1, <1>4, <1>7
  <2>. HIDE DEF W
  <2>3. VacantUnits(segs) = SumOf(W, v)
    BY <2>1, <2>2, UnitsFold
  <2>. QED BY <1>7, <2>3, <2>4, <2>5, SumSupport
<1>16. \A k \in K : col[k] \in Nat /\ v[k] \in Nat /\ u[k] = col[k] + v[k]
  <2>1. TAKE k \in K
  <2>2. /\ segs[k].units \in Nat /\ u[k] = segs[k].units
        /\ v[k] = IF segs[k].who = {} THEN segs[k].units ELSE 0
    BY <1>1, <1>4, <1>7
  <2>. QED BY <1>13, <2>2
<1>17. SumOf(K, u) = SumOf(K, col) + SumOf(K, v)
  BY <1>7, <1>16, SumPlus
<1>. QED BY <1>1, <1>11, <1>12, <1>14, <1>17

LEMMA SegmentsAre ==
    ASSUME NEW rs, IsFiniteSet(DOMAIN rs), NEW start, NEW end, NEW from,
           NEW departing,
           NEW segs, segs = Segments(rs, start, end, from, departing)
    PROVE  /\ IsFiniteSet(DOMAIN segs)
           /\ \A k \in DOMAIN segs : segs[k].who \in SUBSET Tenants
PROOF
<1>1. DOMAIN segs \subseteq DOMAIN rs
  BY DEF Segments
<1>2. IsFiniteSet(DOMAIN segs)
  BY <1>1, FS_Subset
<1>3. Billable(start, end, departing) \subseteq Tenants
  BY DEF Billable, Participants
<1>4. ASSUME NEW k \in DOMAIN segs PROVE segs[k].who \in SUBSET Tenants
  <2>1. segs[k].who = {t \in Billable(start, end, departing) :
                         ActiveAt(rs[k].value,
                                  InReading(rs, t, start, end, from),
                                  OutReading(rs, t))}
    BY DEF Segments
  <2>. QED BY <1>3, <2>1
<1>. QED BY <1>2, <1>4

\* The same with sums.
LEMMA ComputedAddsUp ==
    ASSUME NEW X, NEW c \in CycleWith(X), NEW rs, IsFiniteSet(DOMAIN rs),
           NEW end, NEW departing,
           NEW segs, segs = Segments(rs, c.start, end, c.from, departing),
           \A k \in DOMAIN segs : segs[k].units \in Nat,
           NEW d, d = Computed(c, rs, end, departing),
           NEW row, \A t \in Tenants : row[t] = d.lines[t],
           NEW u, \A k \in DOMAIN segs : u[k] = segs[k].units
    PROVE  SumOf(Tenants, row) + d.overhead = SumOf(DOMAIN segs, u)
PROOF
<1>1. \A t \in Tenants : row[t] = Line(segs, t)
  <2>1. PICK line : line = [t \in Tenants |-> Line(segs, t)]
    OBVIOUS
  <2>2. d.lines = line
    BY <2>1 DEF Computed, CycleWith
  <2>. QED BY <2>1, <2>2
<1>2. d.overhead = VacantUnits(segs)
  BY DEF Computed, CycleWith
<1>3. /\ IsFiniteSet(DOMAIN segs)
      /\ \A k \in DOMAIN segs : segs[k].who \in SUBSET Tenants
  <2>1. PICK start, from : start = c.start /\ from = c.from
    OBVIOUS
  <2>2. segs = Segments(rs, start, end, from, departing)
    BY <2>1
  <2>. QED BY <2>2, SegmentsAre
<1>4. \A k \in DOMAIN segs : /\ segs[k].units \in Nat
                              /\ segs[k].who \in SUBSET Tenants
  BY <1>3
<1>5. SumOf(Tenants, row) + VacantUnits(segs) = SumOf(DOMAIN segs, u)
  BY <1>1, <1>3, <1>4, SegmentsAddUp
<1>. QED BY <1>2, <1>5

\* What a computation of a cycle apportions (finalizeApportionment over the
\* segments between consecutive readings) is what the meter delivered, to the
\* cent: whichever readings it is given, however many people came and went,
\* the lines of the tenants and the owner's vacant share add up to the units
\* of the segments.  The odd cents of each division go to somebody, once.
\* The engine rejects the readings before it apportions when a segment is
\* negative, so the units are the natural numbers assumed here.
THEOREM ApportioningIsExact ==
    ASSUME NEW X, NEW c \in CycleWith(X), NEW rs, IsFiniteSet(DOMAIN rs),
           NEW end, NEW departing,
           NEW segs, segs = Segments(rs, c.start, end, c.from, departing),
           \A k \in DOMAIN segs : segs[k].units \in Nat,
           NEW d, d = Computed(c, rs, end, departing)
    PROVE  MapThenSumSet(LAMBDA t : d.lines[t], Tenants) + d.overhead
           = MapThenSumSet(LAMBDA k : segs[k].units, DOMAIN segs)
PROOF
<1>1. PICK row, u : /\ row = [t \in Tenants |-> d.lines[t]]
                    /\ u = [k \in DOMAIN segs |-> segs[k].units]
  OBVIOUS
<1>2. /\ \A t \in Tenants : row[t] = d.lines[t]
      /\ \A k \in DOMAIN segs : u[k] = segs[k].units
  BY <1>1
<1>3. SumOf(Tenants, row) + d.overhead = SumOf(DOMAIN segs, u)
  BY <1>2, ComputedAddsUp
<1>4. MapThenSumSet(LAMBDA t : d.lines[t], Tenants) = SumOf(Tenants, row)
  <2>1. \A F : Adds(SUBSET Tenants, row, F) <=>
           (F = [s \in SUBSET Tenants |->
                   IF s = {} THEN 0
                   ELSE LET x == CHOOSE x \in s : TRUE
                        IN  d.lines[x] + F[s \ {x}]])
    BY <1>2 DEF Adds
  <2>. QED BY ONLY <2>1, ZenonT(60) DEF SumOf, MapThenSumSet, MapThenFoldSet
<1> DEFINE K == DOMAIN segs
<1>5. \A k \in K : u[k] = segs[k].units
  BY <1>2
<1>. HIDE DEF K
<1>6. MapThenSumSet(LAMBDA k : segs[k].units, K) = SumOf(K, u)
  <2>1. \A F : Adds(SUBSET K, u, F) <=>
           (F = [s \in SUBSET K |->
                   IF s = {} THEN 0
                   ELSE LET x == CHOOSE x \in s : TRUE
                        IN  segs[x].units + F[s \ {x}]])
    BY <1>5 DEF Adds
  <2>. QED BY ONLY <2>1, ZenonT(60) DEF SumOf, MapThenSumSet, MapThenFoldSet
<1>. USE DEF K
<1>. QED BY <1>3, <1>4, <1>6

-----------------------------------------------------------------------------
(* What the nights consumed                                                *)

NightType == [units: Nat, who: SUBSET Tenants]

UnitsOf(ns) == [n \in DOMAIN ns |-> ns[n].units]

\* What the first d nights consumed.
Consumed(ns, d) == SumOf(1..d, UnitsOf(ns))

LEMMA ConsumedNat ==
    ASSUME NEW ns \in Seq(NightType), NEW d \in 0..Len(ns)
    PROVE  Consumed(ns, d) \in Nat
PROOF
<1>1. Len(ns) \in Nat /\ DOMAIN ns = 1..Len(ns) /\ \A n \in DOMAIN ns : ns[n] \in NightType
  BY SeqParts
<1>2. d \in Nat /\ 1..d \subseteq DOMAIN ns /\ IsFiniteSet(1..d)
  BY <1>1, FS_Interval
<1>3. \A n \in 1..d : UnitsOf(ns)[n] \in Nat
  BY <1>1, <1>2 DEF UnitsOf, NightType
<1>. QED BY <1>2, <1>3, SumNat DEF Consumed

\* The nights after a, up to b.
LEMMA ConsumedBetween ==
    ASSUME NEW ns \in Seq(NightType), NEW b \in 0..Len(ns), NEW a \in 0..b
    PROVE  /\ Consumed(ns, b) = Consumed(ns, a) + SumOf((a + 1)..b, UnitsOf(ns))
           /\ SumOf((a + 1)..b, UnitsOf(ns)) \in Nat
PROOF
<1>1. Len(ns) \in Nat /\ DOMAIN ns = 1..Len(ns) /\ \A n \in DOMAIN ns : ns[n] \in NightType
  BY SeqParts
<1>2. a \in Nat /\ b \in Nat /\ a <= b /\ b <= Len(ns)
  BY <1>1
<1>3. PICK S, U, V : S = 1..b /\ U = 1..a /\ V = (a + 1)..b
  OBVIOUS
<1>4. S = U \cup V /\ U \cap V = {} /\ IsFiniteSet(S) /\ IsFiniteSet(V)
  <2>1. IsFiniteSet(1..b) /\ IsFiniteSet((a + 1)..b)
    <3>1. 1 \in Int /\ a + 1 \in Int /\ b \in Int
      BY <1>2
    <3>. QED BY <3>1, FS_Interval
  <2>2. S = U \cup V /\ U \cap V = {}
    BY <1>2, <1>3
  <2>. QED BY <1>3, <2>1, <2>2
<1>5. \A n \in S : UnitsOf(ns)[n] \in Nat
  <2>1. S \subseteq DOMAIN ns
    BY <1>1, <1>2, <1>3
  <2>2. \A n \in DOMAIN ns : ns[n].units \in Nat
    BY <1>1 DEF NightType
  <2>. QED BY <2>1, <2>2 DEF UnitsOf
<1>6. PICK g : g = UnitsOf(ns)
  OBVIOUS
<1>7. \A n \in S : g[n] \in Nat
  BY <1>5, <1>6
<1>8. SumOf(S, g) = SumOf(U, g) + SumOf(V, g)
  BY <1>4, <1>7, SumSplit
<1>9. SumOf(V, g) \in Nat
  BY <1>4, <1>7, SumNat
<1>. QED BY <1>3, <1>6, <1>8, <1>9 DEF Consumed

\* Another night does not change what the others consumed.
LEMMA ConsumedMore ==
    ASSUME NEW ns \in Seq(NightType), NEW e \in NightType,
           NEW ms, ms = Append(ns, e)
    PROVE  /\ ms \in Seq(NightType) /\ Len(ms) = Len(ns) + 1
           /\ \A d \in 0..Len(ns) : Consumed(ms, d) = Consumed(ns, d)
           /\ Consumed(ms, Len(ms)) = Consumed(ns, Len(ns)) + e.units
PROOF
<1>1. /\ Len(ns) \in Nat /\ DOMAIN ns = 1..Len(ns)
      /\ \A n \in DOMAIN ns : ns[n] \in NightType
  BY SeqParts
<1>2. /\ ms \in Seq(NightType) /\ Len(ms) = Len(ns) + 1
      /\ DOMAIN ms = DOMAIN ns \cup {Len(ns) + 1}
      /\ \A n \in DOMAIN ns : ms[n] = ns[n]
      /\ ms[Len(ns) + 1] = e
  BY Appended, AppendProperties
<1>3. ASSUME NEW d \in 0..Len(ns) PROVE Consumed(ms, d) = Consumed(ns, d)
  <2>1. 1..d \subseteq DOMAIN ns /\ IsFiniteSet(1..d)
    BY <1>1, FS_Interval
  <2>2. \A n \in 1..d : UnitsOf(ms)[n] = UnitsOf(ns)[n]
    BY <1>2, <2>1 DEF UnitsOf
  <2>. QED BY <2>1, <2>2, SumSame DEF Consumed
<1>4. Consumed(ms, Len(ms)) = Consumed(ns, Len(ns)) + e.units
  <2>1. PICK S, x, g : S = 1..Len(ns) /\ x = Len(ns) + 1 /\ g = UnitsOf(ms)
    OBVIOUS
  <2>2. IsFiniteSet(S) /\ x \notin S /\ S \cup {x} = 1..Len(ms)
    <3>1. IsFiniteSet(S)
      BY <1>1, <2>1, FS_Interval
    <3>2. x \notin S
      BY <1>1, <2>1
    <3>3. S \cup {x} = 1..Len(ms)
      <4>1. PICK l : l = Len(ns)
        OBVIOUS
      <4>2. l \in Nat /\ Len(ms) = l + 1 /\ S = 1..l /\ x = l + 1
        BY <1>1, <1>2, <2>1, <4>1
      <4>. QED BY <4>2
    <3>. QED BY <3>1, <3>2, <3>3
  <2>3. \A n \in DOMAIN ms : ms[n] \in NightType
    BY <1>2, SeqParts
  <2>4. \A n \in S \cup {x} : g[n] \in Nat
    BY <1>1, <1>2, <2>1, <2>3 DEF UnitsOf, NightType
  <2>5. g[x] = e.units
    BY <1>2, <2>1 DEF UnitsOf
  <2>6. SumOf(S \cup {x}, g) = SumOf(S, g) + g[x]
    BY <2>2, <2>4, SumAdd
  <2>7. SumOf(S, g) = Consumed(ns, Len(ns))
    BY <1>1, <1>3, <2>1 DEF Consumed
  <2>. QED BY <2>1, <2>2, <2>5, <2>6, <2>7 DEF Consumed
<1>. QED BY <1>2, <1>3, <1>4

-----------------------------------------------------------------------------
(* The order of readings                                                   *)

\* Readings that have instants are in one line.
LEMMA OneLine ==
    ASSUME NEW rs, DOMAIN rs \subseteq Nat, \A i \in DOMAIN rs : rs[i].at \in Nat
    PROVE  /\ \A i \in DOMAIN rs : ~Before(rs, i, i)
           /\ \A i, j \in DOMAIN rs : i # j => Before(rs, i, j) \/ Before(rs, j, i)
           /\ \A i, j \in DOMAIN rs : ~(Before(rs, i, j) /\ Before(rs, j, i))
           /\ \A i, j, k \in DOMAIN rs :
                 Before(rs, i, j) /\ Before(rs, j, k) => Before(rs, i, k)
PROOF
<1>1. \A i \in DOMAIN rs : Priority(rs[i]) \in Nat /\ i \in Nat /\ rs[i].at \in Nat
  BY DEF Priority
<1>2. PICK p : p = [i \in DOMAIN rs |-> Priority(rs[i])]
  OBVIOUS
<1>3. PICK a : a = [i \in DOMAIN rs |-> rs[i].at]
  OBVIOUS
<1>4. \A i \in DOMAIN rs : p[i] \in Nat /\ i \in Nat /\ a[i] \in Nat
  BY <1>1, <1>2, <1>3
<1>5. \A i, j \in DOMAIN rs :
         Before(rs, i, j) <=> \/ a[i] < a[j]
                              \/ a[i] = a[j] /\ p[i] < p[j]
                              \/ a[i] = a[j] /\ p[i] = p[j] /\ i < j
  BY <1>2, <1>3 DEF Before
<1>6. \A i \in DOMAIN rs : ~Before(rs, i, i)
  BY <1>4, <1>5
<1>7. \A i, j \in DOMAIN rs : i # j => Before(rs, i, j) \/ Before(rs, j, i)
  BY <1>4, <1>5
<1>8. \A i, j \in DOMAIN rs : ~(Before(rs, i, j) /\ Before(rs, j, i))
  BY <1>4, <1>5
<1>9. \A i, j, k \in DOMAIN rs :
         Before(rs, i, j) /\ Before(rs, j, k) => Before(rs, i, k)
  <2>1. TAKE i, j, k \in DOMAIN rs
  <2>2. /\ p[i] \in Nat /\ i \in Nat /\ a[i] \in Nat
        /\ p[j] \in Nat /\ j \in Nat /\ a[j] \in Nat
        /\ p[k] \in Nat /\ k \in Nat /\ a[k] \in Nat
    BY <1>4
  <2>. QED BY <1>5, <2>2
<1>. QED BY <1>6, <1>7, <1>8, <1>9

\* Some of them are first in line before all others.
LEMMA FirstOf ==
    ASSUME NEW rs, DOMAIN rs \subseteq Nat, \A i \in DOMAIN rs : rs[i].at \in Nat,
           NEW S, S \subseteq DOMAIN rs, S # {}
    PROVE  \E m \in S : \A k \in S \ {m} : Before(rs, m, k)
PROOF
<1>1. PICK p : p = [i \in DOMAIN rs |-> Priority(rs[i])]
  OBVIOUS
<1>2. PICK a : a = [i \in DOMAIN rs |-> rs[i].at]
  OBVIOUS
<1>3. \A i \in S : p[i] \in Nat /\ i \in Nat /\ a[i] \in Nat
  BY <1>1, <1>2 DEF Priority
<1>4. PICK S1 : S1 = {i \in S : \A j \in S : a[i] <= a[j]}
  OBVIOUS
<1>5. S1 # {}
  <2>1. PICK A : A = {a[i] : i \in S}
    OBVIOUS
  <2>2. PICK m \in A : \A y \in A : m <= y
    BY <1>3, <2>1, LeastNatural
  <2>. QED BY <1>4, <2>1, <2>2
<1>6. PICK S2 : S2 = {i \in S1 : \A j \in S1 : p[i] <= p[j]}
  OBVIOUS
<1>7. S2 # {}
  <2>1. PICK A : A = {p[i] : i \in S1}
    OBVIOUS
  <2>2. A \subseteq Nat /\ A # {}
    BY <1>3, <1>4, <1>5, <2>1
  <2>3. PICK m \in A : \A y \in A : m <= y
    BY <2>2, LeastNatural
  <2>. QED BY <1>6, <2>1, <2>3
<1>8. PICK m \in S2 : \A y \in S2 : m <= y
  BY <1>3, <1>4, <1>6, <1>7, LeastNatural
<1>9. ASSUME NEW k \in S \ {m} PROVE Before(rs, m, k)
  <2>1. m \in S /\ m \in S1 /\ k \in S
    BY <1>4, <1>6
  <2>2. a[m] <= a[k]
    BY <1>4, <2>1
  <2>3. /\ p[m] \in Nat /\ m \in Nat /\ a[m] \in Nat
        /\ p[k] \in Nat /\ k \in Nat /\ a[k] \in Nat
    BY <1>3, <2>1
  <2>4. a[m] = a[k] => k \in S1
    BY <1>4, <2>1
  <2>5. k \in S1 => p[m] <= p[k]
    BY <1>6
  <2>6. k \in S1 /\ p[m] = p[k] => k \in S2
    BY <1>6
  <2>7. k \in S2 => m <= k
    BY <1>8
  <2>8. Before(rs, m, k) <=> \/ a[m] < a[k]
                             \/ a[m] = a[k] /\ p[m] < p[k]
                             \/ a[m] = a[k] /\ p[m] = p[k] /\ m < k
    BY <1>1, <1>2, <2>1 DEF Before
  <2>. QED BY <2>2, <2>3, <2>4, <2>5, <2>6, <2>7, <2>8
<1>. QED BY <1>4, <1>6, <1>9

\* What follows a reading follows it directly, and what comes after the one
\* that follows is what came after the first, without it.
LEMMA FollowingIs ==
    ASSUME NEW rs, DOMAIN rs \subseteq Nat, \A i \in DOMAIN rs : rs[i].at \in Nat,
           NEW i \in DOMAIN rs, After(rs, i) # {},
           NEW j, j = Following(rs, i)
    PROVE  /\ j \in DOMAIN rs /\ Before(rs, i, j)
           /\ \A k \in DOMAIN rs : ~(Before(rs, i, k) /\ Before(rs, k, j))
           /\ {j} \cup After(rs, j) = After(rs, i)
PROOF
<1>1. PICK S : S = After(rs, i)
  OBVIOUS
<1>2. S \subseteq DOMAIN rs /\ S # {} /\ \A k \in DOMAIN rs : k \in S <=> Before(rs, i, k)
  BY <1>1 DEF After
<1>3. \E m \in S : \A k \in S \ {m} : Before(rs, m, k)
  BY <1>2, FirstOf
<1>4. j \in S /\ \A k \in S \ {j} : Before(rs, j, k)
  <2>1. j = CHOOSE m \in S : \A k \in S \ {m} : Before(rs, m, k)
    BY <1>1, Zenon DEF Following
  <2>. QED BY <1>3, <2>1
<1>5. j \in DOMAIN rs /\ Before(rs, i, j)
  BY <1>2, <1>4
<1>6. ASSUME NEW k \in DOMAIN rs, Before(rs, i, k) PROVE ~Before(rs, k, j)
  <2>1. k = j \/ Before(rs, j, k)
    BY <1>2, <1>4, <1>6
  <2>. QED BY <1>5, <2>1, OneLine
<1>7. \A k \in DOMAIN rs : k \in After(rs, j) <=> Before(rs, j, k)
  BY DEF After
<1>8. \A k \in DOMAIN rs : Before(rs, j, k) => Before(rs, i, k)
  BY <1>5, OneLine
<1>9. After(rs, j) \subseteq DOMAIN rs
  BY DEF After
<1>10. {j} \cup After(rs, j) = S
  BY <1>2, <1>4, <1>5, <1>7, <1>8, <1>9
<1>. QED BY <1>1, <1>5, <1>6, <1>10

-----------------------------------------------------------------------------
(* The readings and the meter                                              *)

\* No reset was written between readings i and j.
NoReset(rs, i, j) ==
    \A k \in DOMAIN rs : i < k /\ k < j => rs[k].event \notin Resets

\* The readings rs are what the meter, which shows m after nights ns, showed:
\* between two of them, and since each of them, it moved by what the nights in
\* between consumed, unless it was replaced.
Recorded(rs, m, ns) ==
    /\ \A i \in DOMAIN rs :
          /\ Day(rs[i].at) <= Len(ns)
          /\ rs[i].event = "moveIn" => rs[i].at # Midnight(Day(rs[i].at))
          /\ rs[i].event \in Resets =>
                /\ rs[i].at = Midnight(Day(rs[i].at))
                /\ rs[i].final \in Nat /\ rs[i].tenant = Nobody
    /\ \A i, j \in DOMAIN rs : i < j =>
          /\ Day(rs[i].at) <= Day(rs[j].at)
          /\ rs[i].cycle <= rs[j].cycle
          /\ rs[i].event \in Resets \/ rs[j].event \in Resets => Before(rs, i, j)
          /\ NoReset(rs, i, j) =>
                Upto(rs[j]) + Consumed(ns, Day(rs[i].at))
                = rs[i].value + Consumed(ns, Day(rs[j].at))
    /\ \A i \in DOMAIN rs : NoReset(rs, i, Len(rs) + 1) =>
          m + Consumed(ns, Day(rs[i].at)) = rs[i].value + Consumed(ns, Len(ns))

LEMMA InstantNat ==
    ASSUME NEW at \in Instants
    PROVE  at \in Nat /\ at # None /\ Day(at) \in Nat
PROOF
<1>1. LastDay \in Nat /\ Instants = 0..(4 * LastDay + 3)
  BY MeterAssumption DEF Instants, Afternoon
<1>2. at \in Nat
  BY <1>1
<1>. QED BY <1>2 DEF None, Day

LEMMA DaysInOrder ==
    ASSUME NEW a \in Nat, NEW b \in Nat, a <= b
    PROVE  Day(a) <= Day(b)
PROOF
BY DEF Day

\* What is selected of the readings: with every reset between two of them.
Selected(rs, J) ==
    /\ J \subseteq DOMAIN rs
    /\ \A i, j \in J : \A k \in DOMAIN rs :
          /\ rs[k].event \in Resets
          /\ Before(rs, i, k) /\ Before(rs, k, j)
          => k \in J

LEMMA ReadingsAre ==
    ASSUME NEW rs \in Seq(Measure)
    PROVE  /\ DOMAIN rs \subseteq Nat /\ DOMAIN rs = 1..Len(rs) /\ Len(rs) \in Nat
           /\ \A i \in DOMAIN rs :
                 /\ rs[i].at \in Nat /\ Day(rs[i].at) \in Nat
                 /\ rs[i].value \in Nat /\ rs[i].cycle \in Nat
PROOF
<1>1. DOMAIN rs = 1..Len(rs) /\ Len(rs) \in Nat
      /\ \A i \in DOMAIN rs : rs[i] \in Measure
  BY SeqParts
<1>2. ASSUME NEW i \in DOMAIN rs
      PROVE  /\ rs[i].at \in Nat /\ Day(rs[i].at) \in Nat
             /\ rs[i].value \in Nat /\ rs[i].cycle \in Nat
  <2>1. rs[i].at \in Instants /\ rs[i].value \in Nat /\ rs[i].cycle \in Nat
    BY <1>1 DEF Measure
  <2>. QED BY <2>1, InstantNat
<1>. QED BY <1>1, <1>2

\* Two selected readings with none in line between them: the segment that they
\* bound is what the nights between them consumed.
LEMMA SegmentIs ==
    ASSUME NEW rs \in Seq(Measure), NEW m, NEW ns, Recorded(rs, m, ns),
           NEW J, Selected(rs, J), NEW i \in J, NEW j \in J, Before(rs, i, j),
           \A k \in J : ~(Before(rs, i, k) /\ Before(rs, k, j)),
           NEW a, a = Consumed(ns, Day(rs[i].at)), a \in Nat,
           NEW b, b = Consumed(ns, Day(rs[j].at)), b \in Nat
    PROVE  Upto(rs[j]) \in Nat /\ Upto(rs[j]) + a = rs[i].value + b
PROOF
<1>1. /\ DOMAIN rs \subseteq Nat
      /\ \A k \in DOMAIN rs : rs[k].at \in Nat /\ rs[k].value \in Nat
  BY ReadingsAre
<1>2. i \in DOMAIN rs /\ j \in DOMAIN rs
  BY DEF Selected
<1>3. i \in Nat /\ j \in Nat /\ i # j
  BY <1>1, <1>2, OneLine
<1>4. Upto(rs[j]) \in Nat
  BY <1>1, <1>2 DEF Upto, Recorded
<1>5. \A h, k \in DOMAIN rs :
         h < k /\ (rs[h].event \in Resets \/ rs[k].event \in Resets)
         => Before(rs, h, k)
  BY DEF Recorded
<1>6. \A h, k \in DOMAIN rs :
         h < k /\ NoReset(rs, h, k) =>
            Upto(rs[k]) + Consumed(ns, Day(rs[h].at))
            = rs[h].value + Consumed(ns, Day(rs[k].at))
  BY DEF Recorded
<1>7. CASE i < j
  <2>1. ASSUME NEW k \in DOMAIN rs, i < k, k < j
        PROVE  rs[k].event \notin Resets
    <3>1. SUFFICES ASSUME rs[k].event \in Resets PROVE FALSE
      OBVIOUS
    <3>2. Before(rs, i, k) /\ Before(rs, k, j)
      BY <1>2, <1>5, <2>1, <3>1
    <3>3. k \in J
      BY <3>1, <3>2 DEF Selected
    <3>. QED BY <3>2, <3>3
  <2>2. NoReset(rs, i, j)
    BY <2>1 DEF NoReset
  <2>. QED BY <1>2, <1>4, <1>6, <1>7, <2>2
<1>8. CASE j < i
  <2>1. ~Before(rs, j, i)
    BY <1>1, <1>2, OneLine
  <2>2. rs[i].event \notin Resets /\ rs[j].event \notin Resets
    BY <1>2, <1>5, <1>8, <2>1
  <2>3. ASSUME NEW k \in DOMAIN rs, j < k, k < i
        PROVE  rs[k].event \notin Resets
    <3>1. SUFFICES ASSUME rs[k].event \in Resets PROVE FALSE
      OBVIOUS
    <3>2. Before(rs, j, k) /\ Before(rs, k, i)
      BY <1>2, <1>5, <2>3, <3>1
    <3>. QED BY <1>1, <1>2, <2>1, <3>2, OneLine
  <2>4. NoReset(rs, j, i)
    BY <2>3 DEF NoReset
  <2>5. Upto(rs[i]) + b = rs[j].value + a
    BY <1>2, <1>6, <1>8, <2>4
  <2>6. Upto(rs[i]) = rs[i].value /\ Upto(rs[j]) = rs[j].value
    BY <2>2 DEF Upto
  <2>7. rs[i].value \in Nat /\ rs[j].value \in Nat
    BY <1>1, <1>2
  <2>. QED BY <1>4, <2>5, <2>6, <2>7
<1>. QED BY <1>3, <1>7, <1>8

\* The selection, as the engine orders it.
LEMMA SelectionIs ==
    ASSUME NEW rs \in Seq(Measure), NEW J, Selected(rs, J),
           NEW q, q = Restrict(rs, J)
    PROVE  /\ DOMAIN q = J /\ J \subseteq Nat /\ IsFiniteSet(J)
           /\ \A i \in J : q[i] = rs[i] /\ q[i].at \in Nat
           /\ \A i, j \in J : Before(q, i, j) <=> Before(rs, i, j)
PROOF
<1>1. /\ DOMAIN rs \subseteq Nat /\ DOMAIN rs = 1..Len(rs) /\ Len(rs) \in Nat
      /\ \A i \in DOMAIN rs : rs[i].at \in Nat
  BY ReadingsAre
<1>2. J \subseteq DOMAIN rs
  BY DEF Selected
<1>3. IsFiniteSet(J)
  <2>1. IsFiniteSet(DOMAIN rs)
    BY <1>1, FS_Interval
  <2>. QED BY <1>2, <2>1, FS_Subset
<1>4. DOMAIN q = J /\ \A i \in J : q[i] = rs[i]
  BY DEF Restrict
<1>5. \A i, j \in J : Before(q, i, j) <=> Before(rs, i, j)
  BY <1>4 DEF Before
<1>. QED BY <1>1, <1>2, <1>3, <1>4, <1>5

\* One reading of a nonempty selection is the last in line.
LEMMA LastOf ==
    ASSUME NEW rs, DOMAIN rs \subseteq Nat, \A i \in DOMAIN rs : rs[i].at \in Nat,
           IsFiniteSet(DOMAIN rs), DOMAIN rs # {}
    PROVE  \E m \in DOMAIN rs : After(rs, m) = {}
PROOF
<1> DEFINE up(i) == {i} \cup After(rs, i)
           B == {up(i) : i \in DOMAIN rs}
<1>1. \A i \in DOMAIN rs : up(i) \in SUBSET DOMAIN rs
  BY DEF After
<1>2. B \subseteq SUBSET DOMAIN rs /\ B # {}
  BY <1>1
<1>3. PICK s \in B : \A x \in s : s \ {x} \notin B
  <2>. HIDE DEF B
  <2>. QED BY <1>2, SmallestSet
<1>4. PICK i \in DOMAIN rs : s = up(i)
  OBVIOUS
<1>5. i \notin After(rs, i)
  BY OneLine DEF After
<1>6. SUFFICES ASSUME After(rs, i) # {} PROVE FALSE
  OBVIOUS
<1>7. PICK j : j = Following(rs, i)
  OBVIOUS
<1>8. j \in DOMAIN rs /\ up(j) = After(rs, i)
  BY <1>6, <1>7, FollowingIs
<1>9. s \ {i} = up(j)
  BY <1>4, <1>5, <1>8
<1>10. i \in s
  BY <1>4
<1>. QED BY <1>3, <1>8, <1>9, <1>10

\* From a reading at the start to one at the end, the segments are what the
\* nights from the day of the start to that of the end consumed.
LEMMA SegmentsMeasure ==
    ASSUME NEW rs \in Seq(Measure), NEW m, NEW ns \in Seq(NightType),
           Recorded(rs, m, ns), NEW J, Selected(rs, J),
           NEW start \in Nat, NEW end \in Nat,
           \A i \in J : start <= rs[i].at /\ rs[i].at <= end,
           NEW a \in J, rs[a].at = start, NEW z \in J, rs[z].at = end,
           NEW from, NEW departing,
           NEW q, q = Restrict(rs, J),
           NEW segs, segs = Segments(q, start, end, from, departing),
           \A k \in DOMAIN segs : segs[k].units >= 0,
           NEW g, \A k \in DOMAIN segs : g[k] = segs[k].units
    PROVE  /\ \A k \in DOMAIN segs : segs[k].units \in Nat
           /\ SumOf(DOMAIN segs, g)
              = SumOf((Day(start) + 1)..Day(end), UnitsOf(ns))
PROOF
<1>1. /\ DOMAIN q = J /\ J \subseteq Nat /\ IsFiniteSet(J)
      /\ \A i \in J : q[i] = rs[i] /\ q[i].at \in Nat
      /\ \A i, j \in J : Before(q, i, j) <=> Before(rs, i, j)
  BY SelectionIs
<1>2. \A i \in J : /\ i \in DOMAIN rs /\ rs[i].at \in Nat /\ rs[i].value \in Nat
                   /\ Day(rs[i].at) \in 0..Len(ns)
  <2>1. J \subseteq DOMAIN rs
    BY DEF Selected
  <2>2. \A i \in DOMAIN rs : /\ rs[i].at \in Nat /\ rs[i].value \in Nat
                             /\ Day(rs[i].at) \in Nat
    BY ReadingsAre
  <2>3. \A i \in DOMAIN rs : Day(rs[i].at) <= Len(ns)
    BY DEF Recorded
  <2>4. Len(ns) \in Nat
    BY SeqParts
  <2>. QED BY <2>1, <2>2, <2>3, <2>4
<1>3. PICK f : f = [i \in J |-> Consumed(ns, Day(rs[i].at))]
  OBVIOUS
<1>4. \A i \in J : f[i] = Consumed(ns, Day(rs[i].at)) /\ f[i] \in Nat
  BY <1>2, <1>3, ConsumedNat
<1>5. PICK up : up = [i \in J |-> {i} \cup After(q, i)]
  OBVIOUS
<1>6. \A i \in J : /\ up[i] = {i} \cup After(q, i) /\ up[i] \in SUBSET J
                   /\ i \notin After(q, i)
  <2>1. \A i \in J : ~Before(q, i, i)
    BY <1>1, OneLine
  <2>. QED BY <1>1, <1>5, <2>1 DEF After
<1>7. PICK last \in J : After(q, last) = {}
  BY <1>1, LastOf
<1>8. PICK first \in J : \A k \in J \ {first} : Before(q, first, k)
  <2>1. \E m1 \in J : \A k \in J \ {m1} : Before(q, m1, k)
    BY <1>1, FirstOf
  <2>. QED BY <2>1
<1>9. \A k \in J \ {last} : Before(q, k, last)
  <2>1. \A k \in J : ~Before(q, last, k)
    BY <1>1, <1>7 DEF After
  <2>. QED BY <1>1, <2>1, OneLine
<1>10. DOMAIN segs = J \ {last}
  <2>1. DOMAIN segs = {i \in J : After(q, i) # {}}
    BY <1>1 DEF Segments
  <2>2. \A k \in J \ {last} : last \in After(q, k)
    BY <1>1, <1>9 DEF After
  <2>. QED BY <1>7, <2>1, <2>2
<1>11. ASSUME NEW i \in J \ {last}
       PROVE  /\ segs[i].units \in Nat
              /\ \E j \in J : up[j] = up[i] \ {i} /\ f[j] = f[i] + segs[i].units
  <2>1. After(q, i) # {} /\ i \in DOMAIN segs
    BY <1>10 DEF Segments
  <2>2. PICK j : j = Following(q, i)
    OBVIOUS
  <2>3. /\ j \in J /\ Before(q, i, j)
        /\ \A k \in J : ~(Before(q, i, k) /\ Before(q, k, j))
        /\ {j} \cup After(q, j) = After(q, i)
    BY <1>1, <2>1, <2>2, FollowingIs
  <2>4. up[j] = up[i] \ {i}
    BY <1>6, <2>3
  <2>5. segs[i].units = Upto(q[j]) - q[i].value
    BY <2>1, <2>2 DEF Segments
  <2>6. q[j] = rs[j] /\ q[i] = rs[i]
    BY <1>1, <2>3
  <2>7. Upto(rs[j]) \in Nat /\ Upto(rs[j]) + f[i] = rs[i].value + f[j]
    <3>1. Before(rs, i, j) /\ \A k \in J : ~(Before(rs, i, k) /\ Before(rs, k, j))
      BY <1>1, <2>3
    <3>. QED BY <1>4, <2>3, <3>1, SegmentIs
  <2>8. rs[i].value \in Nat /\ f[i] \in Nat /\ f[j] \in Nat
    BY <1>2, <1>4, <2>3
  <2>9. segs[i].units >= 0
    BY <2>1
  <2>10. segs[i].units \in Nat /\ f[j] = f[i] + segs[i].units
    <3>1. PICK u, v, w, x, y : /\ u = segs[i].units /\ v = rs[i].value
                               /\ w = Upto(rs[j]) /\ x = f[i] /\ y = f[j]
      OBVIOUS
    <3>2. u = w - v
      BY <2>5, <2>6, <3>1
    <3>3. /\ v \in Nat /\ w \in Nat /\ x \in Nat /\ y \in Nat
          /\ w + x = v + y /\ u >= 0
      BY <2>7, <2>8, <2>9, <3>1
    <3>4. u \in Nat /\ y = x + u
      BY ONLY <3>2, <3>3
    <3>. QED BY <3>1, <3>4
  <2>. QED BY <2>3, <2>4, <2>10
<1>12. Climbs(J, up, f, g, last)
  <2>1. \A i \in J : up[i] \in SUBSET J /\ i \in up[i] /\ f[i] \in Nat
    BY <1>4, <1>6
  <2>2. up[last] = {last}
    BY <1>6, <1>7
  <2>3. \A i \in J \ {last} : g[i] = segs[i].units
    BY <1>10
  <2>4. \A i \in J \ {last} :
           /\ g[i] \in Nat
           /\ \E j \in J : up[j] = up[i] \ {i} /\ f[j] = f[i] + g[i]
    BY <1>11, <2>3
  <2>. QED BY <2>1, <2>2, <2>4 DEF Climbs
<1>13. f[last] = f[first] + SumOf(up[first] \ {last}, g)
  BY <1>1, <1>12, Climbed
<1>14. up[first] = J
  BY <1>1, <1>6, <1>8 DEF After
<1>15. rs[first].at = start
  <2>1. first = a \/ Before(rs, first, a)
    BY <1>1, <1>8
  <2>2. rs[first].at <= rs[a].at
    BY <1>2, <2>1 DEF Before
  <2>3. start <= rs[first].at /\ rs[first].at \in Nat
    BY <1>2
  <2>. QED BY <2>2, <2>3
<1>16. rs[last].at = end
  <2>1. last = z \/ Before(rs, z, last)
    BY <1>1, <1>9
  <2>2. rs[z].at <= rs[last].at
    BY <1>2, <2>1 DEF Before
  <2>3. rs[last].at <= end /\ rs[last].at \in Nat
    BY <1>2
  <2>. QED BY <2>2, <2>3
<1>17. PICK A, Z : A = Day(start) /\ Z = Day(end)
  OBVIOUS
<1>18. Z \in 0..Len(ns) /\ A \in 0..Z
  <2>1. A \in 0..Len(ns) /\ Z \in 0..Len(ns)
    BY <1>2, <1>15, <1>16, <1>17
  <2>2. start <= end
    BY <1>15
  <2>3. A <= Z
    BY <1>17, <2>2, DaysInOrder
  <2>. QED BY <2>1, <2>3
<1>19. PICK S, T : S = SumOf(DOMAIN segs, g) /\ T = SumOf((A + 1)..Z, UnitsOf(ns))
  OBVIOUS
<1>20. Consumed(ns, Z) = Consumed(ns, A) + T /\ T \in Nat
  BY <1>18, <1>19, ConsumedBetween
<1>21. f[last] = Consumed(ns, Z) /\ f[first] = Consumed(ns, A)
  BY <1>4, <1>15, <1>16, <1>17
<1>22. f[last] = f[first] + S
  BY <1>10, <1>13, <1>14, <1>19
<1>23. S \in Nat
  <2>1. IsFiniteSet(DOMAIN segs)
    BY <1>1, <1>10, FS_Subset
  <2>2. \A k \in DOMAIN segs : g[k] \in Nat
    BY <1>10, <1>11
  <2>. QED BY <1>19, <2>1, <2>2, SumNat
<1>24. S = T
  <2>1. f[first] \in Nat
    BY <1>4
  <2>. QED BY <1>20, <1>21, <1>22, <1>23, <2>1
<1>. QED BY <1>10, <1>11, <1>17, <1>19, <1>24

LEMMA SegmentsInt ==
    ASSUME NEW rs \in Seq(Measure), NEW m, NEW ns, Recorded(rs, m, ns),
           NEW J, Selected(rs, J), NEW q, q = Restrict(rs, J),
           NEW start, NEW end, NEW from, NEW departing,
           NEW segs, segs = Segments(q, start, end, from, departing)
    PROVE  \A k \in DOMAIN segs : segs[k].units \in Int
PROOF
<1>1. TAKE k \in DOMAIN segs
<1>2. /\ DOMAIN q = J /\ J \subseteq Nat
      /\ \A i \in J : q[i] = rs[i] /\ q[i].at \in Nat
  BY SelectionIs
<1>3. k \in J /\ After(q, k) # {}
  BY <1>2 DEF Segments
<1>4. PICK j : j = Following(q, k)
  OBVIOUS
<1>5. j \in J
  BY <1>2, <1>3, <1>4, FollowingIs
<1>6. segs[k].units = Upto(q[j]) - q[k].value
  BY <1>3, <1>4 DEF Segments
<1>7. j \in DOMAIN rs /\ k \in DOMAIN rs /\ q[j] = rs[j] /\ q[k] = rs[k]
  BY <1>2, <1>3, <1>5 DEF Selected
<1>8. rs[k].value \in Nat /\ rs[j].value \in Nat
  BY <1>7, ReadingsAre
<1>9. Upto(rs[j]) \in Nat
  BY <1>7, <1>8 DEF Upto, Recorded
<1>10. PICK v, w : v = rs[k].value /\ w = Upto(rs[j])
  OBVIOUS
<1>11. segs[k].units = w - v
  BY <1>6, <1>7, <1>10
<1>12. v \in Nat /\ w \in Nat
  BY <1>8, <1>9, <1>10
<1>13. w - v \in Int
  BY ONLY <1>12
<1>. QED BY <1>11, <1>13

-----------------------------------------------------------------------------
(* Another reading, and another night                                      *)

\* A reading e of today is written: what it closes with is what the meter
\* showed, what it opens with is what the meter shows from now on.
LEMMA RecordedReading ==
    ASSUME NEW rs \in Seq(Measure), NEW ns \in Seq(NightType), NEW m \in Nat,
           Recorded(rs, m, ns), NEW e \in Measure,
           Day(e.at) = Len(ns), Upto(e) = m,
           e.event = "moveIn" => e.at # Midnight(Len(ns)),
           e.event \in Resets =>
              /\ e.at = Midnight(Len(ns)) /\ e.final \in Nat /\ e.tenant = Nobody
              /\ \A i \in DOMAIN rs : rs[i].at <= e.at,
           \A i \in DOMAIN rs : rs[i].cycle <= e.cycle,
           NEW q, q = Append(rs, e)
    PROVE  Recorded(q, e.value, ns)
PROOF
<1>1. PICK n : n = Len(rs) + 1
  OBVIOUS
<1>2. /\ DOMAIN q = DOMAIN rs \cup {n} /\ n \notin DOMAIN rs /\ Len(q) = n
      /\ \A i \in DOMAIN rs : q[i] = rs[i]
      /\ q[n] = e
  BY <1>1, Appended, AppendProperties
<1>3. /\ DOMAIN rs = 1..Len(rs) /\ Len(rs) \in Nat /\ n \in Nat
      /\ \A i \in DOMAIN rs : i \in Nat /\ i < n
      /\ \A i \in DOMAIN rs : /\ rs[i].at \in Nat /\ Day(rs[i].at) \in Nat
                              /\ rs[i].value \in Nat
  BY <1>1, ReadingsAre
<1>4. e.at \in Nat /\ e.value \in Nat /\ Len(ns) \in Nat
  <2>1. e.at \in Instants /\ e.value \in Nat
    BY DEF Measure
  <2>. QED BY <2>1, InstantNat, SeqParts
<1>5. ASSUME NEW i \in DOMAIN q
      PROVE  /\ Day(q[i].at) <= Len(ns)
             /\ q[i].event = "moveIn" => q[i].at # Midnight(Day(q[i].at))
             /\ q[i].event \in Resets =>
                   /\ q[i].at = Midnight(Day(q[i].at))
                   /\ q[i].final \in Nat /\ q[i].tenant = Nobody
  <2>1. CASE i \in DOMAIN rs
    BY <1>2, <2>1 DEF Recorded
  <2>2. CASE i = n
    <3>1. q[i] = e
      BY <1>2, <2>2
    <3>2. Day(e.at) <= Len(ns)
      BY <1>4
    <3>. QED BY <3>1, <3>2
  <2>. QED BY <1>2, <2>1, <2>2
<1>6. ASSUME NEW i \in DOMAIN rs, NEW j \in DOMAIN rs, i < j
      PROVE  /\ Day(q[i].at) <= Day(q[j].at)
             /\ q[i].cycle <= q[j].cycle
             /\ q[i].event \in Resets \/ q[j].event \in Resets => Before(q, i, j)
             /\ NoReset(q, i, j) =>
                   Upto(q[j]) + Consumed(ns, Day(q[i].at))
                   = q[i].value + Consumed(ns, Day(q[j].at))
  <2>1. q[i] = rs[i] /\ q[j] = rs[j]
    BY <1>2
  <2>2. Before(rs, i, j) => Before(q, i, j)
    BY <2>1 DEF Before
  <2>3. NoReset(q, i, j) => NoReset(rs, i, j)
    BY <1>2 DEF NoReset
  <2>4. /\ Day(rs[i].at) <= Day(rs[j].at)
        /\ rs[i].cycle <= rs[j].cycle
        /\ rs[i].event \in Resets \/ rs[j].event \in Resets => Before(rs, i, j)
        /\ NoReset(rs, i, j) =>
              Upto(rs[j]) + Consumed(ns, Day(rs[i].at))
              = rs[i].value + Consumed(ns, Day(rs[j].at))
    BY <1>6 DEF Recorded
  <2>. QED BY <2>1, <2>2, <2>3, <2>4
<1>7. ASSUME NEW i \in DOMAIN rs, NoReset(q, i, n)
      PROVE  m + Consumed(ns, Day(rs[i].at)) = rs[i].value + Consumed(ns, Len(ns))
  <2>1. NoReset(rs, i, Len(rs) + 1)
    BY <1>1, <1>2, <1>7 DEF NoReset
  <2>. QED BY <2>1 DEF Recorded
<1>8. ASSUME NEW i \in DOMAIN rs
      PROVE  /\ Day(q[i].at) <= Day(q[n].at)
             /\ q[i].cycle <= q[n].cycle
             /\ q[i].event \in Resets \/ q[n].event \in Resets => Before(q, i, n)
             /\ NoReset(q, i, n) =>
                   Upto(q[n]) + Consumed(ns, Day(q[i].at))
                   = q[i].value + Consumed(ns, Day(q[n].at))
  <2>1. q[i] = rs[i] /\ q[n] = e
    BY <1>2
  <2>2. Day(rs[i].at) <= Day(e.at)
    BY DEF Recorded
  <2>3. ASSUME rs[i].event \in Resets PROVE Before(q, i, n)
    <3>1. rs[i].at = 4 * Day(rs[i].at)
      BY <2>3 DEF Recorded, Midnight
    <3>2. e.at >= 4 * Day(e.at)
      BY <1>4 DEF Day
    <3>3. rs[i].at <= e.at
      <4>1. PICK a, b, x, y : /\ a = rs[i].at /\ b = e.at
                              /\ x = Day(rs[i].at) /\ y = Day(e.at)
        OBVIOUS
      <4>2. /\ a = 4 * x /\ b >= 4 * y /\ x <= y
            /\ a \in Nat /\ b \in Nat /\ x \in Nat /\ y \in Nat
        BY <1>3, <1>4, <2>2, <3>1, <3>2, <4>1
      <4>3. a <= b
        BY ONLY <4>2
      <4>. QED BY <4>1, <4>3
    <3>4. Priority(rs[i]) = 1 /\ Priority(e) \in {1, 2}
      BY <2>3 DEF Priority, Resets
    <3>. QED BY <1>3, <1>4, <2>1, <3>3, <3>4 DEF Before
  <2>4. ASSUME e.event \in Resets PROVE Before(q, i, n)
    <3>1. rs[i].at <= e.at
      BY <2>4
    <3>2. Priority(e) = 1
      BY <2>4 DEF Priority, Resets
    <3>3. rs[i].at = e.at => rs[i].event # "moveIn"
      <4>1. SUFFICES ASSUME rs[i].at = e.at, rs[i].event = "moveIn" PROVE FALSE
        OBVIOUS
      <4>2. rs[i].at # Midnight(Day(rs[i].at))
        BY <4>1 DEF Recorded
      <4>3. rs[i].at = Midnight(Len(ns)) /\ Day(rs[i].at) = Len(ns)
        BY <2>4, <4>1
      <4>. QED BY <4>2, <4>3
    <3>4. rs[i].at = e.at => Priority(rs[i]) = 1
      BY <3>3 DEF Priority
    <3>. QED BY <1>3, <1>4, <2>1, <3>1, <3>2, <3>4 DEF Before
  <2>5. NoReset(q, i, n) =>
           Upto(e) + Consumed(ns, Day(rs[i].at))
           = rs[i].value + Consumed(ns, Day(e.at))
    BY <1>7
  <2>. QED BY <2>1, <2>2, <2>3, <2>4, <2>5
<1>9. \A i, j \in DOMAIN q : i < j =>
         /\ Day(q[i].at) <= Day(q[j].at)
         /\ q[i].cycle <= q[j].cycle
         /\ q[i].event \in Resets \/ q[j].event \in Resets => Before(q, i, j)
         /\ NoReset(q, i, j) =>
               Upto(q[j]) + Consumed(ns, Day(q[i].at))
               = q[i].value + Consumed(ns, Day(q[j].at))
  <2>1. SUFFICES ASSUME NEW i \in DOMAIN q, NEW j \in DOMAIN q, i < j
                 PROVE  /\ Day(q[i].at) <= Day(q[j].at)
                        /\ q[i].cycle <= q[j].cycle
                        /\ q[i].event \in Resets \/ q[j].event \in Resets
                              => Before(q, i, j)
                        /\ NoReset(q, i, j) =>
                              Upto(q[j]) + Consumed(ns, Day(q[i].at))
                              = q[i].value + Consumed(ns, Day(q[j].at))
    OBVIOUS
  <2>2. i \in DOMAIN rs
    BY <1>2, <1>3, <2>1
  <2>3. CASE j \in DOMAIN rs
    BY <1>6, <2>1, <2>2, <2>3, Zenon
  <2>4. CASE j = n
    BY <1>8, <2>2, <2>4, Zenon
  <2>. QED BY <1>2, <2>3, <2>4
<1>10. ASSUME NEW i \in DOMAIN q, NoReset(q, i, Len(q) + 1)
       PROVE  e.value + Consumed(ns, Day(q[i].at))
              = q[i].value + Consumed(ns, Len(ns))
  <2>1. CASE i = n
    BY <1>2, <2>1
  <2>2. CASE i \in DOMAIN rs
    <3>1. e.event \notin Resets
      <4>1. n \in DOMAIN q /\ i < n /\ n < Len(q) + 1
        BY <1>2, <1>3, <2>2
      <4>. QED BY <1>2, <1>10, <4>1 DEF NoReset
    <3>2. NoReset(q, i, n)
      <4>1. \A k \in DOMAIN q : k < n => k < Len(q) + 1
        BY <1>2, <1>3
      <4>. QED BY <1>10, <4>1 DEF NoReset
    <3>3. e.value = m
      BY <3>1 DEF Upto
    <3>4. q[i] = rs[i]
      BY <1>2, <2>2
    <3>. QED BY <1>7, <2>2, <3>2, <3>3, <3>4
  <2>. QED BY <1>2, <2>1, <2>2
<1>. QED BY <1>5, <1>9, <1>10, Zenon DEF Recorded

\* A night passes, and the meter moves by what it consumed.
LEMMA RecordedNight ==
    ASSUME NEW rs \in Seq(Measure), NEW ns \in Seq(NightType), NEW m \in Nat,
           Recorded(rs, m, ns), NEW e \in NightType,
           NEW ms, ms = Append(ns, e), NEW l, l = m + e.units
    PROVE  Recorded(rs, l, ms)
PROOF
<1>1. /\ ms \in Seq(NightType) /\ Len(ms) = Len(ns) + 1
      /\ \A d \in 0..Len(ns) : Consumed(ms, d) = Consumed(ns, d)
      /\ Consumed(ms, Len(ms)) = Consumed(ns, Len(ns)) + e.units
  BY ConsumedMore
<1>2. Len(ns) \in Nat /\ e.units \in Nat
  BY SeqParts DEF NightType
<1>3. \A i \in DOMAIN rs :
         /\ Day(rs[i].at) \in 0..Len(ns) /\ Day(rs[i].at) <= Len(ms)
         /\ rs[i].value \in Nat
  <2>1. \A i \in DOMAIN rs : Day(rs[i].at) \in Nat /\ rs[i].value \in Nat
    BY ReadingsAre
  <2>2. \A i \in DOMAIN rs : Day(rs[i].at) <= Len(ns)
    BY DEF Recorded
  <2>. QED BY <1>1, <1>2, <2>1, <2>2
<1>4. \A i \in DOMAIN rs : Consumed(ms, Day(rs[i].at)) = Consumed(ns, Day(rs[i].at))
  BY <1>1, <1>3
<1>5. \A i, j \in DOMAIN rs : i < j =>
         /\ Day(rs[i].at) <= Day(rs[j].at)
         /\ rs[i].cycle <= rs[j].cycle
         /\ rs[i].event \in Resets \/ rs[j].event \in Resets => Before(rs, i, j)
         /\ NoReset(rs, i, j) =>
               Upto(rs[j]) + Consumed(ms, Day(rs[i].at))
               = rs[i].value + Consumed(ms, Day(rs[j].at))
  BY <1>4 DEF Recorded
<1>6. ASSUME NEW i \in DOMAIN rs, NoReset(rs, i, Len(rs) + 1)
      PROVE  l + Consumed(ms, Day(rs[i].at)) = rs[i].value + Consumed(ms, Len(ms))
  <2>1. m + Consumed(ns, Day(rs[i].at)) = rs[i].value + Consumed(ns, Len(ns))
    BY <1>6 DEF Recorded
  <2>2. PICK a, b, u, v : /\ a = Consumed(ns, Day(rs[i].at))
                          /\ b = Consumed(ns, Len(ns))
                          /\ u = e.units /\ v = rs[i].value
    OBVIOUS
  <2>3. a \in Nat /\ b \in Nat /\ u \in Nat /\ v \in Nat /\ m \in Nat
    BY <1>2, <1>3, <2>2, ConsumedNat
  <2>4. m + a = v + b
    BY <2>1, <2>2
  <2>5. Consumed(ms, Day(rs[i].at)) = a /\ Consumed(ms, Len(ms)) = b + u
    BY <1>1, <1>4, <2>2
  <2>6. l = m + u
    BY <2>2
  <2>7. l + a = v + (b + u)
    BY ONLY <2>3, <2>4, <2>6
  <2>. QED BY <2>2, <2>5, <2>7
<1>7. \A i \in DOMAIN rs :
         /\ Day(rs[i].at) <= Len(ms)
         /\ rs[i].event = "moveIn" => rs[i].at # Midnight(Day(rs[i].at))
         /\ rs[i].event \in Resets =>
               /\ rs[i].at = Midnight(Day(rs[i].at))
               /\ rs[i].final \in Nat /\ rs[i].tenant = Nobody
  BY <1>3 DEF Recorded
<1>. QED BY <1>5, <1>6, <1>7, Zenon DEF Recorded

-----------------------------------------------------------------------------
(* What the cycles charge                                                  *)

\* A computed cycle charges what its nights consumed.
Charges(cy, ns) ==
    \E row : /\ \A t \in Tenants : row[t] = cy.lines[t]
             /\ SumOf(Tenants, row) + cy.overhead
                = SumOf((Day(cy.start) + 1)..Day(cy.end), UnitsOf(ns))

\* A cycle has a reading at its start and, once it has ended, one at its end.
Account(c, cy, rs, ns) ==
    /\ cy.computed => cy.end # None /\ Charges(cy, ns)
    /\ \E i \in DOMAIN rs : /\ rs[i].at = cy.start /\ rs[i].cycle = c
                            /\ rs[i].tenant = Nobody
    /\ cy.end # None => /\ cy.start <= cy.end
                        /\ \E i \in DOMAIN rs : rs[i].at = cy.end

Accounts(cs, rs, ns) == \A c \in DOMAIN cs : Account(c, cs[c], rs, ns)

ChargeInv ==
    /\ nights \in Seq(NightType) /\ Len(nights) = day
    /\ Recorded(readings, meter, nights)
    /\ Accounts(cycles, readings, nights)

LEMMA AccountReading ==
    ASSUME NEW rs \in Seq(Measure), NEW e \in Measure, NEW ns, NEW c, NEW cy,
           Account(c, cy, rs, ns), NEW q, q = Append(rs, e)
    PROVE  Account(c, cy, q, ns)
PROOF
<1>1. DOMAIN rs \subseteq DOMAIN q /\ \A i \in DOMAIN rs : q[i] = rs[i]
  BY Appended
<1>. QED BY <1>1 DEF Account

LEMMA AccountsReading ==
    ASSUME NEW rs \in Seq(Measure), NEW e \in Measure, NEW ns, NEW cs,
           Accounts(cs, rs, ns), NEW q, q = Append(rs, e)
    PROVE  Accounts(cs, q, ns)
PROOF
BY AccountReading DEF Accounts

LEMMA AccountsNew ==
    ASSUME NEW S, NEW cs \in Seq(S), NEW cy \in S, NEW rs, NEW ns,
           Accounts(cs, rs, ns), Account(Len(cs) + 1, cy, rs, ns),
           NEW ds, ds = Append(cs, cy)
    PROVE  Accounts(ds, rs, ns)
PROOF
<1>1. /\ DOMAIN ds = DOMAIN cs \cup {Len(cs) + 1}
      /\ \A c \in DOMAIN cs : ds[c] = cs[c]
      /\ ds[Len(cs) + 1] = cy
  BY Appended
<1>2. ASSUME NEW c \in DOMAIN ds PROVE Account(c, ds[c], rs, ns)
  <2>1. CASE c \in DOMAIN cs
    BY <1>1, <2>1 DEF Accounts
  <2>2. CASE c = Len(cs) + 1
    BY <1>1, <2>2
  <2>. QED BY <1>1, <2>1, <2>2
<1>. QED BY <1>2 DEF Accounts

LEMMA AccountsChanged ==
    ASSUME NEW S, NEW cs \in Seq(S), NEW rs, NEW ns, Accounts(cs, rs, ns),
           NEW c \in DOMAIN cs, NEW cy \in S, Account(c, cy, rs, ns),
           NEW ds, ds = [cs EXCEPT ![c] = cy]
    PROVE  Accounts(ds, rs, ns)
PROOF
<1>1. /\ DOMAIN ds = DOMAIN cs
      /\ \A d \in DOMAIN cs : ds[d] = IF d = c THEN cy ELSE cs[d]
  BY Changed
<1>2. ASSUME NEW d \in DOMAIN ds PROVE Account(d, ds[d], rs, ns)
  <2>1. CASE d = c
    BY <1>1, <2>1
  <2>2. CASE d # c
    BY <1>1, <2>2 DEF Accounts
  <2>. QED BY <2>1, <2>2
<1>. QED BY <1>2 DEF Accounts

\* A cycle has ended before the next night.
LEMMA AccountsNight ==
    ASSUME NEW rs \in Seq(Measure), NEW ns \in Seq(NightType), NEW m,
           Recorded(rs, m, ns), NEW cs, Accounts(cs, rs, ns),
           \A c \in DOMAIN cs : cs[c].start \in Nat,
           NEW e \in NightType, NEW ms, ms = Append(ns, e)
    PROVE  Accounts(cs, rs, ms)
PROOF
<1>1. /\ Len(ns) \in Nat /\ DOMAIN ns = 1..Len(ns)
      /\ \A n \in DOMAIN ns : n \in DOMAIN ms /\ ms[n] = ns[n]
  BY SeqParts, Appended
<1>2. ASSUME NEW c \in DOMAIN cs PROVE Account(c, cs[c], rs, ms)
  <2>1. Account(c, cs[c], rs, ns)
    BY DEF Accounts
  <2>2. ASSUME cs[c].computed PROVE Charges(cs[c], ms)
    <3>1. cs[c].end # None /\ Charges(cs[c], ns)
      BY <2>1, <2>2 DEF Account
    <3>2. PICK i \in DOMAIN rs : rs[i].at = cs[c].end
      BY <2>1, <3>1 DEF Account
    <3>3. Day(cs[c].end) \in Nat /\ Day(cs[c].end) <= Len(ns)
      <4>1. Day(rs[i].at) \in Nat
        BY ReadingsAre
      <4>2. Day(rs[i].at) <= Len(ns)
        BY DEF Recorded
      <4>. QED BY <3>2, <4>1, <4>2
    <3>4. PICK D : D = (Day(cs[c].start) + 1)..Day(cs[c].end)
      OBVIOUS
    <3>5. Day(cs[c].start) \in Nat
      BY DEF Day
    <3>6. IsFiniteSet(D) /\ D \subseteq DOMAIN ns
      <4>1. PICK a, b : a = Day(cs[c].start) /\ b = Day(cs[c].end)
        OBVIOUS
      <4>2. a \in Nat /\ b \in Nat /\ b <= Len(ns) /\ D = (a + 1)..b
        BY <3>3, <3>4, <3>5, <4>1
      <4>3. a + 1 \in Int /\ b \in Int
        BY <4>2
      <4>4. IsFiniteSet(D)
        BY <4>2, <4>3, FS_Interval
      <4>5. D \subseteq DOMAIN ns
        BY <1>1, <4>2
      <4>. QED BY <4>4, <4>5
    <3>7. \A n \in D : UnitsOf(ns)[n] = UnitsOf(ms)[n]
      BY <1>1, <3>6 DEF UnitsOf
    <3>8. SumOf(D, UnitsOf(ns)) = SumOf(D, UnitsOf(ms))
      BY <3>6, <3>7, SumSame
    <3>. QED BY <3>1, <3>4, <3>8 DEF Charges
  <2>. QED BY <2>1, <2>2 DEF Account
<1>. QED BY <1>2 DEF Accounts

-----------------------------------------------------------------------------
(* The steps                                                               *)

LEMMA DayOf ==
    ASSUME NEW d \in Nat
    PROVE  /\ Day(Midnight(d)) = d /\ Day(Morning(d)) = d
           /\ Day(Ten(d)) = d /\ Day(Afternoon(d)) = d
           /\ Morning(d) # Midnight(d) /\ Afternoon(d) # Midnight(d)
PROOF
BY DEF Day, Midnight, Morning, Ten, Afternoon

\* A reading of today that shows what the meter shows.
LEMMA Written ==
    ASSUME nights \in Seq(NightType), Len(nights) = day, meter \in Nat,
           NEW rs \in Seq(Measure), Recorded(rs, meter, nights),
           NEW e \in Measure, e.value = meter, Day(e.at) = day,
           e.event \notin Resets, e.event = "moveIn" => e.at # Midnight(day),
           \A i \in DOMAIN rs : rs[i].cycle <= e.cycle,
           NEW q, q = Append(rs, e)
    PROVE  /\ q \in Seq(Measure) /\ Recorded(q, meter, nights)
           /\ Len(rs) + 1 \in DOMAIN q /\ q[Len(rs) + 1] = e
           /\ \A i \in DOMAIN q : q[i].cycle <= e.cycle
PROOF
<1>1. Upto(e) = meter
  BY DEF Upto
<1>2. Recorded(q, e.value, nights)
  BY <1>1, RecordedReading
<1>3. /\ q \in Seq(Measure) /\ DOMAIN q = DOMAIN rs \cup {Len(rs) + 1}
      /\ \A i \in DOMAIN rs : q[i] = rs[i]
      /\ q[Len(rs) + 1] = e
  BY Appended
<1>4. e.cycle \in Nat
  BY DEF Measure
<1>5. \A i \in DOMAIN q : q[i].cycle <= e.cycle
  BY <1>3, <1>4
<1>. QED BY <1>2, <1>3, <1>5

\* Readings are written for the open cycle, which is the last one.
LEMMA WrittenForLast ==
    ASSUME IInv
    PROVE  /\ Len(cycles) \in Nat
           /\ \A i \in DOMAIN readings : readings[i].cycle <= Len(cycles) + 1
           /\ \A c \in Active :
                 /\ c \in DOMAIN cycles /\ c \in Nat
                 /\ cycles[c].end = None /\ cycles[c].start \in Nat
                 /\ \A i \in DOMAIN readings : readings[i].cycle <= c
PROOF
<1>1. PICK X : cycles \in Seq(CycleWith(X))
  BY DEF IInv, Documents
<1>2. DOMAIN cycles = 1..Len(cycles) /\ Len(cycles) \in Nat
      /\ \A c \in DOMAIN cycles : cycles[c] \in CycleWith(X)
  BY <1>1, SeqParts
<1>3. \A i \in DOMAIN readings : readings[i].cycle \in DOMAIN cycles
  BY DEF IInv, ReadingInv
<1>4. \A i \in DOMAIN readings : readings[i].cycle <= Len(cycles) + 1
  BY <1>2, <1>3
<1>5. ASSUME NEW c \in Active
      PROVE  /\ c \in DOMAIN cycles /\ c \in Nat
             /\ cycles[c].end = None /\ cycles[c].start \in Nat
             /\ \A i \in DOMAIN readings : readings[i].cycle <= c
  <2>1. c \in DOMAIN cycles /\ cycles[c].status = "open"
    BY DEF Active
  <2>2. Ordered(cycles)
    BY DEF IInv
  <2>3. cycles[c].end = None
    BY <2>1, <2>2 DEF Ordered
  <2>4. \A i \in DOMAIN readings : readings[i].cycle <= c
    <3>1. TAKE i \in DOMAIN readings
    <3>2. ~(c < readings[i].cycle)
      BY <1>1, <1>3, <2>1, <2>2, OpenIsLast
    <3>. QED BY <1>2, <1>3, <2>1, <3>2
  <2>5. cycles[c].start \in Instants
    BY <1>2, <2>1 DEF CycleWith
  <2>. QED BY <1>2, <2>1, <2>3, <2>4, <2>5, InstantNat
<1>. QED BY <1>2, <1>4, <1>5

LEMMA NewAccount ==
    ASSUME NEW at, NEW from, NEW vacancy, NEW n, NEW rs, NEW ns,
           NEW i \in DOMAIN rs, rs[i].at = at, rs[i].cycle = n,
           rs[i].tenant = Nobody,
           NEW cy, cy = Cycle(at, from, vacancy)
    PROVE  Account(n, cy, rs, ns)
PROOF
<1>1. cy.computed = FALSE /\ cy.start = at /\ cy.end = None
  BY DEF Cycle
<1>. QED BY <1>1 DEF Account

\* Whoever enters is read into the open cycle or into one opened for it.
LEMMA EnteringCharged ==
    ASSUME IInv, ChargeInv, NEW t \in Tenants, NEW at \in Instants,
           Day(at) = day, at # Midnight(day), EnterReading(t, at)
    PROVE  /\ Recorded(readings', meter, nights)
           /\ Accounts(cycles', readings', nights)
PROOF
<1>1. /\ readings \in Seq(Measure) /\ meter \in Nat
      /\ \E X : cycles \in Seq(CycleWith(X))
  BY DEF IInv, Documents
<1>2. /\ nights \in Seq(NightType) /\ Len(nights) = day
      /\ Recorded(readings, meter, nights)
      /\ Accounts(cycles, readings, nights)
  BY DEF ChargeInv
<1>3. CASE \E c \in Open(at) :
             /\ readings' = Append(readings, Reading(at, "moveIn", t, meter, c))
             /\ UNCHANGED cycles
  <2>1. PICK c \in Open(at) :
             /\ readings' = Append(readings, Reading(at, "moveIn", t, meter, c))
             /\ UNCHANGED cycles
    BY <1>3
  <2>2. c \in Nat /\ \A i \in DOMAIN readings : readings[i].cycle <= c
    BY WrittenForLast DEF Open
  <2>3. PICK e, q : e = Reading(at, "moveIn", t, meter, c) /\ q = Append(readings, e)
    OBVIOUS
  <2>4. e \in Measure /\ Recorded(q, meter, nights)
    <3>1. /\ e \in Measure /\ e.at = at /\ e.cycle = c /\ e.value = meter
          /\ e.event \notin Resets
      BY <1>1, <2>2, <2>3 DEF Reading, Measure, Resets
    <3>2. /\ Day(e.at) = day /\ e.at # Midnight(day)
          /\ \A i \in DOMAIN readings : readings[i].cycle <= e.cycle
      BY <2>2, <3>1
    <3>. QED BY ONLY <1>1, <1>2, <2>3, <3>1, <3>2, Written
  <2>5. Accounts(cycles, q, nights)
    BY <1>1, <1>2, <2>3, <2>4, AccountsReading
  <2>6. readings' = q /\ cycles' = cycles
    BY <2>1, <2>3
  <2>. QED BY <2>4, <2>5, <2>6
<1>4. CASE ~\E c \in Open(at) :
             /\ readings' = Append(readings, Reading(at, "moveIn", t, meter, c))
             /\ UNCHANGED cycles
  <2>1. PICK n : n = Len(cycles) + 1
    OBVIOUS
  <2>2. PICK d, e, p, q :
          /\ d = Reading(at, "periodStart", Nobody, meter, n)
          /\ e = Reading(at, "moveIn", t, meter, n)
          /\ p = Append(readings, d) /\ q = Append(p, e)
    OBVIOUS
  <2>3. PICK cy : cy = Cycle(at, meter, VacancyBefore)
    OBVIOUS
  <2>4. cycles' = Append(cycles, cy) /\ readings' = readings \o <<d, e>>
    BY <1>4, <2>1, <2>2, <2>3, Zenon DEF EnterReading
  <2>5. n \in Nat /\ \A i \in DOMAIN readings : readings[i].cycle <= n
    BY <2>1, WrittenForLast
  <2>6. /\ d \in Measure /\ p \in Seq(Measure) /\ Recorded(p, meter, nights)
        /\ Len(readings) + 1 \in DOMAIN p /\ p[Len(readings) + 1] = d
        /\ d.at = at /\ d.cycle = n /\ d.tenant = Nobody
        /\ \A i \in DOMAIN p : p[i].cycle <= n
    <3>1. /\ d \in Measure /\ d.at = at /\ d.cycle = n /\ d.value = meter
          /\ d.tenant = Nobody /\ d.event \notin Resets /\ d.event # "moveIn"
      BY <1>1, <2>2, <2>5 DEF Reading, Measure, Resets
    <3>2. /\ p \in Seq(Measure) /\ Recorded(p, meter, nights)
          /\ Len(readings) + 1 \in DOMAIN p /\ p[Len(readings) + 1] = d
          /\ \A i \in DOMAIN p : p[i].cycle <= d.cycle
      <4>1. /\ Day(d.at) = day
            /\ \A i \in DOMAIN readings : readings[i].cycle <= d.cycle
        BY <2>5, <3>1
      <4>. QED BY ONLY <1>1, <1>2, <2>2, <3>1, <4>1, Written
    <3>. QED BY <3>1, <3>2
  <2>7. e \in Measure /\ Recorded(q, meter, nights)
    <3>1. /\ e \in Measure /\ e.at = at /\ e.cycle = n /\ e.value = meter
          /\ e.event \notin Resets
      BY <1>1, <2>2, <2>5 DEF Reading, Measure, Resets
    <3>2. /\ Day(e.at) = day /\ e.at # Midnight(day)
          /\ \A i \in DOMAIN p : p[i].cycle <= e.cycle
      BY <2>6, <3>1
    <3>. QED BY ONLY <1>1, <1>2, <2>2, <2>6, <3>1, <3>2, Written
  <2>8. readings' = q
    BY <1>1, <2>2, <2>4, <2>6, <2>7, Added
  <2>9. Accounts(cycles, q, nights)
    <3>1. Accounts(cycles, p, nights)
      BY <1>1, <1>2, <2>2, <2>6, AccountsReading
    <3>. QED BY <2>2, <2>6, <2>7, <3>1, AccountsReading
  <2>10. Account(n, cy, q, nights)
    <3>1. PICK i : i = Len(readings) + 1
      OBVIOUS
    <3>2. i \in DOMAIN q /\ q[i] = d
      BY <2>2, <2>6, <2>7, <3>1, Appended
    <3>3. q[i].at = at /\ q[i].cycle = n /\ q[i].tenant = Nobody
      BY <2>6, <3>2
    <3>. QED BY <2>3, <3>2, <3>3, NewAccount
  <2>11. \E S : cycles \in Seq(S) /\ cy \in S
    <3>1. PICK X : cycles \in Seq(CycleWith(X))
      BY <1>1
    <3>2. cycles \in Seq(CycleWith(X) \cup {cy})
      BY <3>1, SeqMonotonic
    <3>. QED BY <3>2
  <2>12. Accounts(Append(cycles, cy), q, nights)
    BY <2>1, <2>9, <2>10, <2>11, AccountsNew
  <2>. QED BY <2>4, <2>7, <2>8, <2>12
<1>. QED BY <1>3, <1>4

LEMMA InitCharge == Init => ChargeInv
PROOF
<1> SUFFICES ASSUME Init PROVE ChargeInv
  OBVIOUS
<1>1. /\ nights = <<>> /\ readings = <<>> /\ cycles = <<>> /\ day = 0
      /\ DOMAIN readings = {} /\ DOMAIN cycles = {}
  BY DEF Init
<1>2. nights \in Seq(NightType) /\ Len(nights) = day
  BY <1>1
<1>3. Recorded(readings, meter, nights)
  BY <1>1, Zenon DEF Recorded
<1>4. Accounts(cycles, readings, nights)
  BY <1>1, Zenon DEF Accounts
<1>. QED BY <1>2, <1>3, <1>4 DEF ChargeInv

LEMMA NightCharge ==
    ASSUME IInv, ChargeInv, NEW u \in Uses, Night(u)
    PROVE  ChargeInv'
PROOF
<1>1. /\ readings \in Seq(Measure) /\ meter \in Nat /\ u \in Nat
      /\ \E X : cycles \in Seq(CycleWith(X))
  BY MeterAssumption DEF IInv, Documents
<1>2. /\ nights \in Seq(NightType) /\ Len(nights) = day
      /\ Recorded(readings, meter, nights)
      /\ Accounts(cycles, readings, nights)
  BY DEF ChargeInv
<1>3. PICK e, ms, l : /\ e = [units |-> u, who |-> {t \in Tenants : Present(t)}]
                      /\ ms = Append(nights, e) /\ l = meter + u
  OBVIOUS
<1>4. e \in NightType /\ e.units = u
  BY <1>1, <1>3 DEF NightType
<1>5. /\ day' = day + 1 /\ meter' = l /\ nights' = ms
      /\ readings' = readings /\ cycles' = cycles
  BY <1>3, Zenon DEF Night
<1>6. ms \in Seq(NightType) /\ Len(ms) = day + 1
  BY <1>2, <1>3, <1>4, ConsumedMore
<1>7. Recorded(readings, l, ms)
  BY <1>1, <1>2, <1>3, <1>4, RecordedNight
<1>8. Accounts(cycles, readings, ms)
  <2>1. \A c \in DOMAIN cycles : cycles[c].start \in Nat
    <3>1. PICK X : cycles \in Seq(CycleWith(X))
      BY <1>1
    <3>2. \A c \in DOMAIN cycles : cycles[c] \in CycleWith(X)
      BY <3>1, SeqParts
    <3>3. \A c \in DOMAIN cycles : cycles[c].start \in Instants
      BY <3>2 DEF CycleWith
    <3>. QED BY <3>3, InstantNat
  <2>. QED BY <1>1, <1>2, <1>3, <1>4, <2>1, AccountsNight
<1>9. Recorded(readings', meter', nights') /\ Accounts(cycles', readings', nights')
  BY <1>5, <1>7, <1>8
<1>. QED BY <1>5, <1>6, <1>9 DEF ChargeInv

LEMMA OpenCycleCharge ==
    ASSUME IInv, ChargeInv, OpenCycle
    PROVE  ChargeInv'
PROOF
<1>1. /\ readings \in Seq(Measure) /\ meter \in Nat
      /\ day \in 0..LastDay /\ day \in Nat /\ Midnight(day) \in Instants
      /\ \E X : cycles \in Seq(CycleWith(X))
  <2>1. day \in 0..LastDay
    BY DEF IInv, Documents
  <2>2. day \in Nat
    BY <2>1, MeterAssumption
  <2>3. Midnight(day) \in Instants
    BY <2>1, InstantsAre
  <2>. QED BY <2>1, <2>2, <2>3 DEF IInv, Documents
<1>2. /\ nights \in Seq(NightType) /\ Len(nights) = day
      /\ Recorded(readings, meter, nights)
      /\ Accounts(cycles, readings, nights)
  BY DEF ChargeInv
<1>3. PICK at, n : at = Midnight(day) /\ n = Len(cycles) + 1
  OBVIOUS
<1>4. PICK e, q, cy : /\ e = Reading(at, "periodStart", Nobody, meter, n)
                      /\ q = Append(readings, e) /\ cy = Cycle(at, meter, 0)
  OBVIOUS
<1>5. /\ cycles' = Append(cycles, cy) /\ readings' = q
      /\ UNCHANGED <<day, meter, nights>>
  BY <1>3, <1>4, Zenon DEF OpenCycle, world
<1>6. n \in Nat /\ \A i \in DOMAIN readings : readings[i].cycle <= n
  BY <1>3, WrittenForLast
<1>7. /\ e \in Measure /\ e.at = at /\ e.cycle = n /\ e.value = meter
      /\ e.tenant = Nobody /\ e.event \notin Resets /\ e.event # "moveIn"
  BY <1>1, <1>3, <1>4, <1>6 DEF Reading, Measure, Resets
<1>8. /\ q \in Seq(Measure) /\ Recorded(q, meter, nights)
      /\ Len(readings) + 1 \in DOMAIN q /\ q[Len(readings) + 1] = e
  <2>1. /\ Day(e.at) = day
        /\ \A i \in DOMAIN readings : readings[i].cycle <= e.cycle
    BY <1>1, <1>3, <1>6, <1>7, DayOf
  <2>2. /\ readings \in Seq(Measure) /\ meter \in Nat
        /\ q = Append(readings, e)
    BY <1>1, <1>4
  <2>. QED BY ONLY <1>2, <1>7, <2>1, <2>2, Written
<1>9. Accounts(cycles, q, nights)
  BY <1>1, <1>2, <1>4, <1>7, AccountsReading
<1>10. Account(n, cy, q, nights)
  <2>1. PICK i : i = Len(readings) + 1
    OBVIOUS
  <2>2. /\ i \in DOMAIN q
        /\ q[i].at = at /\ q[i].cycle = n /\ q[i].tenant = Nobody
    BY <1>7, <1>8, <2>1
  <2>. QED BY <1>4, <2>2, NewAccount
<1>11. Accounts(Append(cycles, cy), q, nights)
  <2>1. PICK X : cycles \in Seq(CycleWith(X))
    BY <1>1
  <2>2. cycles \in Seq(CycleWith(X) \cup {cy})
    BY <2>1, SeqMonotonic
  <2>. QED BY <1>3, <1>9, <1>10, <2>2, AccountsNew
<1>12. Recorded(readings', meter', nights') /\ Accounts(cycles', readings', nights')
  BY <1>5, <1>8, <1>11
<1>. QED BY <1>2, <1>5, <1>12 DEF ChargeInv

LEMMA ArriveCharge ==
    ASSUME IInv, ChargeInv, NEW t \in Tenants, Arrive(t)
    PROVE  ChargeInv'
PROOF
<1>1. day \in 0..LastDay /\ day \in Nat
  BY MeterAssumption DEF IInv, Documents
<1>2. PICK at : at = Morning(day)
  OBVIOUS
<1>3. at \in Instants /\ Day(at) = day /\ at # Midnight(day)
  BY <1>1, <1>2, InstantsAre, DayOf
<1>4. EnterReading(t, at) /\ UNCHANGED <<day, meter, nights>>
  BY <1>2, Zenon DEF Arrive, world
<1>5. Recorded(readings', meter, nights) /\ Accounts(cycles', readings', nights)
  BY <1>3, <1>4, EnteringCharged
<1>6. Recorded(readings', meter', nights') /\ Accounts(cycles', readings', nights')
  BY <1>4, <1>5
<1>. QED BY <1>4, <1>6 DEF ChargeInv

LEMMA TransferInCharge ==
    ASSUME IInv, ChargeInv, NEW t \in Tenants, TransferIn(t)
    PROVE  ChargeInv'
PROOF
<1>1. day \in 0..LastDay /\ day \in Nat
  BY MeterAssumption DEF IInv, Documents
<1>2. PICK at : at = Afternoon(day)
  OBVIOUS
<1>3. at \in Instants /\ Day(at) = day /\ at # Midnight(day)
  BY <1>1, <1>2, InstantsAre, DayOf
<1>4. EnterReading(t, at) /\ UNCHANGED <<day, meter, nights>>
  BY <1>2, Zenon DEF TransferIn, world
<1>5. Recorded(readings', meter, nights) /\ Accounts(cycles', readings', nights)
  BY <1>3, <1>4, EnteringCharged
<1>6. Recorded(readings', meter', nights') /\ Accounts(cycles', readings', nights')
  BY <1>4, <1>5
<1>. QED BY <1>4, <1>6 DEF ChargeInv

\* A departure is read on the day.
LEMMA DepartureWritten ==
    ASSUME IInv, ChargeInv, NEW t \in Tenants, NEW at \in Instants,
           Day(at) = day, NEW c \in Active,
           NEW e, e = Reading(at, "moveOut", t, meter, c),
           NEW q, q = Append(readings, e)
    PROVE  /\ Recorded(q, meter, nights) /\ Accounts(cycles, q, nights)
           /\ Len(readings) + 1 \in DOMAIN q /\ q[Len(readings) + 1].at = at
PROOF
<1>1. readings \in Seq(Measure) /\ meter \in Nat
  BY DEF IInv, Documents
<1>2. /\ nights \in Seq(NightType) /\ Len(nights) = day
      /\ Recorded(readings, meter, nights)
      /\ Accounts(cycles, readings, nights)
  BY DEF ChargeInv
<1>3. c \in Nat /\ \A i \in DOMAIN readings : readings[i].cycle <= c
  BY WrittenForLast
<1>5. /\ e \in Measure /\ e.at = at /\ e.cycle = c /\ e.value = meter
      /\ e.event \notin Resets /\ e.event # "moveIn"
  BY <1>1, <1>3 DEF Reading, Measure, Resets
<1>6. /\ q \in Seq(Measure) /\ Recorded(q, meter, nights)
      /\ Len(readings) + 1 \in DOMAIN q /\ q[Len(readings) + 1] = e
  <2>1. /\ Day(e.at) = day /\ q = Append(readings, e)
        /\ \A i \in DOMAIN readings : readings[i].cycle <= e.cycle
    BY <1>3, <1>5
  <2>. QED BY ONLY <1>1, <1>2, <1>5, <2>1, Written
<1>7. Accounts(cycles, q, nights)
  BY <1>1, <1>2, <1>5, AccountsReading
<1>. QED BY <1>5, <1>6, <1>7

LEMMA LeaveCharge ==
    ASSUME IInv, ChargeInv, NEW t \in Tenants, Leave(t)
    PROVE  ChargeInv'
PROOF
<1>1. day \in 0..LastDay /\ day \in Nat
  BY MeterAssumption DEF IInv, Documents
<1>2. PICK at : at = Ten(day)
  OBVIOUS
<1>3. at \in Instants /\ Day(at) = day
  BY <1>1, <1>2, InstantsAre, DayOf
<1>4. PICK c \in Open(at) :
      /\ readings' = Append(readings, Reading(at, "moveOut", t, meter, c))
      /\ cycles' = IF \E u \in Tenants \ {t} : Present(u) THEN cycles
                   ELSE [cycles EXCEPT ![c].status = "closed",
                                       ![c].end = at, ![c].to = meter]
      /\ UNCHANGED <<day, meter, nights>>
  BY <1>2, Zenon DEF Leave, world
<1>5. c \in Active /\ Covers(c, at)
  BY DEF Open
<1>6. PICK e, q : e = Reading(at, "moveOut", t, meter, c) /\ q = readings'
  OBVIOUS
<1>7. /\ Recorded(q, meter, nights) /\ Accounts(cycles, q, nights)
      /\ \E i \in DOMAIN q : q[i].at = at
  <2>1. q = Append(readings, e)
    BY <1>4, <1>6
  <2>2. Recorded(q, meter, nights) /\ Accounts(cycles, q, nights)
    BY <1>3, <1>5, <1>6, <2>1, DepartureWritten
  <2>3. \E i \in DOMAIN q : q[i].at = at
    BY <1>3, <1>5, <1>6, <2>1, DepartureWritten
  <2>. QED BY <2>2, <2>3
<1>8. PICK ds : ds = cycles'
  OBVIOUS
<1>9. Accounts(ds, q, nights)
  <2>1. CASE ds = cycles
    BY <1>7, <2>1
  <2>2. CASE ds = [cycles EXCEPT ![c].status = "closed",
                                 ![c].end = at, ![c].to = meter]
    <3>1. PICK d, ended : d = cycles[c] /\ ended = [d EXCEPT !.status = "closed",
                                                 !.end = at, !.to = meter]
      OBVIOUS
    <3>2. PICK X : cycles \in Seq(CycleWith(X))
      BY DEF IInv, Documents
    <3>3. c \in DOMAIN cycles /\ d.end = None /\ d \in CycleWith(X)
      BY <1>5, <3>1, <3>2, WrittenForLast, SeqParts
    <3>4. /\ ended.start = d.start /\ ended.computed = d.computed /\ ended.end = at
      BY <3>1, <3>3 DEF CycleWith
    <3>5. Account(c, d, q, nights)
      BY <1>7, <3>1, <3>3 DEF Accounts
    <3>6. ~d.computed
      BY <3>3, <3>5 DEF Account
    <3>7. d.start <= at
      BY <1>5, <3>1 DEF Covers
    <3>8. Account(c, ended, q, nights)
      BY <1>7, <3>4, <3>5, <3>6, <3>7 DEF Account
    <3>9. ds = [cycles EXCEPT ![c] = ended]
      BY <2>2, <3>1, Zenon
    <3>10. PICK S : S = CycleWith(X) \cup {ended}
      OBVIOUS
    <3>11. cycles \in Seq(S) /\ ended \in S
      BY <3>2, <3>10, SeqMonotonic
    <3>12. c \in DOMAIN cycles /\ Accounts(cycles, q, nights)
      BY <1>7, <3>3
    <3>. QED BY ONLY <3>8, <3>9, <3>11, <3>12, AccountsChanged
  <2>. QED BY <1>4, <1>8, <2>1, <2>2
<1>10. Recorded(readings', meter', nights') /\ Accounts(cycles', readings', nights')
  BY <1>4, <1>6, <1>7, <1>8, <1>9
<1>. QED BY <1>4, <1>10 DEF ChargeInv

LEMMA TransferOutCharge ==
    ASSUME IInv, ChargeInv, NEW t \in Tenants, TransferOut(t)
    PROVE  ChargeInv'
PROOF
<1>1. day \in 0..LastDay /\ day \in Nat
  BY MeterAssumption DEF IInv, Documents
<1>2. PICK at : at = Afternoon(day)
  OBVIOUS
<1>3. at \in Instants /\ Day(at) = day
  BY <1>1, <1>2, InstantsAre, DayOf
<1>4. PICK c \in Open(at) :
      /\ readings' = Append(readings, Reading(at, "moveOut", t, meter, c))
      /\ UNCHANGED <<day, meter, nights, cycles>>
  BY <1>2, Zenon DEF TransferOut, world
<1>5. c \in Active
  BY DEF Open
<1>6. PICK e, q : e = Reading(at, "moveOut", t, meter, c) /\ q = readings'
  OBVIOUS
<1>7. Recorded(q, meter, nights) /\ Accounts(cycles, q, nights)
  <2>1. q = Append(readings, e)
    BY <1>4, <1>6
  <2>. QED BY <1>3, <1>5, <1>6, <2>1, DepartureWritten
<1>8. Recorded(readings', meter', nights') /\ Accounts(cycles', readings', nights')
  BY <1>4, <1>6, <1>7
<1>. QED BY <1>4, <1>8 DEF ChargeInv

\* The old meter's last value closes, and the new one starts from nothing.
LEMMA ReplaceCharge ==
    ASSUME IInv, ChargeInv, Replace
    PROVE  ChargeInv'
PROOF
<1>1. /\ readings \in Seq(Measure) /\ meter \in Nat
      /\ day \in 0..LastDay /\ day \in Nat
  BY MeterAssumption DEF IInv, Documents
<1>2. /\ nights \in Seq(NightType) /\ Len(nights) = day
      /\ Recorded(readings, meter, nights)
      /\ Accounts(cycles, readings, nights)
  BY DEF ChargeInv
<1>3. PICK at : at = Midnight(day)
  OBVIOUS
<1>4. PICK c \in Open(at) :
      /\ ~\E i \in DOMAIN readings :
            \/ readings[i].at > at
            \/ readings[i].cycle = c /\ readings[i].event \in Resets
      /\ readings' = Append(readings,
           [Reading(at, "meterReplacement", Nobody, 0, c)
              EXCEPT !.final = meter])
      /\ meter' = 0
      /\ UNCHANGED <<day, nights, cycles>>
  BY <1>3, Zenon DEF Replace
<1>5. c \in Nat /\ \A i \in DOMAIN readings : readings[i].cycle <= c
  BY WrittenForLast DEF Open
<1>6. PICK e, q : /\ e = [Reading(at, "meterReplacement", Nobody, 0, c)
                            EXCEPT !.final = meter]
                  /\ q = Append(readings, e)
  OBVIOUS
<1>7. at \in Instants /\ Day(at) = day
  BY <1>1, <1>3, InstantsAre, DayOf
<1>8. /\ e \in Measure /\ e.at = at /\ e.cycle = c /\ e.value = 0
      /\ e.tenant = Nobody /\ e.event = "meterReplacement" /\ e.final = meter
  BY <1>1, <1>5, <1>6, <1>7 DEF Reading, Measure
<1>9. e.event \in Resets /\ e.event # "moveIn" /\ Upto(e) = meter
  BY <1>8 DEF Resets, Upto
<1>10. \A i \in DOMAIN readings : readings[i].at <= e.at
  <2>1. \A i \in DOMAIN readings : readings[i].at \in Nat
    BY <1>1, ReadingsAre
  <2>2. at \in Nat
    BY <1>7, InstantNat
  <2>. QED BY <1>4, <1>8, <2>1, <2>2
<1>11. Recorded(q, e.value, nights)
  <2>1. /\ Day(e.at) = Len(nights) /\ e.at = Midnight(Len(nights))
        /\ e.final \in Nat
        /\ \A i \in DOMAIN readings : readings[i].cycle <= e.cycle
    BY <1>1, <1>2, <1>3, <1>5, <1>7, <1>8
  <2>. QED BY ONLY <1>1, <1>2, <1>6, <1>8, <1>9, <1>10, <2>1, RecordedReading
<1>12. Accounts(cycles, q, nights)
  BY <1>1, <1>2, <1>6, <1>8, AccountsReading
<1>13. readings' = q
  BY <1>4, <1>6
<1>14. Recorded(readings', meter', nights') /\ Accounts(cycles', readings', nights')
  BY <1>4, <1>8, <1>11, <1>12, <1>13
<1>. QED BY <1>4, <1>14 DEF ChargeInv

\* A reset in line between two readings is of the cycles and days between.
LEMMA ResetBetween ==
    ASSUME NEW rs \in Seq(Measure), NEW m, NEW ns, Recorded(rs, m, ns),
           NEW i \in DOMAIN rs, NEW j \in DOMAIN rs, NEW k \in DOMAIN rs,
           rs[k].event \in Resets, Before(rs, i, k), Before(rs, k, j)
    PROVE  /\ rs[i].at <= rs[k].at /\ rs[k].at <= rs[j].at
           /\ rs[i].cycle <= rs[k].cycle /\ rs[k].cycle <= rs[j].cycle
           /\ rs[k].tenant = Nobody
PROOF
<1>1. /\ DOMAIN rs \subseteq Nat
      /\ \A h \in DOMAIN rs : rs[h].at \in Nat /\ rs[h].cycle \in Nat
  BY ReadingsAre
<1>2. ~Before(rs, k, i) /\ ~Before(rs, j, k) /\ i # k /\ j # k
  BY <1>1, OneLine
<1>3. \A g, h \in DOMAIN rs :
         g < h => /\ rs[g].cycle <= rs[h].cycle
                  /\ rs[g].event \in Resets \/ rs[h].event \in Resets
                        => Before(rs, g, h)
  BY DEF Recorded
<1>4. i < k /\ k < j
  <2>1. ~(k < i) /\ ~(j < k)
    BY <1>2, <1>3
  <2>2. i \in Nat /\ j \in Nat /\ k \in Nat
    BY <1>1
  <2>. QED BY <1>2, <2>1, <2>2
<1>5. rs[i].at <= rs[k].at /\ rs[k].at <= rs[j].at
  BY <1>1 DEF Before
<1>6. rs[k].tenant = Nobody
  BY DEF Recorded
<1>. QED BY <1>3, <1>4, <1>5, <1>6

\* What the revision selects: every reading of the room between the dates.
LEMMA RevisionSelects ==
    ASSUME NEW rs \in Seq(Measure), NEW m, NEW ns, Recorded(rs, m, ns),
           NEW start \in Nat, NEW end \in Nat,
           NEW J, J = {i \in DOMAIN rs :
                         rs[i].at >= start /\ rs[i].at <= end}
    PROVE  Selected(rs, J)
PROOF
<1>1. /\ DOMAIN rs \subseteq Nat
      /\ \A h \in DOMAIN rs : rs[h].at \in Nat
  BY ReadingsAre
<1>2. ASSUME NEW i \in J, NEW j \in J, NEW k \in DOMAIN rs,
             rs[k].event \in Resets, Before(rs, i, k), Before(rs, k, j)
      PROVE  k \in J
  <2>1. rs[i].at <= rs[k].at /\ rs[k].at <= rs[j].at
    BY <1>2, ResetBetween
  <2>2. /\ start <= rs[i].at /\ rs[j].at <= end
        /\ rs[i].at \in Nat /\ rs[j].at \in Nat /\ rs[k].at \in Nat
    BY <1>1
  <2>. QED BY <2>1, <2>2
<1>. QED BY <1>2 DEF Selected

\* Readings that record the meter, and a selection of them from the start of
\* cycle c to its end.
Evidence(rs, m, ns, J, c, start, end) ==
    /\ rs \in Seq(Measure) /\ ns \in Seq(NightType) /\ Recorded(rs, m, ns)
    /\ Selected(rs, J) /\ start \in Nat /\ end \in Nat
    /\ \A i \in J : start <= rs[i].at /\ rs[i].at <= end
    /\ \E i \in J : rs[i].at = start /\ rs[i].cycle = c /\ rs[i].tenant = Nobody
    /\ \E i \in J : rs[i].at = end

\* What became of cycle d once it was computed from the readings q.
Becomes(d, new, q, start, end) ==
    /\ d.start = start /\ new.start = start /\ new.end = end
    /\ Trouble(q, start, end, d.from, Nobody) = ""
    /\ new.lines = Computed(d, q, end, Nobody).lines
    /\ new.overhead = Computed(d, q, end, Nobody).overhead

\* A cycle computed on such evidence, whatever is changed in its other fields,
\* keeps its account.
LEMMA ComputedAccount ==
    ASSUME NEW rs, NEW m, NEW ns, NEW J, NEW c, NEW start, NEW end,
           Evidence(rs, m, ns, J, c, start, end),
           NEW q, q = Restrict(rs, J), NEW X, NEW d \in CycleWith(X),
           NEW new, Becomes(d, new, q, start, end)
    PROVE  Account(c, new, rs, ns)
PROOF
<1>1. PICK from, nobody, k :
       /\ from = d.from /\ nobody = Nobody /\ k = Computed(d, q, end, nobody)
  OBVIOUS
<1>2. /\ start = d.start /\ new.start = start /\ new.end = end
       /\ Trouble(q, start, end, from, nobody) = ""
       /\ new.lines = k.lines /\ new.overhead = k.overhead
  BY <1>1, Zenon DEF Becomes
<1>3. /\ rs \in Seq(Measure) /\ ns \in Seq(NightType) /\ Recorded(rs, m, ns)
      /\ Selected(rs, J) /\ start \in Nat /\ end \in Nat
      /\ \A i \in J : start <= rs[i].at /\ rs[i].at <= end
  BY DEF Evidence
<1>4. PICK a \in J : /\ rs[a].at = start /\ rs[a].cycle = c
                     /\ rs[a].tenant = Nobody
  BY DEF Evidence
<1>5. PICK z \in J : rs[z].at = end
  BY DEF Evidence
<1>6. PICK row : row = [t \in Tenants |-> k.lines[t]]
  OBVIOUS
<1>7. \A t \in Tenants : row[t] = k.lines[t]
  BY <1>6
<1>8. SumOf(Tenants, row) + k.overhead
      = SumOf((Day(start) + 1)..Day(end), UnitsOf(ns))
  <2>1. PICK segs : segs = Segments(q, start, end, from, nobody)
    OBVIOUS
  <2>2. PICK g : g = [i \in DOMAIN segs |-> segs[i].units]
    OBVIOUS
  <2>3. \A i \in DOMAIN segs : g[i] = segs[i].units
    BY <2>2
  <2>4. \A i \in DOMAIN segs : segs[i].units >= 0
    <3>1. ~\E i \in DOMAIN segs : segs[i].units < 0
      BY <1>2, <2>1, Zenon DEF Trouble
    <3>2. q = Restrict(rs, J)
      OBVIOUS
    <3>3. \A i \in DOMAIN segs : segs[i].units \in Int
      BY ONLY <1>3, <2>1, <3>2, SegmentsInt
    <3>4. ASSUME NEW i \in DOMAIN segs PROVE segs[i].units >= 0
      <4>1. PICK u : u = segs[i].units
        OBVIOUS
      <4>2. u \in Int /\ ~(u < 0)
        BY <3>1, <3>3, <4>1
      <4>3. u >= 0
        BY ONLY <4>2
      <4>. QED BY <4>1, <4>3
    <3>. QED BY <3>4
  <2>5. /\ \A i \in DOMAIN segs : segs[i].units \in Nat
        /\ SumOf(DOMAIN segs, g)
           = SumOf((Day(start) + 1)..Day(end), UnitsOf(ns))
    <3>1. /\ rs[a].at = start /\ a \in J /\ z \in J /\ rs[z].at = end
          /\ q = Restrict(rs, J)
      BY <1>4, <1>5
    <3>. QED BY ONLY <1>3, <2>1, <2>3, <2>4, <3>1, SegmentsMeasure, SMTT(60)
  <2>6. SumOf(Tenants, row) + k.overhead = SumOf(DOMAIN segs, g)
    <3>1. IsFiniteSet(DOMAIN q)
      BY <1>3, SelectionIs
    <3>2. \A i \in DOMAIN segs : segs[i].units \in Nat
      BY <2>5
    <3>3. /\ d \in CycleWith(X) /\ k = Computed(d, q, end, nobody)
          /\ segs = Segments(q, d.start, end, d.from, nobody)
      BY <1>1, <1>2, <2>1
    <3>. QED BY ONLY <1>7, <2>3, <3>1, <3>2, <3>3, ComputedAddsUp, SMTT(60)
  <2>. QED BY <2>5, <2>6
<1>9. Charges(new, ns)
  <2>1. new.lines = k.lines /\ new.overhead = k.overhead
    BY <1>2
  <2>. QED BY <1>7, <1>8, <1>2, <2>1 DEF Charges
<1>10. a \in DOMAIN rs /\ z \in DOMAIN rs
  BY <1>3 DEF Selected
<1>11. end # None /\ start <= end
  <2>1. start <= rs[a].at /\ rs[a].at <= end
    BY <1>3
  <2>2. start <= end
    BY <1>4, <2>1
  <2>3. end \in Nat
    BY <1>3
  <2>. QED BY ONLY <2>2, <2>3 DEF None
<1>. QED BY <1>4, <1>5, <1>9, <1>10, <1>11, <1>2 DEF Account

\* The close computes the cycle from its own readings, and continues with the
\* reading it ended at.
LEMMA CloseCharge ==
    ASSUME IInv, ChargeInv, Close
    PROVE  ChargeInv'
PROOF
<1>1. /\ readings \in Seq(Measure) /\ meter \in Nat
      /\ day \in 0..LastDay /\ day \in Nat
      /\ \E W : cycles \in Seq(CycleWith(W))
  BY MeterAssumption DEF IInv, Documents
<1>2. /\ nights \in Seq(NightType) /\ Len(nights) = day
      /\ Recorded(readings, meter, nights)
      /\ Accounts(cycles, readings, nights)
  BY DEF ChargeInv
<1>3. PICK end, nobody : end = Midnight(day) /\ nobody = Nobody
  OBVIOUS
<1>4. end \in Instants /\ end \in Nat /\ Day(end) = day
  BY <1>1, <1>3, InstantsAre, InstantNat, DayOf
<1>5. PICK c, d, e, ended, q, k, done, y, f :
      /\ c \in Active /\ d = cycles[c] /\ d.start < end
      /\ e = Reading(end, "periodEnd", Nobody, meter, c)
      /\ ended = Append(readings, e)
      /\ q = CycleReadings(c, ended, d.start, end)
      /\ k = Computed(d, q, end, nobody)
      /\ done = [k EXCEPT !.status = "closed", !.end = end, !.to = meter]
      /\ y = Cycle(end, meter, 0)
      /\ f = Reading(end, "periodStart", Nobody, meter, Len(cycles) + 1)
      /\ Trouble(q, d.start, end, d.from, nobody) = ""
      /\ \/ /\ cycles' = Append([cycles EXCEPT ![c] = done], y)
            /\ readings' = Append(ended, f)
         \/ /\ cycles' = [cycles EXCEPT ![c] = done]
            /\ readings' = ended
      /\ UNCHANGED <<day, meter, nights>>
  BY <1>3, Zenon DEF Close, MayEnd, world
<1>6. PICK W : cycles \in Seq(CycleWith(W))
  BY <1>1
<1>7. PICK start : start = d.start
  OBVIOUS
<1>8. /\ c \in DOMAIN cycles /\ c \in Nat /\ start \in Nat
      /\ d \in CycleWith(W)
      /\ \A i \in DOMAIN readings : readings[i].cycle <= c
  BY <1>5, <1>6, <1>7, WrittenForLast, SeqParts
<1>9. PICK z : z = Len(readings) + 1
  OBVIOUS
<1>10. /\ e \in Measure /\ e.at = end /\ e.cycle = c /\ e.value = meter
       /\ e.tenant = Nobody /\ e.event \notin Resets /\ e.event # "moveIn"
  BY <1>1, <1>4, <1>5, <1>8 DEF Reading, Measure, Resets
<1>11. /\ ended \in Seq(Measure) /\ Recorded(ended, meter, nights)
       /\ z \in DOMAIN ended /\ ended[z] = e
       /\ \A i \in DOMAIN ended : ended[i].cycle <= c
  <2>1. /\ readings \in Seq(Measure) /\ meter \in Nat /\ Day(e.at) = day
        /\ \A i \in DOMAIN readings : readings[i].cycle <= e.cycle
        /\ ended = Append(readings, e)
    BY <1>1, <1>4, <1>5, <1>8, <1>10
  <2>2. /\ ended \in Seq(Measure) /\ Recorded(ended, meter, nights)
        /\ Len(readings) + 1 \in DOMAIN ended /\ ended[Len(readings) + 1] = e
        /\ \A i \in DOMAIN ended : ended[i].cycle <= e.cycle
    BY ONLY <1>2, <1>10, <2>1, Written
  <2>. QED BY <1>9, <1>10, <2>2
<1>12. Accounts(cycles, ended, nights)
  BY <1>1, <1>2, <1>5, <1>10, AccountsReading
<1>13. PICK a \in DOMAIN ended : /\ ended[a].at = start /\ ended[a].cycle = c
                                 /\ ended[a].tenant = Nobody
  BY <1>5, <1>7, <1>8, <1>12 DEF Accounts, Account
<1>14. PICK M, J :
       /\ J = {i \in DOMAIN ended :
                 /\ ended[i].at >= start /\ ended[i].at <= end
                 /\ ended[i].cycle = c
                 /\ ended[i].tenant # Nobody => ended[i].tenant \in M}
       /\ q = Restrict(ended, J)
  <2>1. q = CycleReadings(c, ended, start, end)
    BY <1>5, <1>7
  <2>2. PICK M : M = {t \in Billable(start, end, Nobody) :
                        \/ CameInside(t, start, end)
                        \/ WentInside(t, start, end, Nobody)}
    OBVIOUS
  <2>3. PICK J : J = {i \in DOMAIN ended :
                        /\ ended[i].at >= start /\ ended[i].at <= end
                        /\ ended[i].cycle = c
                        /\ ended[i].tenant # Nobody => ended[i].tenant \in M}
    OBVIOUS
  <2>4. q = Restrict(ended, J)
    BY ONLY <2>1, <2>2, <2>3, Zenon DEF CycleReadings
  <2>. QED BY <2>3, <2>4
<1>15. start <= end
  <2>1. start < end /\ start \in Nat /\ end \in Nat
    BY <1>4, <1>5, <1>7, <1>8
  <2>. QED BY ONLY <2>1
<1>16. Evidence(ended, meter, nights, J, c, start, end)
  <2>1. Selected(ended, J)
    <3>1. J \subseteq DOMAIN ended
      BY <1>14
    <3>2. ASSUME NEW i \in J, NEW j \in J, NEW h \in DOMAIN ended,
                 ended[h].event \in Resets,
                 Before(ended, i, h), Before(ended, h, j)
          PROVE  h \in J
      <4>1. i \in DOMAIN ended /\ j \in DOMAIN ended
        BY <3>1
      <4>2. /\ ended[i].at <= ended[h].at /\ ended[h].at <= ended[j].at
            /\ ended[i].cycle <= ended[h].cycle
            /\ ended[h].cycle <= ended[j].cycle
            /\ ended[h].tenant = Nobody
        BY <1>11, <3>2, <4>1, ResetBetween
      <4>3. /\ start <= ended[i].at /\ ended[j].at <= end
            /\ ended[i].cycle = c /\ ended[j].cycle = c
        BY <1>14
      <4>4. /\ ended[i].at \in Nat /\ ended[j].at \in Nat
            /\ ended[h].at \in Nat /\ ended[h].cycle \in Nat
        BY <1>11, <4>1, ReadingsAre
      <4>5. ended[h].at >= start /\ ended[h].at <= end /\ ended[h].cycle = c
        BY <1>4, <1>8, <4>2, <4>3, <4>4
      <4>. QED BY <1>14, <4>2, <4>5
    <3>. QED BY <3>1, <3>2 DEF Selected
  <2>2. /\ \A i \in J : start <= ended[i].at /\ ended[i].at <= end
        /\ J \subseteq DOMAIN ended
    BY <1>11, <1>14
  <2>3. a \in J /\ z \in J
    BY <1>4, <1>8, <1>10, <1>11, <1>13, <1>14, <1>15
  <2>. QED BY <1>2, <1>4, <1>8, <1>10, <1>11, <1>13, <2>1, <2>2, <2>3
           DEF Evidence
<1>17. PICK V : k \in CycleWith(V) /\ k.start = start
  <2>1. \E V : /\ W \subseteq V /\ Computed(d, q, end, nobody) \in CycleWith(V)
               /\ Computed(d, q, end, nobody).start = d.start
               /\ Computed(d, q, end, nobody).end = d.end
    BY <1>8, ComputedCycle
  <2>. QED BY <1>5, <1>7, <2>1
<1>18. /\ done.end = end /\ done.start = start
       /\ done.lines = k.lines /\ done.overhead = k.overhead
  BY <1>5, <1>17 DEF CycleWith
<1>19. Account(c, done, ended, nights)
  <2>1. d \in CycleWith(W) /\ q = Restrict(ended, J)
    BY <1>8, <1>14
  <2>2. Becomes(d, done, q, start, end)
    BY <1>3, <1>5, <1>7, <1>18, Zenon DEF Becomes
  <2>. QED BY ONLY <1>16, <2>1, <2>2, ComputedAccount
<1>20. PICK S, ds : S = CycleWith(W) \cup {done} \cup {y}
                    /\ ds = [cycles EXCEPT ![c] = done]
  OBVIOUS
<1>21. cycles \in Seq(S) /\ done \in S /\ y \in S
  <2>1. CycleWith(W) \subseteq S
    BY <1>20
  <2>2. cycles \in Seq(S)
    BY <1>6, <2>1, SeqMonotonic
  <2>. QED BY <1>20, <2>2
<1>22. Accounts(ds, ended, nights)
  BY ONLY <1>8, <1>12, <1>19, <1>20, <1>21, AccountsChanged
<1>23. CASE cycles' = Append(ds, y) /\ readings' = Append(ended, f)
  <2>1. PICK n, r : n = Len(cycles) + 1 /\ r = Append(ended, f)
    OBVIOUS
  <2>2. n \in Nat /\ c <= n
    BY <1>6, <1>8, <2>1, SeqParts
  <2>3. /\ f \in Measure /\ f.at = end /\ f.cycle = n /\ f.value = meter
        /\ f.tenant = Nobody /\ f.event \notin Resets /\ f.event # "moveIn"
    BY <1>1, <1>4, <1>5, <2>1, <2>2 DEF Reading, Measure, Resets
  <2>4. /\ Recorded(r, meter, nights)
        /\ Len(ended) + 1 \in DOMAIN r /\ r[Len(ended) + 1] = f
    <3>1. \A i \in DOMAIN ended : ended[i].cycle <= f.cycle
      <4>1. \A i \in DOMAIN ended : ended[i].cycle \in Nat
        BY <1>11, ReadingsAre
      <4>. QED BY <1>8, <1>11, <2>2, <2>3, <4>1
    <3>2. /\ meter \in Nat /\ Day(f.at) = day
          /\ ended \in Seq(Measure) /\ Recorded(ended, meter, nights)
      BY <1>1, <1>4, <1>11, <2>3
    <3>. QED BY ONLY <1>2, <2>1, <2>3, <3>1, <3>2, Written
  <2>5. Accounts(ds, r, nights)
    BY <1>11, <1>22, <2>1, <2>3, AccountsReading
  <2>6. Account(n, y, r, nights)
    <3>1. PICK i : i = Len(ended) + 1
      OBVIOUS
    <3>2. /\ i \in DOMAIN r
          /\ r[i].at = end /\ r[i].cycle = n /\ r[i].tenant = Nobody
      BY <2>3, <2>4, <3>1
    <3>. QED BY <1>5, <3>2, NewAccount
  <2>7. ds \in Seq(S) /\ Len(ds) = Len(cycles)
    BY <1>8, <1>20, <1>21, Changed
  <2>8. Accounts(Append(ds, y), r, nights)
    <3>1. Account(Len(ds) + 1, y, r, nights)
      BY <2>1, <2>6, <2>7
    <3>. QED BY <1>21, <2>5, <2>7, <3>1, AccountsNew
  <2>9. Recorded(readings', meter', nights') /\ Accounts(cycles', readings', nights')
    BY <1>5, <1>23, <2>1, <2>4, <2>8
  <2>. QED BY <1>2, <1>5, <2>9 DEF ChargeInv
<1>24. CASE cycles' = ds /\ readings' = ended
  <2>1. Recorded(readings', meter', nights') /\ Accounts(cycles', readings', nights')
    BY <1>5, <1>11, <1>22, <1>24
  <2>. QED BY <1>2, <1>5, <2>1 DEF ChargeInv
<1>. QED BY <1>5, <1>20, <1>23, <1>24

\* A revision computes the cycle from every reading of the room between its
\* dates.
LEMMA ReviseCharge ==
    ASSUME IInv, ChargeInv, NEW c \in DOMAIN cycles, Revise(c)
    PROVE  ChargeInv'
PROOF
<1>1. /\ readings \in Seq(Measure) /\ Ordered(cycles)
      /\ \E W : cycles \in Seq(CycleWith(W))
  BY DEF IInv, Documents
<1>2. /\ nights \in Seq(NightType) /\ Len(nights) = day
      /\ Recorded(readings, meter, nights)
      /\ Accounts(cycles, readings, nights)
  BY DEF ChargeInv
<1>3. PICK W : cycles \in Seq(CycleWith(W))
  BY <1>1
<1>4. PICK nobody : nobody = Nobody
  OBVIOUS
<1>5. PICK d, q, k, new :
      /\ d = cycles[c] /\ q = AllReadings(d.start, d.end)
      /\ k = Computed(d, q, d.end, nobody)
      /\ new = [k EXCEPT !.status = "revised", !.vacancy = 0]
      /\ d.status = "closed"
      /\ Trouble(q, d.start, d.end, d.from, nobody) = ""
      /\ cycles' = [cycles EXCEPT ![c] = new]
      /\ UNCHANGED <<day, meter, nights, readings>>
  BY <1>4, Zenon DEF Revise, world
<1>6. PICK start, end : start = d.start /\ end = d.end
  OBVIOUS
<1>7. /\ d \in CycleWith(W) /\ start \in Nat /\ end \in Nat /\ end # None
  <2>1. d \in CycleWith(W)
    BY <1>3, <1>5, SeqParts
  <2>2. end # None
    BY <1>1, <1>5, <1>6 DEF Ordered
  <2>3. start \in Instants /\ end \in Instants
    BY <1>6, <2>1, <2>2 DEF CycleWith
  <2>. QED BY <2>1, <2>2, <2>3, InstantNat
<1>8. /\ start <= end
      /\ \E i \in DOMAIN readings : /\ readings[i].at = start
                                    /\ readings[i].cycle = c
                                    /\ readings[i].tenant = Nobody
      /\ \E i \in DOMAIN readings : readings[i].at = end
  BY <1>2, <1>5, <1>6, <1>7 DEF Accounts, Account
<1>9. PICK J : /\ J = {i \in DOMAIN readings :
                         readings[i].at >= start /\ readings[i].at <= end}
               /\ q = Restrict(readings, J)
  BY <1>5, <1>6, Zenon DEF AllReadings
<1>10. Evidence(readings, meter, nights, J, c, start, end)
  <2>1. Selected(readings, J)
    BY <1>1, <1>2, <1>7, <1>9, RevisionSelects
  <2>2. /\ \A i \in J : start <= readings[i].at /\ readings[i].at <= end
        /\ \A i \in DOMAIN readings :
              readings[i].at \in {start, end} => i \in J
    <3>1. \A i \in DOMAIN readings : readings[i].at \in Nat
      BY <1>1, ReadingsAre
    <3>. QED BY <1>7, <1>8, <1>9, <3>1
  <2>3. /\ \E i \in J : /\ readings[i].at = start /\ readings[i].cycle = c
                        /\ readings[i].tenant = Nobody
        /\ \E i \in J : readings[i].at = end
    BY <1>8, <2>2
  <2>. QED BY <1>1, <1>2, <1>7, <2>1, <2>2, <2>3 DEF Evidence
<1>11. PICK V : k \in CycleWith(V) /\ k.start = start /\ k.end = end
  <2>1. \E V : /\ W \subseteq V /\ Computed(d, q, end, nobody) \in CycleWith(V)
               /\ Computed(d, q, end, nobody).start = d.start
               /\ Computed(d, q, end, nobody).end = d.end
    BY <1>7, ComputedCycle
  <2>. QED BY <1>5, <1>6, <2>1
<1>12. /\ new.end = end /\ new.start = start
       /\ new.lines = k.lines /\ new.overhead = k.overhead
  BY <1>5, <1>11 DEF CycleWith
<1>13. Account(c, new, readings, nights)
  <2>1. d \in CycleWith(W) /\ q = Restrict(readings, J)
    BY <1>7, <1>9
  <2>2. Becomes(d, new, q, start, end)
    BY <1>4, <1>5, <1>6, <1>12, Zenon DEF Becomes
  <2>. QED BY ONLY <1>10, <2>1, <2>2, ComputedAccount
<1>14. PICK S, ds : S = CycleWith(W) \cup {new}
                    /\ ds = [cycles EXCEPT ![c] = new]
  OBVIOUS
<1>15. cycles \in Seq(S) /\ new \in S
  <2>1. CycleWith(W) \subseteq S
    BY <1>14
  <2>2. cycles \in Seq(S)
    BY <1>3, <2>1, SeqMonotonic
  <2>. QED BY <1>14, <2>2
<1>16. Accounts(ds, readings, nights)
  <2>1. Accounts(cycles, readings, nights) /\ c \in DOMAIN cycles
    BY <1>2
  <2>. QED BY ONLY <1>13, <1>14, <1>15, <2>1, AccountsChanged
<1>17. Recorded(readings', meter', nights') /\ Accounts(cycles', readings', nights')
  BY <1>2, <1>5, <1>14, <1>16
<1>. QED BY <1>2, <1>5, <1>17 DEF ChargeInv

LEMMA StutterCharge ==
    ASSUME ChargeInv, UNCHANGED vars
    PROVE  ChargeInv'
PROOF
<1>1. UNCHANGED <<day, meter, nights, readings, cycles>>
  BY DEF vars
<1>2. Recorded(readings, meter, nights) /\ Accounts(cycles, readings, nights)
  BY DEF ChargeInv
<1>3. Recorded(readings', meter', nights') /\ Accounts(cycles', readings', nights')
  BY <1>1, <1>2
<1>. QED BY <1>1, <1>3 DEF ChargeInv

\* Every step keeps the readings true and the accounts of the cycles.
LEMMA StepCharge == IInv /\ ChargeInv /\ [Next]_vars => ChargeInv'
PROOF
<1>1. SUFFICES ASSUME IInv, ChargeInv, [Next]_vars PROVE ChargeInv'
  OBVIOUS
<1>2. CASE \E u \in Uses : Night(u)
  BY <1>1, <1>2, NightCharge
<1>3. CASE OpenCycle
  BY <1>1, <1>3, OpenCycleCharge
<1>4. CASE \E t \in Tenants : Arrive(t)
  BY <1>1, <1>4, ArriveCharge
<1>5. CASE \E t \in Tenants : Leave(t)
  BY <1>1, <1>5, LeaveCharge
<1>6. CASE \E t \in Tenants : TransferIn(t)
  BY <1>1, <1>6, TransferInCharge
<1>7. CASE \E t \in Tenants : TransferOut(t)
  BY <1>1, <1>7, TransferOutCharge
<1>8. CASE Replace
  BY <1>1, <1>8, ReplaceCharge
<1>9. CASE Close
  BY <1>1, <1>9, CloseCharge
<1>10. CASE \E c \in DOMAIN cycles : Revise(c)
  BY <1>1, <1>10, ReviseCharge
<1>11. CASE UNCHANGED vars
  BY <1>1, <1>11, StutterCharge
<1>. QED BY <1>1, <1>2, <1>3, <1>4, <1>5, <1>6, <1>7, <1>8, <1>9, <1>10, <1>11
         DEF Next

LEMMA AlwaysCharged == Spec => []ChargeInv
PROOF
<1>1. Init => ChargeInv
  BY InitCharge
<1>2. ChargeInv /\ IInv /\ [Next]_vars => ChargeInv'
  BY StepCharge
<1>3. Spec => []IInv
  BY Always
<1>. QED BY <1>1, <1>2, <1>3, PTL DEF Spec

\* The nights of a cycle are those the account counts.
LEMMA ChargedRoom == IInv /\ ChargeInv => RoomIsCharged
PROOF
<1>1. SUFFICES ASSUME IInv, ChargeInv, NEW c \in DOMAIN cycles,
                      cycles[c].computed
      PROVE  MapThenSumSet(LAMBDA t : cycles[c].lines[t], Tenants)
               + cycles[c].overhead
             = MapThenSumSet(LAMBDA n : nights[n].units, NightsIn(c))
  BY Zenon DEF RoomIsCharged
<1>2. /\ nights \in Seq(NightType) /\ Recorded(readings, meter, nights)
      /\ Accounts(cycles, readings, nights)
  BY <1>1 DEF ChargeInv
<1>3. PICK cy : cy = cycles[c]
  OBVIOUS
<1>4. Account(c, cy, readings, nights) /\ cy.computed
  BY <1>1, <1>2, <1>3 DEF Accounts
<1>5. cy.end # None /\ Charges(cy, nights)
  BY <1>4 DEF Account
<1>6. PICK row : /\ \A t \in Tenants : row[t] = cy.lines[t]
                 /\ SumOf(Tenants, row) + cy.overhead
                    = SumOf((Day(cy.start) + 1)..Day(cy.end), UnitsOf(nights))
  BY <1>5 DEF Charges
<1>7. PICK i \in DOMAIN readings : readings[i].at = cy.end
  BY <1>4, <1>5 DEF Account
<1>8. readings \in Seq(Measure)
  BY <1>1 DEF IInv, Documents
<1>9. PICK a, b, l : a = Day(cy.start) /\ b = Day(cy.end) /\ l = Len(nights)
  OBVIOUS
<1>10. a \in Nat /\ b \in Nat /\ l \in Nat /\ b <= l /\ DOMAIN nights = 1..l
  <2>1. b \in Nat
    BY <1>7, <1>8, <1>9, ReadingsAre
  <2>2. b <= l
    BY <1>2, <1>7, <1>9 DEF Recorded
  <2>3. a \in Nat
    <3>1. PICK X : cycles \in Seq(CycleWith(X))
      BY <1>1 DEF IInv, Documents
    <3>2. cy \in CycleWith(X)
      BY <1>1, <1>3, <3>1, SeqParts
    <3>3. cy.start \in Instants
      BY <3>2 DEF CycleWith
    <3>. QED BY <1>9, <3>3, InstantNat
  <2>4. l \in Nat /\ DOMAIN nights = 1..l
    BY <1>2, <1>9, SeqParts
  <2>. QED BY <2>1, <2>2, <2>3, <2>4
<1>11. NightsIn(c) = (a + 1)..b
  <2>1. NightsIn(c) = {n \in 1..l : n - 1 >= a /\ n - 1 < b}
    BY <1>3, <1>9, <1>10 DEF NightsIn
  <2>2. {n \in 1..l : n - 1 >= a /\ n - 1 < b} = (a + 1)..b
    BY ONLY <1>10
  <2>. QED BY <2>1, <2>2
<1>12. MapThenSumSet(LAMBDA t : cycles[c].lines[t], Tenants) = SumOf(Tenants, row)
  <2>1. \A t \in Tenants : row[t] = cycles[c].lines[t]
    BY <1>3, <1>6
  <2>2. \A F : Adds(SUBSET Tenants, row, F) <=>
           (F = [s \in SUBSET Tenants |->
                   IF s = {} THEN 0
                   ELSE LET x == CHOOSE x \in s : TRUE
                        IN  cycles[c].lines[x] + F[s \ {x}]])
    BY <2>1 DEF Adds
  <2>. QED BY ONLY <2>2, ZenonT(60) DEF SumOf, MapThenSumSet, MapThenFoldSet
<1> DEFINE N == NightsIn(c)
<1>13. \A n \in N : UnitsOf(nights)[n] = nights[n].units
  BY DEF NightsIn, UnitsOf
<1>. HIDE DEF N
<1>14. PICK g : g = UnitsOf(nights)
  OBVIOUS
<1>15. MapThenSumSet(LAMBDA n : nights[n].units, N) = SumOf(N, g)
  <2>1. \A n \in N : g[n] = nights[n].units
    BY <1>13, <1>14
  <2>2. \A F : Adds(SUBSET N, g, F) <=>
           (F = [s \in SUBSET N |->
                   IF s = {} THEN 0
                   ELSE LET x == CHOOSE x \in s : TRUE
                        IN  nights[x].units + F[s \ {x}]])
    BY <2>1 DEF Adds
  <2>. QED BY ONLY <2>2, ZenonT(60) DEF SumOf, MapThenSumSet, MapThenFoldSet
<1>16. SumOf(Tenants, row) + cycles[c].overhead = SumOf(NightsIn(c), g)
  BY <1>3, <1>6, <1>9, <1>11, <1>14
<1>. USE DEF N
<1>. QED BY <1>12, <1>15, <1>16

\* What the tenants of a computed cycle owe and what its vacancy cost add up
\* to what the meters consumed in its nights, whoever came and went, whether
\* or not the meter was replaced, and whether the close or a revision computed
\* it: the readings of a cycle leave out no night and count none twice.  The
\* readings entered are what the meter showed (the bounds of the model).
THEOREM RoomCharged == Spec => []RoomIsCharged
PROOF
<1>1. Spec => []IInv
  BY Always
<1>2. Spec => []ChargeInv
  BY AlwaysCharged
<1>3. IInv /\ ChargeInv => RoomIsCharged
  BY ChargedRoom
<1>. QED BY <1>1, <1>2, <1>3, PTL

-----------------------------------------------------------------------------
(* What a tenant is due                                                     *)

\* The days from s to d on which somebody came or went, and these two.
Breaks(rows, s, d) ==
    {s, d} \cup
    {x \in s..d : \E h \in DOMAIN rows :
                     \/ x = Day(rows[h].in)
                     \/ rows[h].out # None /\ x = Day(rows[h].out)}

NextOf(B, a) == CHOOSE b \in B : a < b /\ \A x \in B : a < x => b <= x

\* The share of tenant t in what was consumed from day a of B to the next one,
\* if in the room in the first night.
Portion(ns, B, a, t) ==
    IF (\E b \in B : a < b) /\ t \in ns[a + 1].who
    THEN HamiltonShare(Consumed(ns, NextOf(B, a)) - Consumed(ns, a),
                       ns[a + 1].who, t)
    ELSE 0

Portions(ns, B, t) == [a \in B |-> Portion(ns, B, a, t)]

Due(rows, ns, s, d, t) ==
    SumOf(Breaks(rows, s, d), Portions(ns, Breaks(rows, s, d), t))

LEMMA NextIs ==
    ASSUME NEW B, B \subseteq Nat, NEW a, \E b \in B : a < b
    PROVE  /\ NextOf(B, a) \in B /\ a < NextOf(B, a)
           /\ \A x \in B : a < x => NextOf(B, a) <= x
PROOF
<1>1. PICK S : S = {b \in B : a < b}
  OBVIOUS
<1>2. \E m \in S : \A y \in S : m <= y
  BY <1>1, LeastNatural
<1>3. \E b \in B : a < b /\ \A x \in B : a < x => b <= x
  BY <1>1, <1>2
<1>. QED BY <1>3 DEF NextOf

\* The meter does not go back.
LEMMA ConsumedGrows ==
    ASSUME NEW ns \in Seq(NightType), NEW b \in 0..Len(ns), NEW a \in 0..b
    PROVE  /\ Consumed(ns, a) \in Nat /\ Consumed(ns, b) \in Nat
           /\ Consumed(ns, a) <= Consumed(ns, b)
           /\ Consumed(ns, b) - Consumed(ns, a) \in Nat
PROOF
<1>1. Len(ns) \in Nat
  BY SeqParts
<1>2. a \in 0..Len(ns)
  BY <1>1
<1>3. PICK x, y, z : /\ x = Consumed(ns, a) /\ y = Consumed(ns, b)
                     /\ z = SumOf((a + 1)..b, UnitsOf(ns))
  OBVIOUS
<1>4. x \in Nat /\ y \in Nat
  BY <1>2, <1>3, ConsumedNat
<1>5. y = x + z /\ z \in Nat
  BY <1>3, ConsumedBetween
<1>6. x <= y /\ y - x \in Nat
  BY ONLY <1>4, <1>5
<1>. QED BY <1>3, <1>4, <1>6

LEMMA NoShare ==
    ASSUME NEW who \in SUBSET Tenants, NEW t \in who
    PROVE  HamiltonShare(0, who, t) = 0
PROOF
<1>1. PICK n : n = Cardinality(who)
  OBVIOUS
<1>2. n \in Nat \ {0}
  BY <1>1, TenantsAssumption, FS_Subset, FS_CardinalityType, FS_EmptySet
<1>3. 0 \div n = 0 /\ 0 % n = 0
  BY <1>2
<1>4. PICK r : r = Cardinality({u \in who : u < t})
  OBVIOUS
<1>5. r \in Nat
  <2>1. IsFiniteSet({u \in who : u < t})
    BY TenantsAssumption, FS_Subset
  <2>. QED BY <1>4, <2>1, FS_CardinalityType
<1>6. ~(r < 0)
  BY <1>5
<1>. QED BY <1>1, <1>3, <1>4, <1>6 DEF HamiltonShare

LEMMA PortionNat ==
    ASSUME NEW ns \in Seq(NightType), NEW B, B \subseteq 0..Len(ns),
           NEW a \in B, NEW t
    PROVE  Portion(ns, B, a, t) \in Nat
PROOF
<1>1. /\ Len(ns) \in Nat /\ DOMAIN ns = 1..Len(ns)
      /\ \A n \in DOMAIN ns : ns[n] \in NightType
  BY SeqParts
<1>2. CASE (\E b \in B : a < b) /\ t \in ns[a + 1].who
  <2>1. B \subseteq Nat
    BY <1>1
  <2>2. PICK b : b = NextOf(B, a)
    OBVIOUS
  <2>3. b \in B /\ a < b
    BY <1>2, <2>1, <2>2, NextIs
  <2>4. b \in 0..Len(ns) /\ a \in 0..b /\ a + 1 \in DOMAIN ns
    BY <1>1, <2>3
  <2>5. PICK c : c = Consumed(ns, b) - Consumed(ns, a)
    OBVIOUS
  <2>6. c \in Nat
    BY <2>4, <2>5, ConsumedGrows
  <2>7. ns[a + 1].who \in SUBSET Tenants
    BY <1>1, <2>4 DEF NightType
  <2>8. HamiltonShare(c, ns[a + 1].who, t) \in Nat
    BY <1>2, <2>6, <2>7, ShareNat
  <2>. QED BY <1>2, <2>2, <2>5, <2>8 DEF Portion
<1>3. CASE ~((\E b \in B : a < b) /\ t \in ns[a + 1].who)
  BY <1>3 DEF Portion
<1>. QED BY <1>2, <1>3

LEMMA LaterDay ==
    ASSUME NEW rs, DOMAIN rs \subseteq Nat, \A i \in DOMAIN rs : rs[i].at \in Nat,
           NEW i \in DOMAIN rs, NEW j \in DOMAIN rs
    PROVE  /\ Before(rs, i, j) => Day(rs[i].at) <= Day(rs[j].at)
           /\ Day(rs[i].at) < Day(rs[j].at) => Before(rs, i, j)
PROOF
<1>1. PICK a, b : a = rs[i].at /\ b = rs[j].at
  OBVIOUS
<1>2. a \in Nat /\ b \in Nat /\ Day(a) \in Nat /\ Day(b) \in Nat
  BY <1>1 DEF Day
<1>3. a <= b => Day(a) <= Day(b)
  BY <1>2, DaysInOrder
<1>4. b <= a => Day(b) <= Day(a)
  BY <1>2, DaysInOrder
<1>5. Before(rs, i, j) => a <= b
  BY <1>1, <1>2 DEF Before
<1>6. a < b => Before(rs, i, j)
  BY <1>1 DEF Before
<1>. QED BY <1>1, <1>2, <1>3, <1>4, <1>5, <1>6

\* The segments the engine makes of readings of exactly the days of B, if they
\* measure what the nights consumed and name who was there, charge a tenant
\* what is due.
Told(rs, ns, segs) ==
    /\ DOMAIN segs = {i \in DOMAIN rs : After(rs, i) # {}}
    /\ \A i \in DOMAIN segs :
          LET a == Day(rs[i].at)
              b == Day(rs[Following(rs, i)].at)
          IN  /\ segs[i].units \in Nat /\ segs[i].who \in SUBSET Tenants
              /\ segs[i].units + Consumed(ns, a) = Consumed(ns, b)
              /\ a < b /\ segs[i].units # 0 => segs[i].who = ns[a + 1].who

LEMMA LineIsDue ==
    ASSUME NEW rs, DOMAIN rs \subseteq Nat, IsFiniteSet(DOMAIN rs),
           \A i \in DOMAIN rs : rs[i].at \in Nat,
           NEW ns \in Seq(NightType), NEW s \in Nat, NEW e \in s..Len(ns),
           NEW B, B \subseteq s..e, s \in B, e \in B,
           \A i \in DOMAIN rs : Day(rs[i].at) \in B,
           \A x \in B : \E i \in DOMAIN rs : Day(rs[i].at) = x,
           NEW segs, Told(rs, ns, segs), NEW t \in Tenants
    PROVE  Line(segs, t) = SumOf(B, Portions(ns, B, t))
PROOF
<1>1. PICK D, dy, P :
       /\ D = DOMAIN rs /\ dy = [i \in DOMAIN rs |-> Day(rs[i].at)]
       /\ P = Portions(ns, B, t)
  OBVIOUS
<1>2. /\ Len(ns) \in Nat /\ DOMAIN ns = 1..Len(ns)
      /\ \A n \in DOMAIN ns : ns[n] \in NightType
  BY SeqParts
<1>3. /\ B \subseteq 0..Len(ns) /\ B \subseteq Nat /\ IsFiniteSet(B) /\ e \in Nat
  <2>1. e \in Nat /\ e <= Len(ns)
    BY <1>2
  <2>2. IsFiniteSet(s..e)
    <3>1. s \in Int /\ e \in Int
      BY <2>1
    <3>. QED BY <3>1, FS_Interval
  <2>3. B \subseteq 0..Len(ns) /\ B \subseteq Nat
    BY <1>2, <2>1
  <2>. QED BY <2>1, <2>2, <2>3, FS_Subset
<1>4. /\ \A i \in D : dy[i] = Day(rs[i].at) /\ dy[i] \in B
      /\ \A x \in B : \E i \in D : dy[i] = x
      /\ DOMAIN rs = D /\ D \subseteq Nat /\ IsFiniteSet(D)
      /\ \A i \in D : rs[i].at \in Nat
  BY <1>1
<1>5. \A a \in B : P[a] = Portion(ns, B, a, t) /\ P[a] \in Nat
  BY <1>1, <1>3, PortionNat DEF Portions
<1>6. PICK f : f = [i \in D |-> SumOf({x \in B : x < dy[i]}, P)]
  OBVIOUS
<1>7. \A i \in D : f[i] = SumOf({x \in B : x < dy[i]}, P) /\ f[i] \in Nat
  <2>1. \A i \in D : IsFiniteSet({x \in B : x < dy[i]})
    BY <1>3, FS_Subset
  <2>2. \A i \in D : \A x \in {x \in B : x < dy[i]} : P[x] \in Nat
    BY <1>5
  <2>3. \A i \in D : SumOf({x \in B : x < dy[i]}, P) \in Nat
    BY <2>1, <2>2, SumNat
  <2>. QED BY <1>6, <2>3
<1>8. PICK g : g = [i \in DOMAIN segs |->
                      IF t \in segs[i].who
                      THEN HamiltonShare(segs[i].units, segs[i].who, t) ELSE 0]
  OBVIOUS
<1>9. \A i \in DOMAIN segs :
         /\ g[i] \in Nat
         /\ t \in segs[i].who =>
               g[i] = HamiltonShare(segs[i].units, segs[i].who, t)
         /\ t \notin segs[i].who => g[i] = 0
  <2>1. \A i \in DOMAIN segs : segs[i].units \in Nat /\ segs[i].who \in SUBSET Tenants
    BY DEF Told
  <2>2. \A i \in DOMAIN segs : t \in segs[i].who =>
           HamiltonShare(segs[i].units, segs[i].who, t) \in Nat
    BY <2>1, ShareNat
  <2>. QED BY <1>8, <2>2
<1>10. PICK up : up = [i \in D |-> {i} \cup After(rs, i)]
  OBVIOUS
<1>11. \A i \in D : /\ up[i] = {i} \cup After(rs, i) /\ up[i] \in SUBSET D
                    /\ i \notin After(rs, i)
  <2>1. \A i \in D : ~Before(rs, i, i)
    BY <1>4, OneLine
  <2>. QED BY <1>4, <1>10, <2>1 DEF After
<1>12. D # {}
  BY <1>4
<1>13. PICK last \in D : After(rs, last) = {}
  BY <1>4, <1>12, LastOf
<1>14. PICK first \in D : \A k \in D \ {first} : Before(rs, first, k)
  <2>1. \E m1 \in D : \A k \in D \ {m1} : Before(rs, m1, k)
    BY <1>4, <1>12, FirstOf
  <2>. QED BY <2>1
<1>15. \A k \in D \ {last} : Before(rs, k, last)
  <2>1. \A k \in D : ~Before(rs, last, k)
    BY <1>4, <1>13 DEF After
  <2>. QED BY <1>4, <2>1, OneLine
<1>16. DOMAIN segs = D \ {last}
  <2>1. DOMAIN segs = {i \in D : After(rs, i) # {}}
    BY <1>4 DEF Told
  <2>2. \A k \in D \ {last} : last \in After(rs, k)
    BY <1>4, <1>15 DEF After
  <2>. QED BY <1>13, <2>1, <2>2
<1>17. \A i, j \in D : /\ Before(rs, i, j) => dy[i] <= dy[j]
                       /\ dy[i] < dy[j] => Before(rs, i, j)
  <2>1. ASSUME NEW i \in D, NEW j \in D
        PROVE  /\ Before(rs, i, j) => dy[i] <= dy[j]
               /\ dy[i] < dy[j] => Before(rs, i, j)
    <3>1. /\ Before(rs, i, j) => Day(rs[i].at) <= Day(rs[j].at)
          /\ Day(rs[i].at) < Day(rs[j].at) => Before(rs, i, j)
      BY <1>4, LaterDay
    <3>2. dy[i] = Day(rs[i].at) /\ dy[j] = Day(rs[j].at)
      BY <1>4
    <3>. QED BY <3>1, <3>2
  <2>. QED BY <2>1
<1>18. ASSUME NEW i \in D \ {last}
       PROVE  \E j \in D : up[j] = up[i] \ {i} /\ f[j] = f[i] + g[i]
  <2>1. After(rs, i) # {} /\ i \in DOMAIN segs /\ i \in D
    BY <1>16 DEF Told
  <2>2. PICK j : j = Following(rs, i)
    OBVIOUS
  <2>3. /\ j \in D /\ Before(rs, i, j)
        /\ \A k \in D : ~(Before(rs, i, k) /\ Before(rs, k, j))
        /\ {j} \cup After(rs, j) = After(rs, i)
    BY <1>4, <2>1, <2>2, FollowingIs
  <2>4. up[j] = up[i] \ {i}
    BY <1>11, <2>3
  <2>5. PICK a, b, u, w : /\ a = dy[i] /\ b = dy[j]
                          /\ u = segs[i].units /\ w = segs[i].who
    OBVIOUS
  <2>6. a \in B /\ b \in B /\ a \in Nat /\ b \in Nat /\ a <= b
    BY <1>3, <1>4, <1>17, <2>3, <2>5
  <2>7. /\ u \in Nat /\ w \in SUBSET Tenants
        /\ u + Consumed(ns, a) = Consumed(ns, b)
        /\ a < b /\ u # 0 => w = ns[a + 1].who
    BY <1>4, <2>1, <2>2, <2>3, <2>5 DEF Told
  <2>8. Consumed(ns, a) \in Nat /\ Consumed(ns, b) \in Nat
    BY <1>3, <2>6, ConsumedNat
  <2>9. /\ t \in w => g[i] = HamiltonShare(u, w, t)
        /\ t \notin w => g[i] = 0
    BY <1>9, <2>1, <2>5
  <2>10. u = 0 => g[i] = 0
    BY <2>7, <2>9, NoShare
  <2>11. CASE a = b
    <3>1. u = 0
      BY <2>7, <2>8, <2>11
    <3>2. f[j] = f[i]
      BY <1>7, <2>1, <2>3, <2>5, <2>11
    <3>3. f[i] \in Nat
      BY <1>7
    <3>4. f[j] = f[i] + g[i]
      BY <2>10, <3>1, <3>2, <3>3
    <3>. QED BY <2>3, <2>4, <3>4
  <2>12. CASE a < b
    <3>1. \A x \in B : ~(a < x /\ x < b)
      <4>1. SUFFICES ASSUME NEW x \in B, a < x, x < b PROVE FALSE
        OBVIOUS
      <4>2. PICK k \in D : dy[k] = x
        BY <1>4
      <4>3. Before(rs, i, k) /\ Before(rs, k, j)
        BY <1>17, <2>3, <2>5, <4>1, <4>2
      <4>. QED BY <2>3, <4>3
    <3>2. NextOf(B, a) = b
      <4>1. PICK m : m = NextOf(B, a)
        OBVIOUS
      <4>2. m \in B /\ a < m /\ m <= b
        BY <1>3, <2>6, <2>12, <4>1, NextIs
      <4>3. ~(m < b) /\ m \in Nat
        BY <1>3, <3>1, <4>2
      <4>. QED BY <2>6, <4>1, <4>2, <4>3
    <3>3. a + 1 \in DOMAIN ns /\ ns[a + 1].who \in SUBSET Tenants
      <4>1. a + 1 \in DOMAIN ns
        BY <1>2, <1>3, <2>6, <2>12
      <4>. QED BY <1>2, <4>1 DEF NightType
    <3>4. u = Consumed(ns, b) - Consumed(ns, a)
      BY <2>7, <2>8
    <3>5. \E x \in B : a < x
      BY <2>6, <2>12
    <3>6. /\ t \in ns[a + 1].who => P[a] = HamiltonShare(u, ns[a + 1].who, t)
          /\ t \notin ns[a + 1].who => P[a] = 0
      BY <1>5, <2>6, <3>2, <3>4, <3>5 DEF Portion
    <3>7. u = 0 => P[a] = 0
      BY <3>3, <3>6, NoShare
    <3>8. P[a] = g[i]
      BY <2>7, <2>9, <2>10, <2>12, <3>6, <3>7
    <3>9. {x \in B : x < b} = {x \in B : x < a} \cup {a}
      BY <1>3, <2>6, <2>12, <3>1
    <3>10. PICK S : S = {x \in B : x < a}
      OBVIOUS
    <3>11. IsFiniteSet(S) /\ a \notin S /\ \A x \in S \cup {a} : P[x] \in Nat
      BY <1>3, <1>5, <2>6, <3>10, FS_Subset
    <3>12. SumOf(S \cup {a}, P) = SumOf(S, P) + P[a]
      BY <3>11, SumAdd
    <3>13. f[i] = SumOf(S, P) /\ f[j] = SumOf(S \cup {a}, P)
      BY <1>7, <2>1, <2>3, <2>5, <3>9, <3>10
    <3>. QED BY <2>3, <2>4, <3>8, <3>12, <3>13
  <2>. QED BY <2>6, <2>11, <2>12
<1>19. Climbs(D, up, f, g, last)
  <2>1. \A i \in D : up[i] \in SUBSET D /\ i \in up[i] /\ f[i] \in Nat
    BY <1>7, <1>11
  <2>2. up[last] = {last}
    BY <1>11, <1>13
  <2>3. \A i \in D \ {last} : g[i] \in Nat
    BY <1>9, <1>16
  <2>. QED BY <1>18, <2>1, <2>2, <2>3 DEF Climbs
<1>20. f[last] = f[first] + SumOf(D \ {last}, g)
  <2>1. f[last] = f[first] + SumOf(up[first] \ {last}, g)
    BY <1>4, <1>19, Climbed
  <2>2. up[first] = D
    BY <1>4, <1>11, <1>14 DEF After
  <2>. QED BY <2>1, <2>2
<1>21. dy[first] = s
  <2>1. PICK k \in D : dy[k] = s
    BY <1>4
  <2>2. first = k \/ Before(rs, first, k)
    BY <1>14
  <2>3. dy[first] \in s..e
    BY <1>4
  <2>4. dy[first] <= s
    BY <1>17, <2>1, <2>2, <2>3
  <2>. QED BY <1>3, <2>3, <2>4
<1>22. dy[last] = e
  <2>1. PICK k \in D : dy[k] = e
    BY <1>4
  <2>2. last = k \/ Before(rs, k, last)
    BY <1>15
  <2>3. dy[last] \in s..e
    BY <1>4
  <2>4. e <= dy[last]
    BY <1>3, <1>17, <2>1, <2>2
  <2>. QED BY <1>3, <2>3, <2>4
<1>23. /\ \A x \in B : x \in Int /\ s <= x /\ x <= e /\ ~(x < s) /\ ~(e < x)
       /\ \A x \in B : x < e <=> x # e
  <2>1. e \in Nat
    BY <1>3
  <2>2. \A x \in s..e : x \in Int /\ s <= x /\ x <= e /\ ~(x < s) /\ ~(e < x)
                        /\ (x < e <=> x # e)
    BY ONLY <2>1, s \in Nat
  <2>. QED BY <2>2
<1>24. f[first] = 0
  <2>1. {x \in B : x < s} = {}
    BY <1>23
  <2>. QED BY <1>7, <1>21, <2>1, SumEmpty
<1>25. SumOf(B, P) = f[last]
  <2>1. {x \in B : x < e} = B \ {e}
    BY <1>23
  <2>2. P[e] = 0
    <3>1. ~\E b \in B : e < b
      BY <1>3
    <3>. QED BY <1>5, <3>1 DEF Portion
  <2>3. SumOf(B, P) = SumOf(B \ {e}, P) + P[e]
    BY <1>3, <1>5, SumRemove
  <2>4. f[last] = SumOf(B \ {e}, P) /\ f[last] \in Nat
    BY <1>7, <1>22, <2>1
  <2>. QED BY <2>2, <2>3, <2>4
<1>26. Line(segs, t) = SumOf(DOMAIN segs, g)
  <2>1. PICK S : S = {k \in DOMAIN segs : t \in segs[k].who}
    OBVIOUS
  <2>2. \A k \in S : g[k] = HamiltonShare(segs[k].units, segs[k].who, t)
    BY <1>9, <2>1
  <2>3. Line(segs, t) = SumOf(S, g)
    BY <2>1, <2>2, LineIsSum
  <2>4. IsFiniteSet(DOMAIN segs)
    BY <1>4, <1>16, FS_Subset
  <2>5. \A k \in DOMAIN segs : g[k] \in Nat /\ (k \notin S => g[k] = 0)
    BY <1>9, <2>1
  <2>6. S \in SUBSET DOMAIN segs
    BY <2>1
  <2>. QED BY <2>3, <2>4, <2>5, <2>6, SumSupport
<1>27. SumOf(DOMAIN segs, g) \in Nat
  <2>1. IsFiniteSet(DOMAIN segs)
    BY <1>4, <1>16, FS_Subset
  <2>. QED BY <1>9, <2>1, SumNat
<1>. QED BY <1>1, <1>16, <1>20, <1>24, <1>25, <1>26, <1>27

\* Comparing meter values tells who was there in the nights from day a to day
\* b, if the meter moved and nobody came or went in between: u came on day
\* come[u], at the meter value in[u], and went on day gone[u], at out[u].
Distinct(W, come, gone, s, a, b, e, bill, value, in, out, there) ==
    /\ W \in SUBSET Tenants
    /\ \A u \in W : come[u] \in Nat /\ gone[u] \in Nat \cup {None}
    /\ s \in Nat /\ a \in Nat /\ b \in Nat /\ e \in Nat
    /\ s <= a /\ a < b /\ b <= e
    /\ \A u : u \in bill <=> /\ u \in W /\ come[u] < e
                             /\ gone[u] # None => s < gone[u]
    /\ \A x \in s..e : value[x] \in Nat
    /\ \A x, y \in s..e : x <= y => value[x] <= value[y]
    /\ value[a] < value[b]
    /\ \A u \in bill : in[u] = IF come[u] <= s THEN value[s]
                               ELSE value[come[u]]
    /\ \A u \in bill : out[u] = IF gone[u] # None /\ gone[u] <= e
                                THEN value[gone[u]] ELSE None
    /\ \A u \in bill : /\ come[u] <= a \/ b <= come[u]
                       /\ gone[u] # None => gone[u] <= a \/ b <= gone[u]
    /\ there \subseteq Tenants
    /\ \A u \in Tenants :
          u \in there <=> /\ u \in W /\ come[u] < a + 1
                          /\ gone[u] # None => a + 1 <= gone[u]

LEMMA WhoWasThere ==
    ASSUME NEW W, NEW come, NEW gone, NEW s, NEW a, NEW b, NEW e, NEW bill,
           NEW value, NEW in, NEW out, NEW there,
           Distinct(W, come, gone, s, a, b, e, bill, value, in, out, there)
    PROVE  \A u : u \in there <=>
              u \in bill /\ ActiveAt(value[a], in[u], out[u])
PROOF
<1>0. /\ W \in SUBSET Tenants
      /\ \A u \in W : come[u] \in Nat /\ gone[u] \in Nat \cup {None}
      /\ s \in Nat /\ a \in Nat /\ b \in Nat /\ e \in Nat
      /\ s <= a /\ a < b /\ b <= e
      /\ \A u : u \in bill <=> /\ u \in W /\ come[u] < e
                               /\ gone[u] # None => s < gone[u]
      /\ \A x \in s..e : value[x] \in Nat
      /\ \A x, y \in s..e : x <= y => value[x] <= value[y]
      /\ value[a] < value[b]
      /\ \A u \in bill : in[u] = IF come[u] <= s THEN value[s]
                                 ELSE value[come[u]]
      /\ \A u \in bill : out[u] = IF gone[u] # None /\ gone[u] <= e
                                  THEN value[gone[u]] ELSE None
      /\ \A u \in bill : /\ come[u] <= a \/ b <= come[u]
                         /\ gone[u] # None => gone[u] <= a \/ b <= gone[u]
      /\ there \subseteq Tenants
      /\ \A u \in Tenants :
            u \in there <=> /\ u \in W /\ come[u] < a + 1
                            /\ gone[u] # None => a + 1 <= gone[u]
  BY Zenon DEF Distinct
<1>1. /\ a \in s..e /\ b \in s..e /\ s \in s..e /\ e \in s..e
      /\ value[a] \in Nat /\ value[b] \in Nat /\ value[s] \in Nat
      /\ value[s] <= value[a]
  <2>1. a \in s..e /\ b \in s..e /\ s \in s..e /\ e \in s..e
    BY <1>0
  <2>. QED BY <1>0, <2>1
<1>2. ASSUME NEW u \in there PROVE u \in bill
  <2>1. u \in W /\ come[u] < a + 1 /\ (gone[u] # None => a + 1 <= gone[u])
    BY <1>0
  <2>2. come[u] \in Nat /\ gone[u] \in Nat \cup {None}
    BY <1>0, <2>1
  <2>3. come[u] < e
    BY <1>0, <2>1, <2>2
  <2>4. gone[u] # None => s < gone[u]
    BY <1>0, <2>1, <2>2 DEF None
  <2>. QED BY <1>0, <2>1, <2>3, <2>4
<1>3. ASSUME NEW u \in bill
      PROVE  ActiveAt(value[a], in[u], out[u]) <=> u \in there
  <2>1. /\ u \in W /\ u \in Tenants /\ come[u] < e
        /\ gone[u] # None => s < gone[u]
        /\ come[u] \in Nat /\ gone[u] \in Nat \cup {None}
    BY <1>0
  <2>2. PICK c, g : c = come[u] /\ g = gone[u]
    OBVIOUS
  <2>3. in[u] # None /\ (in[u] <= value[a] <=> c < a + 1)
    <3>1. CASE c <= s
      <4>1. in[u] = value[s] /\ c < a + 1
        BY <1>0, <2>1, <2>2, <3>1
      <4>. QED BY <1>0, <1>1, <4>1 DEF None
    <3>2. CASE ~(c <= s)
      <4>1. c \in s..e /\ in[u] = value[c] /\ value[c] \in Nat
        BY <1>0, <2>1, <2>2, <3>2
      <4>2. CASE c <= a
        <5>1. value[c] <= value[a]
          BY <1>0, <1>1, <4>1, <4>2
        <5>. QED BY <1>0, <2>1, <2>2, <4>1, <4>2, <5>1 DEF None
      <4>3. CASE b <= c
        <5>1. value[b] <= value[c]
          BY <1>0, <1>1, <4>1, <4>3
        <5>2. ~(value[c] <= value[a])
          BY <1>0, <1>1, <4>1, <5>1
        <5>. QED BY <1>0, <2>1, <2>2, <4>1, <4>3, <5>2 DEF None
      <4>. QED BY <1>0, <2>2, <4>2, <4>3
    <3>. QED BY <1>0, <3>1, <3>2
  <2>4. (out[u] # None => out[u] > value[a]) <=> (g # None => a + 1 <= g)
    <3>1. CASE g # None /\ g <= e
      <4>1. g \in s..e /\ g \in Nat
        BY <1>0, <2>1, <2>2, <3>1
      <4>2. out[u] = value[g] /\ value[g] \in Nat /\ out[u] # None
        BY <1>0, <2>2, <3>1, <4>1 DEF None
      <4>3. CASE g <= a
        <5>1. value[g] <= value[a]
          BY <1>0, <1>1, <4>1, <4>3
        <5>. QED BY <1>0, <1>1, <3>1, <4>1, <4>2, <4>3, <5>1
      <4>4. CASE b <= g
        <5>1. value[b] <= value[g]
          BY <1>0, <1>1, <4>1, <4>4
        <5>. QED BY <1>0, <1>1, <3>1, <4>1, <4>2, <4>4, <5>1
      <4>. QED BY <1>0, <2>2, <3>1, <4>3, <4>4
    <3>2. CASE ~(g # None /\ g <= e)
      <4>1. out[u] = None
        BY <1>0, <2>2, <3>2
      <4>2. g # None => a + 1 <= g
        BY <1>0, <2>1, <2>2, <3>2
      <4>. QED BY <1>0, <4>1, <4>2
    <3>. QED BY <1>0, <3>1, <3>2
  <2>5. u \in there <=> c < a + 1 /\ (g # None => a + 1 <= g)
    BY <1>0, <2>1, <2>2
  <2>. QED BY <1>0, <2>3, <2>4, <2>5 DEF ActiveAt
<1>. QED BY <1>0, <1>2, <1>3

-----------------------------------------------------------------------------
(* Rows of stays that tell who was there                                    *)

\* Nobody came back to the room.
Single(rows) ==
    \A g, h \in DOMAIN rows : rows[g].tenant = rows[h].tenant => g = h

\* The night was spent in the room.
Spent(row, n) ==
    Day(row.in) < n /\ (row.out # None => n <= Day(row.out))

\* A stay begins with the reservation's date or later, unless it is another.
Since(rows, js) ==
    Single(rows) => \A h \in DOMAIN rows : js[rows[h].tenant] <= rows[h].in

\* The rows are of days so far and are true to the nights.
RowsTell(rows, ns, js) ==
    /\ Since(rows, js)
    /\ \A h \in DOMAIN rows :
          /\ Day(rows[h].in) <= Len(ns)
          /\ rows[h].out # None => /\ Day(rows[h].in) <= Day(rows[h].out)
                                   /\ Day(rows[h].out) <= Len(ns)
    /\ \A n \in DOMAIN ns : \A t \in Tenants :
          t \in ns[n].who <=> \E h \in DOMAIN rows : /\ rows[h].tenant = t
                                                     /\ Spent(rows[h], n)

LEMMA RowsAre ==
    ASSUME NEW rows \in Seq(Row)
    PROVE  /\ DOMAIN rows \subseteq Nat
           /\ \A h \in DOMAIN rows :
                 /\ rows[h].tenant \in Tenants
                 /\ rows[h].in \in Nat /\ rows[h].in # None /\ Day(rows[h].in) \in Nat
                 /\ rows[h].out # None =>
                       rows[h].out \in Nat /\ Day(rows[h].out) \in Nat
PROOF
<1>1. /\ DOMAIN rows = 1..Len(rows) /\ Len(rows) \in Nat
      /\ \A h \in DOMAIN rows : rows[h] \in Row
  BY SeqParts
<1>2. ASSUME NEW h \in DOMAIN rows
      PROVE  /\ rows[h].tenant \in Tenants
             /\ rows[h].in \in Nat /\ rows[h].in # None /\ Day(rows[h].in) \in Nat
             /\ rows[h].out # None =>
                   rows[h].out \in Nat /\ Day(rows[h].out) \in Nat
  <2>1. /\ rows[h].tenant \in Tenants /\ rows[h].in \in Instants
        /\ rows[h].out \in Instants \cup {None}
    BY <1>1 DEF Row
  <2>. QED BY <2>1, InstantNat
<1>. QED BY <1>1, <1>2

\* The one row of a tenant.
LEMMA RowIs ==
    ASSUME stays \in Seq(Row), Single(stays), NEW h \in DOMAIN stays,
           NEW t, t = stays[h].tenant
    PROVE  /\ RowsOf(t) = {h}
           /\ Assigned(t) <=> stays[h].status # "transferred"
           /\ MoveOutDate(t) = IF stays[h].status = "completed"
                               THEN stays[h].out ELSE None
PROOF
<1>1. RowsOf(t) = {h}
  BY DEF RowsOf, Single
<1>2. h \in Nat
  BY RowsAre
<1>3. Max({h}) = h
  BY <1>2 DEF Max
<1>4. Assigned(t) <=> stays[h].status # "transferred"
  BY <1>1, <1>3 DEF Assigned
<1>5. MoveOutDate(t) = IF stays[h].status = "completed"
                       THEN stays[h].out ELSE None
  BY <1>1, <1>3 DEF MoveOutDate
<1>. QED BY <1>1, <1>4, <1>5

LEMMA RowForIs ==
    ASSUME stays \in Seq(Row), Single(stays), NEW h \in DOMAIN stays,
           NEW t, t = stays[h].tenant, NEW start, NEW end
    PROVE  RowFor(t, start, end) = h /\ Came(t, start, end) = stays[h].in
PROOF
<1>1. RowsOf(t) = {h}
  BY RowIs
<1>2. h \in Nat /\ stays[h].in \in Nat
  BY RowsAre
<1>3. Min({h}) = h
  BY <1>2 DEF Min
<1>4. RowFor(t, start, end) = h
  <2>1. PICK over : over = {g \in RowsOf(t) : Overlaps(g, start, end)}
    OBVIOUS
  <2>2. over = {} \/ over = {h}
    BY <1>1, <2>1
  <2>3. \A g \in {h} : stays[g].in <= stays[h].in
    BY <1>2
  <2>4. (CHOOSE x \in {h} : \A g \in {h} : stays[g].in <= stays[x].in) = h
    BY <2>3
  <2>. QED BY <1>1, <1>3, <2>1, <2>2, <2>4, Zenon DEF RowFor
<1>. QED BY <1>4 DEF Came

\* Whom the engine bills, if nobody came back.
LEMMA BillableIs ==
    ASSUME IInv, Single(stays), RowsTell(stays, nights, joined),
           NEW start \in Nat, NEW end \in Nat, NEW departing,
           \A h \in DOMAIN stays :
              stays[h].tenant = departing => stays[h].status = "active",
           NEW t
    PROVE  t \in Billable(start, end, departing) <=>
              /\ t \in Tenants
              /\ \E h \in DOMAIN stays :
                    /\ stays[h].tenant = t /\ Day(stays[h].in) < Day(end)
                    /\ Went(t, start, end, departing) # None
                          => Day(start) < Day(Went(t, start, end, departing))
PROOF
<1>1. stays \in Seq(Row) /\ joined \in [Tenants -> Instants \cup {None}] /\ StayInv
  BY DEF IInv, Documents
<1>2. Day(start) \in Nat /\ Day(end) \in Nat
  BY DEF Day
<1>3. ASSUME NEW h \in DOMAIN stays, stays[h].tenant = t
      PROVE  t \in Billable(start, end, departing) <=>
                /\ Day(stays[h].in) < Day(end)
                /\ Went(t, start, end, departing) # None
                      => Day(start) < Day(Went(t, start, end, departing))
  <2>1. PICK in, out, went : /\ in = stays[h].in /\ out = stays[h].out
                             /\ went = Went(t, start, end, departing)
    OBVIOUS
  <2>2. /\ RowsOf(t) = {h} /\ RowFor(t, start, end) = h
        /\ Came(t, start, end) = in
        /\ went = IF t = departing THEN end ELSE out
        /\ Assigned(t) <=> stays[h].status # "transferred"
        /\ MoveOutDate(t) = IF stays[h].status = "completed"
                            THEN out ELSE None
    <3>1. t = stays[h].tenant
      BY <1>3
    <3>2. /\ RowsOf(t) = {h}
          /\ Assigned(t) <=> stays[h].status # "transferred"
          /\ MoveOutDate(t) = IF stays[h].status = "completed"
                              THEN stays[h].out ELSE None
      BY <1>1, <3>1, RowIs
    <3>3. RowFor(t, start, end) = h /\ Came(t, start, end) = stays[h].in
      BY <1>1, <3>1, RowForIs
    <3>4. Went(t, start, end, departing)
          = IF t = departing THEN end ELSE stays[h].out
      BY <3>3 DEF Went
    <3>. QED BY <2>1, <3>2, <3>3, <3>4
  <2>3. /\ t \in Tenants /\ in \in Nat /\ Day(in) \in Nat
        /\ out # None => out \in Nat /\ Day(out) \in Nat
    BY <1>1, <1>3, <2>1, RowsAre
  <2>4. (stays[h].status = "active") = (out = None)
    BY <1>1, <2>1 DEF StayInv
  <2>5. joined[t] <= in /\ joined[t] \in Int
    <3>1. joined[t] \in Instants \cup {None}
      BY <1>1, <2>3
    <3>2. joined[t] \in Int
      BY <3>1, InstantNat DEF None
    <3>. QED BY <1>3, <2>1, <3>2 DEF RowsTell, Since
  <2>6. Day(end) \in Nat /\ (Day(in) < Day(end) => in < end)
    BY <1>2, <2>3, DaysInOrder
  <2>7. out # None /\ Day(start) < Day(out) => start < out
    BY <1>2, <2>3, DaysInOrder
  <2>8. t \in Billable(start, end, departing) <=>
           /\ t \in Participants(start, end)
           /\ Day(in) < Day(end)
           /\ went # None => Day(went) > Day(start)
    BY <2>1, <2>2, <2>3 DEF Billable
  <2>9. ASSUME Day(in) < Day(end), went # None => Day(start) < Day(went)
        PROVE  t \in Participants(start, end)
    <3>1. RowsOf(t) # {}
      BY <2>2
    <3>2. CASE stays[h].status # "transferred"
      <4>1. joined[t] < end
        BY <2>3, <2>5, <2>6, <2>9
      <4>2. stays[h].status = "completed" => out # None /\ t # departing
        BY <1>3, <2>4
      <4>3. stays[h].status = "completed" => start < out
        BY <2>2, <2>7, <2>9, <4>2
      <4>4. MoveOutDate(t) # None => MoveOutDate(t) > start
        BY <2>2, <2>3, <4>2, <4>3
      <4>. QED BY <2>2, <2>3, <3>1, <3>2, <4>1, <4>4 DEF Participants
    <3>3. CASE stays[h].status = "transferred"
      <4>1. out # None /\ t # departing
        BY <1>3, <2>4, <3>3
      <4>2. start < out /\ in < end
        BY <2>2, <2>6, <2>7, <2>9, <4>1
      <4>3. Overlaps(h, start, end)
        BY <2>1, <2>3, <4>1, <4>2 DEF Overlaps
      <4>. QED BY <2>2, <2>3, <3>1, <3>3, <4>3 DEF Participants
    <3>. QED BY <3>2, <3>3
  <2>10. went # None => Day(went) \in Nat
    BY <1>2, <2>2, <2>3
  <2>. QED BY <1>2, <2>1, <2>8, <2>9, <2>10
<1>4. ASSUME t \in Billable(start, end, departing)
      PROVE  t \in Tenants /\ \E h \in DOMAIN stays : stays[h].tenant = t
  BY <1>4 DEF Billable, Participants, RowsOf
<1>. QED BY <1>1, <1>3, <1>4, RowsAre

-----------------------------------------------------------------------------
(* What the engine makes of true readings                                   *)

\* What the meter shows on day d, if it showed from on day s and was not
\* replaced.
Shows(ns, s, from, d) == from + (Consumed(ns, d) - Consumed(ns, s))

\* The readings given to a computation: they begin and end with the cycle,
\* and consecutive ones measure what the nights between them consumed.
Tells(rs, ns, start, end, from) ==
    /\ DOMAIN rs \subseteq Nat /\ IsFiniteSet(DOMAIN rs)
    /\ \A i \in DOMAIN rs : /\ rs[i].at \in Nat /\ rs[i].value \in Nat
                            /\ Upto(rs[i]) \in Nat
                            /\ start <= rs[i].at /\ rs[i].at <= end
    /\ \E i \in DOMAIN rs : rs[i].at = start
    /\ \E i \in DOMAIN rs : rs[i].at = end
    /\ \A i, j \in DOMAIN rs :
          /\ Before(rs, i, j)
          /\ \A k \in DOMAIN rs : ~(Before(rs, i, k) /\ Before(rs, k, j))
          => /\ Upto(rs[j]) + Consumed(ns, Day(rs[i].at))
                = rs[i].value + Consumed(ns, Day(rs[j].at))
             /\ Day(rs[i].at) < Day(rs[j].at) =>
                   rs[i].value = Shows(ns, Day(start), from, Day(rs[i].at))

\* Those of comings and goings are of the days on which the tenants came and
\* went, and show what the meter did.
Moves(rs, ns, start, end, from, departing) ==
    \A i \in DOMAIN rs :
       LET t == rs[i].tenant
           shown == Day(start) < Day(rs[i].at) =>
                       rs[i].value = Shows(ns, Day(start), from, Day(rs[i].at))
       IN  /\ Day(rs[i].at) \in Breaks(stays, Day(start), Day(end))
           /\ rs[i].event = "moveIn" =>
                 Day(rs[i].at) = Day(Came(t, start, end)) /\ shown
           /\ rs[i].event = "moveOut" =>
                 /\ Went(t, start, end, departing) # None
                 /\ Day(rs[i].at) = Day(Went(t, start, end, departing)) /\ shown

LEMMA Earliest ==
    ASSUME NEW S, S # {}, NEW rs, \A i \in S : rs[i].at \in Nat
    PROVE  \E i \in S : \A j \in S : rs[i].at <= rs[j].at
PROOF
<1>1. PICK T : T = {rs[i].at : i \in S}
  OBVIOUS
<1>2. T \subseteq Nat /\ T # {}
  BY <1>1
<1>3. PICK m \in T : \A y \in T : m <= y
  BY <1>2, LeastNatural
<1>4. PICK i \in S : m = rs[i].at
  BY <1>1
<1>. QED BY <1>1, <1>3, <1>4

LEMMA Latest ==
    ASSUME NEW S, S # {}, IsFiniteSet(S), NEW rs, \A i \in S : rs[i].at \in Nat
    PROVE  \E i \in S : \A j \in S : rs[i].at >= rs[j].at
PROOF
<1>1. PICK T : T = {rs[i].at : i \in S}
  OBVIOUS
<1>2. T \subseteq Nat /\ T # {}
  BY <1>1
<1>3. IsFiniteSet(T)
  <2>1. PICK f : f = [i \in S |-> rs[i].at]
    OBVIOUS
  <2>2. f \in Surjection(S, T)
    BY <1>1, <2>1 DEF Surjection
  <2>. QED BY <2>2, FS_Surjection
<1>4. PICK m \in T : \A y \in T : y <= m
  BY <1>2, <1>3, Greatest
<1>5. PICK i \in S : m = rs[i].at
  BY <1>1
<1>6. \A j \in S : rs[j].at <= rs[i].at
  BY <1>1, <1>4, <1>5
<1>. QED BY <1>6

\* The meter value from which somebody pays is that of the day of arrival.
LEMMA InShown ==
    ASSUME NEW rs, NEW ns, NEW start \in Nat, NEW end \in Nat, NEW from,
           NEW departing,
           Tells(rs, ns, start, end, from),
           Moves(rs, ns, start, end, from, departing),
           ~Missing(rs, start, end, departing),
           NEW u \in Billable(start, end, departing),
           NEW in, in = Came(u, start, end), in \in Nat
    PROVE  InReading(rs, u, start, end, from)
           = IF Day(in) <= Day(start) THEN from
             ELSE Shows(ns, Day(start), from, Day(in))
PROOF
<1>1. Day(start) \in Nat /\ Day(end) \in Nat /\ Day(in) \in Nat
  BY DEF Day
<1>2. CASE Day(in) <= Day(start)
  BY <1>2 DEF InReading
<1>3. CASE ~(Day(in) <= Day(start))
  <2>1. PICK ins : ins = EventsOf(rs, u, "moveIn")
    OBVIOUS
  <2>2. \A i \in ins : /\ i \in DOMAIN rs /\ rs[i].tenant = u
                       /\ rs[i].event = "moveIn" /\ rs[i].at \in Nat
    BY <2>1 DEF EventsOf, Tells
  <2>3. \A i \in ins : Day(rs[i].at) = Day(in)
                       /\ rs[i].value = Shows(ns, Day(start), from, Day(in))
    <3>1. TAKE i \in ins
    <3>2. /\ Day(rs[i].at) = Day(Came(u, start, end))
          /\ Day(start) < Day(rs[i].at) =>
                rs[i].value = Shows(ns, Day(start), from, Day(rs[i].at))
      BY <2>2, Zenon DEF Moves
    <3>. QED BY <1>1, <1>3, <3>2
  <2>4. CameInside(u, start, end)
    <3>1. Day(in) < Day(end)
      BY DEF Billable
    <3>. QED BY <1>1, <1>3, <3>1 DEF CameInside
  <2>5. ins # {}
    BY <2>1, <2>4, Zenon DEF Missing
  <2>6. PICK first : first = CHOOSE i \in ins : \A j \in ins : rs[i].at <= rs[j].at
    OBVIOUS
  <2>7. first \in ins
    <3>1. \E i \in ins : \A j \in ins : rs[i].at <= rs[j].at
      BY <2>2, <2>5, Earliest
    <3>. QED BY <2>6, <3>1
  <2>8. InReading(rs, u, start, end, from) = rs[first].value
    <3>1. ~(Day(Came(u, start, end)) <= Day(start))
      BY <1>3
    <3>. QED BY <2>1, <2>5, <2>6, <3>1, Zenon DEF InReading
  <2>. QED BY <1>3, <2>3, <2>7, <2>8
<1>. QED BY <1>2, <1>3

\* The one up to which, that of the day of departure.
LEMMA OutShown ==
    ASSUME NEW rs, NEW ns, NEW start \in Nat, NEW end \in Nat, NEW from,
           NEW departing,
           Tells(rs, ns, start, end, from),
           Moves(rs, ns, start, end, from, departing),
           ~Missing(rs, start, end, departing),
           NEW u \in Billable(start, end, departing),
           NEW out, out = Went(u, start, end, departing), out \in Nat \cup {None}
    PROVE  /\ out # None /\ Day(out) <= Day(end) =>
                 OutReading(rs, u) = Shows(ns, Day(start), from, Day(out))
           /\ ~(out # None /\ Day(out) <= Day(end)) => OutReading(rs, u) = None
PROOF
<1>1. /\ Day(start) \in Nat /\ Day(end) \in Nat
      /\ out # None => Day(out) \in Nat
  BY DEF Day
<1>2. PICK outs : outs = EventsOf(rs, u, "moveOut")
  OBVIOUS
<1>3. \A i \in outs : /\ i \in DOMAIN rs /\ rs[i].tenant = u
                      /\ rs[i].event = "moveOut" /\ rs[i].at \in Nat
                      /\ rs[i].at <= end
  BY <1>2 DEF EventsOf, Tells
<1>4. \A i \in outs :
         /\ out # None /\ Day(rs[i].at) = Day(out)
         /\ Day(start) < Day(rs[i].at) =>
               rs[i].value = Shows(ns, Day(start), from, Day(rs[i].at))
  BY <1>3, Zenon DEF Moves
<1>5. CASE out # None /\ Day(out) <= Day(end)
  <2>1. Day(start) < Day(out)
    BY <1>1, <1>5 DEF Billable
  <2>2. WentInside(u, start, end, departing)
    BY <1>1, <1>5, <2>1 DEF WentInside
  <2>3. outs # {}
    BY <1>2, <2>2, Zenon DEF Missing
  <2>4. PICK last : last = CHOOSE i \in outs : \A j \in outs : rs[i].at >= rs[j].at
    OBVIOUS
  <2>5. last \in outs
    <3>1. IsFiniteSet(outs)
      BY <1>3, FS_Subset DEF Tells
    <3>2. \E i \in outs : \A j \in outs : rs[i].at >= rs[j].at
      BY <1>3, <2>3, <3>1, Latest
    <3>. QED BY <2>4, <3>2
  <2>6. OutReading(rs, u) = rs[last].value
    BY <1>2, <2>3, <2>4, Zenon DEF OutReading
  <2>. QED BY <1>4, <1>5, <2>1, <2>5, <2>6
<1>6. CASE ~(out # None /\ Day(out) <= Day(end))
  <2>1. outs = {}
    <3>1. SUFFICES ASSUME NEW i \in outs PROVE FALSE
      OBVIOUS
    <3>2. Day(rs[i].at) <= Day(end)
      BY <1>3, DaysInOrder
    <3>. QED BY <1>4, <1>6, <3>2
  <2>. QED BY <1>2, <1>6, <2>1 DEF OutReading
<1>. QED BY <1>5, <1>6

\* Every day on which somebody came or went is that of a reading: the engine
\* refuses to compute otherwise.
LEMMA Covered ==
    ASSUME IInv, Single(stays), RowsTell(stays, nights, joined),
           NEW start \in Nat, NEW end \in Nat, NEW departing,
           \A h \in DOMAIN stays :
              stays[h].tenant = departing => stays[h].status = "active",
           NEW rs, NEW ns, NEW from, Tells(rs, ns, start, end, from),
           ~Missing(rs, start, end, departing),
           NEW x \in Breaks(stays, Day(start), Day(end))
    PROVE  \E i \in DOMAIN rs : Day(rs[i].at) = x
PROOF
<1>1. stays \in Seq(Row) /\ StayInv
  BY DEF IInv, Documents
<1>2. Day(start) \in Nat /\ Day(end) \in Nat
  BY DEF Day
<1>3. CASE x = Day(start)
  BY <1>3 DEF Tells
<1>4. CASE x = Day(end)
  BY <1>4 DEF Tells
<1>5. CASE x # Day(start) /\ x # Day(end)
  <2>1. /\ x \in Nat /\ Day(start) < x /\ x < Day(end)
        /\ \E h \in DOMAIN stays :
              \/ x = Day(stays[h].in)
              \/ stays[h].out # None /\ x = Day(stays[h].out)
    BY <1>2, <1>5 DEF Breaks
  <2>2. PICK h \in DOMAIN stays :
              \/ x = Day(stays[h].in)
              \/ stays[h].out # None /\ x = Day(stays[h].out)
    BY <2>1
  <2>3. PICK t, in, out : /\ t = stays[h].tenant /\ in = stays[h].in
                          /\ out = stays[h].out
    OBVIOUS
  <2>4. /\ t \in Tenants /\ in \in Nat /\ Day(in) \in Nat
        /\ out # None => out \in Nat /\ Day(out) \in Nat /\ Day(in) <= Day(out)
    BY <1>1, <2>3, RowsAre DEF RowsTell
  <2>5. Came(t, start, end) = in /\ RowFor(t, start, end) = h
    BY <1>1, <2>3, RowForIs
  <2>6. Went(t, start, end, departing) = IF t = departing THEN end ELSE out
    BY <2>3, <2>5 DEF Went
  <2>7. t = departing => out = None
    BY <1>1, <2>3 DEF StayInv
  <2>8. PICK went : went = Went(t, start, end, departing)
    OBVIOUS
  <2>9. went # None => Day(start) < Day(went)
    <3>1. CASE t = departing
      <4>1. went = end
        BY <2>6, <2>8, <3>1
      <4>. QED BY <1>2, <2>1, <4>1
    <3>2. CASE t # departing /\ out # None
      <4>1. went = out
        BY <2>6, <2>8, <3>2
      <4>. QED BY <1>2, <2>1, <2>2, <2>3, <2>4, <3>2, <4>1
    <3>3. CASE t # departing /\ out = None
      BY <2>6, <2>8, <3>3
    <3>. QED BY <3>1, <3>2, <3>3
  <2>10. Day(in) < Day(end)
    BY <1>2, <2>1, <2>2, <2>3, <2>4
  <2>11. t \in Billable(start, end, departing)
    <3>1. \E g \in DOMAIN stays :
            /\ stays[g].tenant = t /\ Day(stays[g].in) < Day(end)
            /\ Went(t, start, end, departing) # None
                  => Day(start) < Day(Went(t, start, end, departing))
      BY <2>3, <2>8, <2>9, <2>10
    <3>. QED BY <2>4, <3>1, BillableIs
  <2>12. CASE x = Day(in)
    <3>1. CameInside(t, start, end)
      BY <1>2, <2>1, <2>5, <2>12 DEF CameInside
    <3>2. \E i \in EventsOf(rs, t, "moveIn") : Day(rs[i].at) = Day(Came(t, start, end))
      BY <2>11, <3>1, Zenon DEF Missing
    <3>. QED BY <2>5, <2>12, <3>2 DEF EventsOf
  <2>13. CASE out # None /\ x = Day(out)
    <3>1. went = out
      BY <2>6, <2>7, <2>8, <2>13
    <3>2. WentInside(t, start, end, departing)
      BY <1>2, <2>1, <2>8, <2>13, <3>1 DEF WentInside
    <3>3. \E i \in EventsOf(rs, t, "moveOut") :
             Day(rs[i].at) = Day(Went(t, start, end, departing))
      BY <2>11, <3>2, Zenon DEF Missing
    <3>. QED BY <2>8, <2>13, <3>1, <3>3 DEF EventsOf
  <2>. QED BY <2>2, <2>3, <2>12, <2>13
<1>. QED BY <1>3, <1>4, <1>5

\* The days of those who were ever in the room: W came on the days come and
\* went on the days gone.
Known(W, come, gone, start, end, departing) ==
    /\ W \in SUBSET Tenants
    /\ \A u \in W :
          /\ come[u] \in Nat /\ gone[u] \in Nat \cup {None}
          /\ Came(u, start, end) \in Nat
          /\ come[u] = Day(Came(u, start, end))
          /\ Went(u, start, end, departing) \in Nat \cup {None}
          /\ Went(u, start, end, departing) = None <=> gone[u] = None
          /\ gone[u] # None => gone[u] = Day(Went(u, start, end, departing))
          /\ come[u] \in Day(start)..Day(end) =>
                come[u] \in Breaks(stays, Day(start), Day(end))
          /\ gone[u] \in Day(start)..Day(end) =>
                gone[u] \in Breaks(stays, Day(start), Day(end))
    /\ \A u : u \in Billable(start, end, departing) <=>
          /\ u \in W /\ come[u] < Day(end)
          /\ gone[u] # None => Day(start) < gone[u]
    /\ \A n \in 1..Day(end) : \A u \in Tenants :
          u \in nights[n].who <=> /\ u \in W /\ come[u] < n
                                  /\ gone[u] # None => n <= gone[u]

LEMMA DaysKnown ==
    ASSUME IInv, Single(stays), RowsTell(stays, nights, joined),
           nights \in Seq(NightType),
           NEW start \in Nat, NEW end \in Nat, Day(end) <= Len(nights),
           NEW departing,
           \A h \in DOMAIN stays :
              stays[h].tenant = departing => stays[h].status = "active"
    PROVE  \E W, come, gone : Known(W, come, gone, start, end, departing)
PROOF
<1>1. stays \in Seq(Row) /\ StayInv
  BY DEF IInv, Documents
<1>2. /\ Day(start) \in Nat /\ Day(end) \in Nat
      /\ Len(nights) \in Nat /\ DOMAIN nights = 1..Len(nights)
  BY SeqParts DEF Day
<1>3. PICK W : W = {u \in Tenants : \E h \in DOMAIN stays : stays[h].tenant = u}
  OBVIOUS
<1>4. PICK row : row = [u \in W |-> CHOOSE h \in DOMAIN stays : stays[h].tenant = u]
  OBVIOUS
<1>5. \A u \in W : row[u] \in DOMAIN stays /\ stays[row[u]].tenant = u
  BY <1>3, <1>4
<1>6. PICK come, gone :
        /\ come = [u \in W |-> Day(stays[row[u]].in)]
        /\ gone = [u \in W |-> IF u = departing THEN Day(end)
                               ELSE IF stays[row[u]].out = None THEN None
                               ELSE Day(stays[row[u]].out)]
  OBVIOUS
<1>7. ASSUME NEW u \in W
      PROVE  /\ come[u] = Day(stays[row[u]].in)
             /\ u = departing => /\ gone[u] = Day(end)
                                 /\ stays[row[u]].out = None
                                 /\ Went(u, start, end, departing) = end
             /\ u # departing =>
                   /\ Went(u, start, end, departing) = stays[row[u]].out
                   /\ stays[row[u]].out = None => gone[u] = None
                   /\ stays[row[u]].out # None => gone[u] = Day(stays[row[u]].out)
             /\ Came(u, start, end) = stays[row[u]].in
             /\ stays[row[u]].in \in Nat /\ Day(stays[row[u]].in) \in Nat
             /\ stays[row[u]].out # None =>
                   /\ stays[row[u]].out \in Nat /\ Day(stays[row[u]].out) \in Nat
  <2>1. PICK h \in DOMAIN stays : h = row[u] /\ stays[h].tenant = u
    BY <1>5
  <2>2. RowFor(u, start, end) = h /\ Came(u, start, end) = stays[h].in
    BY <1>1, <2>1, RowForIs
  <2>3. u = departing => stays[h].out = None
    BY <1>1, <2>1 DEF StayInv
  <2>4. /\ u = departing => Went(u, start, end, departing) = end
        /\ u # departing => Went(u, start, end, departing) = stays[h].out
    BY <2>2 DEF Went
  <2>5. /\ stays[h].in \in Nat /\ Day(stays[h].in) \in Nat
        /\ stays[h].out # None => stays[h].out \in Nat /\ Day(stays[h].out) \in Nat
    BY <1>1, RowsAre
  <2>6. /\ come[u] = Day(stays[h].in)
        /\ u = departing => gone[u] = Day(end)
        /\ u # departing /\ stays[h].out = None => gone[u] = None
        /\ u # departing /\ stays[h].out # None => gone[u] = Day(stays[h].out)
    BY <1>6, <2>1
  <2>. QED BY <2>1, <2>2, <2>3, <2>4, <2>5, <2>6
<1>8. \A d \in Nat : d # None
  BY DEF None
<1>9. ASSUME NEW u \in W
      PROVE  /\ come[u] \in Nat /\ gone[u] \in Nat \cup {None}
             /\ Came(u, start, end) \in Nat
             /\ come[u] = Day(Came(u, start, end))
             /\ Went(u, start, end, departing) \in Nat \cup {None}
             /\ Went(u, start, end, departing) = None <=> gone[u] = None
             /\ gone[u] # None => gone[u] = Day(Went(u, start, end, departing))
             /\ come[u] \in Day(start)..Day(end) =>
                   come[u] \in Breaks(stays, Day(start), Day(end))
             /\ gone[u] \in Day(start)..Day(end) =>
                   gone[u] \in Breaks(stays, Day(start), Day(end))
  <2>1. PICK h \in DOMAIN stays : h = row[u]
    BY <1>5
  <2>2. PICK s, e : s = Day(start) /\ e = Day(end)
    OBVIOUS
  <2>3. come[u] \in s..e => come[u] \in Breaks(stays, s, e)
    BY <1>7, <2>1 DEF Breaks
  <2>4. gone[u] \in s..e => gone[u] \in Breaks(stays, s, e)
    <3>1. CASE u = departing
      BY <1>7, <2>2, <3>1 DEF Breaks
    <3>2. CASE u # departing /\ stays[h].out # None
      BY <1>7, <2>1, <3>2 DEF Breaks
    <3>3. CASE u # departing /\ stays[h].out = None
      <4>1. gone[u] = None
        BY <1>7, <2>1, <3>3
      <4>2. s \in Nat
        BY <1>2, <2>2
      <4>. QED BY <4>1, <4>2 DEF None
    <3>. QED BY <3>1, <3>2, <3>3
  <2>5. /\ come[u] \in Nat /\ Came(u, start, end) \in Nat
        /\ come[u] = Day(Came(u, start, end))
    BY <1>7
  <2>6. /\ gone[u] \in Nat \cup {None}
        /\ Went(u, start, end, departing) \in Nat \cup {None}
        /\ Went(u, start, end, departing) = None <=> gone[u] = None
        /\ gone[u] # None => gone[u] = Day(Went(u, start, end, departing))
    BY <1>2, <1>7, <1>8
  <2>. QED BY <2>2, <2>3, <2>4, <2>5, <2>6
<1>10. ASSUME NEW u
       PROVE  u \in Billable(start, end, departing) <=>
                 /\ u \in W /\ come[u] < Day(end)
                 /\ gone[u] # None => Day(start) < gone[u]
  <2>1. u \in Billable(start, end, departing) <=>
              /\ u \in Tenants
              /\ \E h \in DOMAIN stays :
                    /\ stays[h].tenant = u /\ Day(stays[h].in) < Day(end)
                    /\ Went(u, start, end, departing) # None
                          => Day(start) < Day(Went(u, start, end, departing))
    BY BillableIs
  <2>2. CASE u \in W
    <3>1. \A h \in DOMAIN stays : stays[h].tenant = u => h = row[u]
      BY <1>5, <2>2 DEF Single
    <3>2. row[u] \in DOMAIN stays /\ stays[row[u]].tenant = u /\ u \in Tenants
      BY <1>3, <1>5, <2>2
    <3>3. u \in Billable(start, end, departing) <=>
            /\ Day(stays[row[u]].in) < Day(end)
            /\ Went(u, start, end, departing) # None
                  => Day(start) < Day(Went(u, start, end, departing))
      BY <2>1, <3>1, <3>2
    <3>4. /\ come[u] = Day(stays[row[u]].in)
          /\ Went(u, start, end, departing) = None <=> gone[u] = None
          /\ gone[u] # None => gone[u] = Day(Went(u, start, end, departing))
      BY <1>7, <1>9, <2>2
    <3>. QED BY <2>2, <3>3, <3>4
  <2>3. CASE u \notin W
    BY <1>3, <2>1, <2>3
  <2>. QED BY <2>2, <2>3
<1>11. ASSUME NEW n \in 1..Day(end), NEW u \in Tenants
       PROVE  u \in nights[n].who <=> /\ u \in W /\ come[u] < n
                                      /\ gone[u] # None => n <= gone[u]
  <2>1. n \in DOMAIN nights /\ n \in Nat /\ n <= Day(end)
    BY <1>2
  <2>2. u \in nights[n].who <=> \E h \in DOMAIN stays :
           stays[h].tenant = u /\ Spent(stays[h], n)
    BY <2>1 DEF RowsTell
  <2>3. CASE u \notin W
    BY <1>3, <2>2, <2>3
  <2>4. CASE u \in W
    <3>1. u \in nights[n].who <=> Spent(stays[row[u]], n)
      BY <1>5, <2>2, <2>4 DEF Single
    <3>2. Spent(stays[row[u]], n) <=>
             /\ come[u] < n
             /\ stays[row[u]].out # None => n <= Day(stays[row[u]].out)
      BY <1>7, <2>4 DEF Spent
    <3>3. CASE u = departing
      <4>1. gone[u] = Day(end) /\ stays[row[u]].out = None
        BY <1>7, <2>4, <3>3
      <4>. QED BY <2>1, <2>4, <3>1, <3>2, <4>1
    <3>4. CASE u # departing /\ stays[row[u]].out = None
      BY <1>7, <2>4, <3>1, <3>2, <3>4
    <3>5. CASE u # departing /\ stays[row[u]].out # None
      <4>1. gone[u] = Day(stays[row[u]].out) /\ gone[u] \in Nat
        BY <1>7, <2>4, <3>5
      <4>. QED BY <1>8, <2>4, <3>1, <3>2, <3>5, <4>1
    <3>. QED BY <3>3, <3>4, <3>5
  <2>. QED BY <2>3, <2>4
<1>12. W \in SUBSET Tenants
  BY <1>3
<1>. QED BY <1>9, <1>10, <1>11, <1>12, Zenon DEF Known

\* The segment between two readings has those who were in the room in the
\* nights between them, unless nothing was consumed.
LEMMA SegmentNames ==
    ASSUME NEW W, NEW come, NEW gone, NEW start \in Nat, NEW end \in Nat,
           NEW departing, Known(W, come, gone, start, end, departing),
           NEW from \in Nat, NEW rs, nights \in Seq(NightType),
           Day(end) <= Len(nights),
           Tells(rs, nights, start, end, from),
           Moves(rs, nights, start, end, from, departing),
           ~Missing(rs, start, end, departing),
           \A x \in Breaks(stays, Day(start), Day(end)) :
              \E k \in DOMAIN rs : Day(rs[k].at) = x,
           NEW i \in DOMAIN rs, NEW j \in DOMAIN rs, Before(rs, i, j),
           \A k \in DOMAIN rs : ~(Before(rs, i, k) /\ Before(rs, k, j)),
           NEW a, a = Day(rs[i].at), NEW b, b = Day(rs[j].at), a < b,
           Consumed(nights, a) # Consumed(nights, b)
    PROVE  {u \in Billable(start, end, departing) :
              ActiveAt(rs[i].value, InReading(rs, u, start, end, from),
                       OutReading(rs, u))}
           = nights[a + 1].who
PROOF
<1>1. PICK s, e, bill, there :
        /\ s = Day(start) /\ e = Day(end)
        /\ bill = Billable(start, end, departing) /\ there = nights[a + 1].who
  OBVIOUS
<1>2. /\ s \in Nat /\ e \in Nat /\ Len(nights) \in Nat /\ e <= Len(nights)
      /\ DOMAIN nights = 1..Len(nights)
      /\ \A n \in DOMAIN nights : nights[n] \in NightType
  BY <1>1, SeqParts DEF Day
<1>3. /\ a \in Nat /\ b \in Nat /\ s <= a /\ b <= e
  <2>1. /\ rs[i].at \in Nat /\ rs[j].at \in Nat
        /\ start <= rs[i].at /\ rs[j].at <= end
    BY DEF Tells
  <2>2. a \in Nat /\ b \in Nat
    BY <2>1 DEF Day
  <2>3. s <= a
    BY <1>1, <2>1, DaysInOrder
  <2>4. b <= e
    BY <1>1, <2>1, DaysInOrder
  <2>. QED BY <2>2, <2>3, <2>4
<1>4. PICK value : value = [x \in s..e |-> Shows(nights, s, from, x)]
  OBVIOUS
<1>5. /\ \A x \in s..e : value[x] = Shows(nights, s, from, x) /\ value[x] \in Nat
      /\ \A x, y \in s..e : x <= y => value[x] <= value[y]
      /\ value[s] = from
      /\ \A x \in s..e : value[x] = from + (Consumed(nights, x) - Consumed(nights, s))
  <2>1. \A x \in s..e : /\ x \in 0..Len(nights) /\ s \in 0..x /\ s \in 0..Len(nights)
    BY <1>2
  <2>2. \A x \in s..e : /\ Consumed(nights, x) - Consumed(nights, s) \in Nat
                        /\ Consumed(nights, x) \in Nat
    BY <2>1, ConsumedGrows
  <2>3. \A x \in s..e :
           /\ value[x] = Shows(nights, s, from, x)
           /\ value[x] = from + (Consumed(nights, x) - Consumed(nights, s))
    BY <1>4 DEF Shows
  <2>4. \A x \in s..e : value[x] \in Nat
    BY <2>2, <2>3
  <2>5. ASSUME NEW x \in s..e, NEW y \in s..e, x <= y
        PROVE  value[x] <= value[y]
    <3>1. x \in 0..y /\ y \in 0..Len(nights)
      BY <1>2, <2>5
    <3>2. PICK p, q, r : /\ p = Consumed(nights, x) /\ q = Consumed(nights, y)
                         /\ r = Consumed(nights, s)
      OBVIOUS
    <3>3. p \in Nat /\ q \in Nat /\ p <= q
      BY <3>1, <3>2, ConsumedGrows
    <3>4. r \in Nat
      BY <2>1, <2>5, <3>2, ConsumedNat
    <3>5. value[x] = from + (p - r) /\ value[y] = from + (q - r)
      BY <2>3, <3>2
    <3>. QED BY <3>3, <3>4, <3>5
  <2>6. value[s] = from
    <3>1. s \in s..e
      BY <1>2, <1>3
    <3>2. PICK r : r = Consumed(nights, s)
      OBVIOUS
    <3>3. r \in Nat
      BY <2>1, <3>1, <3>2, ConsumedNat
    <3>4. value[s] = from + (r - r)
      BY <2>3, <3>1, <3>2
    <3>. QED BY <3>3, <3>4
  <2>. QED BY <2>3, <2>4, <2>5, <2>6
<1>6. a \in s..e /\ b \in s..e
  BY <1>2, <1>3
<1>7. value[a] < value[b]
  <2>1. PICK p, q, r : /\ p = Consumed(nights, a) /\ q = Consumed(nights, b)
                       /\ r = Consumed(nights, s)
    OBVIOUS
  <2>2. p \in Nat /\ q \in Nat /\ r \in Nat /\ p # q
    <3>1. a \in 0..Len(nights) /\ b \in 0..Len(nights) /\ s \in 0..Len(nights)
      BY <1>2, <1>3
    <3>. QED BY <2>1, <3>1, ConsumedNat
  <2>3. value[a] = from + (p - r) /\ value[b] = from + (q - r)
    BY <1>5, <1>6, <2>1
  <2>4. value[a] <= value[b]
    BY <1>3, <1>5, <1>6
  <2>. QED BY <2>2, <2>3, <2>4
<1>8. rs[i].value = value[a]
  <2>1. rs[i].value = Shows(nights, Day(start), from, Day(rs[i].at))
    BY DEF Tells
  <2>. QED BY <1>1, <1>5, <1>6, <2>1
<1>9. PICK in, out :
        /\ in = [u \in bill |-> InReading(rs, u, start, end, from)]
        /\ out = [u \in bill |-> OutReading(rs, u)]
  OBVIOUS
<1>10. ASSUME NEW u \in bill
       PROVE  /\ u \in W
              /\ in[u] = InReading(rs, u, start, end, from)
              /\ out[u] = OutReading(rs, u)
              /\ in[u] = IF come[u] <= s THEN value[s] ELSE value[come[u]]
              /\ out[u] = IF gone[u] # None /\ gone[u] <= e
                          THEN value[gone[u]] ELSE None
              /\ come[u] <= a \/ b <= come[u]
              /\ gone[u] # None => gone[u] <= a \/ b <= gone[u]
  <2>1. /\ u \in Billable(start, end, departing)
        /\ u \in W /\ come[u] < e /\ (gone[u] # None => s < gone[u])
    BY <1>1 DEF Known
  <2>2. /\ come[u] \in Nat /\ gone[u] \in Nat \cup {None}
        /\ Came(u, start, end) \in Nat
        /\ come[u] = Day(Came(u, start, end))
        /\ Went(u, start, end, departing) \in Nat \cup {None}
        /\ Went(u, start, end, departing) = None <=> gone[u] = None
        /\ gone[u] # None => gone[u] = Day(Went(u, start, end, departing))
        /\ come[u] \in s..e => come[u] \in Breaks(stays, s, e)
        /\ gone[u] \in s..e => gone[u] \in Breaks(stays, s, e)
    BY <1>1, <2>1 DEF Known
  <2>3. /\ in[u] = InReading(rs, u, start, end, from)
        /\ out[u] = OutReading(rs, u)
    BY <1>9
  <2>4. InReading(rs, u, start, end, from)
        = IF come[u] <= s THEN from ELSE Shows(nights, s, from, come[u])
    <3>1. PICK cm : cm = Came(u, start, end)
      OBVIOUS
    <3>2. InReading(rs, u, start, end, from)
          = IF Day(cm) <= Day(start) THEN from
            ELSE Shows(nights, Day(start), from, Day(cm))
      BY <2>1, <2>2, <3>1, InShown
    <3>. QED BY <1>1, <2>2, <3>1, <3>2
  <2>5. in[u] = IF come[u] <= s THEN value[s] ELSE value[come[u]]
    <3>1. CASE come[u] <= s
      BY <1>5, <2>3, <2>4, <3>1
    <3>2. CASE ~(come[u] <= s)
      <4>1. come[u] \in s..e
        BY <1>2, <2>1, <2>2, <3>2
      <4>. QED BY <1>5, <2>3, <2>4, <3>2, <4>1
    <3>. QED BY <3>1, <3>2
  <2>6. OutReading(rs, u)
        = IF gone[u] # None /\ gone[u] <= e
          THEN Shows(nights, s, from, gone[u]) ELSE None
    <3>1. PICK wt : wt = Went(u, start, end, departing)
      OBVIOUS
    <3>2. /\ wt # None /\ Day(wt) <= Day(end) =>
                OutReading(rs, u) = Shows(nights, Day(start), from, Day(wt))
          /\ ~(wt # None /\ Day(wt) <= Day(end)) => OutReading(rs, u) = None
      <4>1. wt \in Nat \cup {None}
        BY <2>2, <3>1
      <4>2. /\ start \in Nat /\ end \in Nat
            /\ Tells(rs, nights, start, end, from)
            /\ Moves(rs, nights, start, end, from, departing)
            /\ ~Missing(rs, start, end, departing)
            /\ u \in Billable(start, end, departing)
            /\ wt = Went(u, start, end, departing) /\ wt \in Nat \cup {None}
        BY <2>1, <3>1, <4>1
      <4>. QED BY ONLY <4>2, OutShown
    <3>3. wt # None <=> gone[u] # None
      BY <2>2, <3>1
    <3>4. gone[u] # None => gone[u] = Day(wt)
      BY <2>2, <3>1
    <3>5. CASE gone[u] # None
      BY <1>1, <3>2, <3>3, <3>4, <3>5
    <3>6. CASE gone[u] = None
      BY <3>2, <3>3, <3>6
    <3>. QED BY <3>5, <3>6
  <2>7. out[u] = IF gone[u] # None /\ gone[u] <= e
                 THEN value[gone[u]] ELSE None
    <3>1. CASE gone[u] # None /\ gone[u] <= e
      <4>1. gone[u] \in s..e
        BY <1>2, <2>1, <2>2, <3>1
      <4>. QED BY <1>5, <2>3, <2>6, <3>1, <4>1
    <3>2. CASE ~(gone[u] # None /\ gone[u] <= e)
      <4>1. OutReading(rs, u) = None
        BY <2>6, <3>2
      <4>. QED BY <2>3, <3>2, <4>1
    <3>. QED BY <3>1, <3>2
  <2>8. ASSUME NEW x \in Breaks(stays, s, e) PROVE ~(a < x /\ x < b)
    <3>1. SUFFICES ASSUME a < x, x < b PROVE FALSE
      OBVIOUS
    <3>2. PICK k \in DOMAIN rs : Day(rs[k].at) = x
      BY <1>1, <2>8
    <3>3. DOMAIN rs \subseteq Nat /\ \A h \in DOMAIN rs : rs[h].at \in Nat
      BY DEF Tells
    <3>4. Before(rs, i, k)
      BY <3>1, <3>2, <3>3, LaterDay
    <3>5. Before(rs, k, j)
      BY <3>1, <3>2, <3>3, LaterDay
    <3>. QED BY <3>4, <3>5
  <2>9. come[u] <= a \/ b <= come[u]
    <3>1. SUFFICES ASSUME ~(come[u] <= a), ~(b <= come[u]) PROVE FALSE
      OBVIOUS
    <3>2. come[u] \in s..e /\ a < come[u] /\ come[u] < b
      BY <1>2, <1>3, <2>2, <3>1
    <3>. QED BY <2>2, <2>8, <3>2
  <2>10. gone[u] # None => gone[u] <= a \/ b <= gone[u]
    <3>1. SUFFICES ASSUME gone[u] # None, ~(gone[u] <= a), ~(b <= gone[u])
                   PROVE FALSE
      OBVIOUS
    <3>2. gone[u] \in s..e /\ a < gone[u] /\ gone[u] < b
      BY <1>2, <1>3, <2>2, <3>1
    <3>. QED BY <2>2, <2>8, <3>2
  <2>. QED BY <2>1, <2>3, <2>5, <2>7, <2>9, <2>10
<1>11. there \subseteq Tenants
  <2>1. a + 1 \in DOMAIN nights
    BY <1>2, <1>3
  <2>. QED BY <1>1, <1>2, <2>1 DEF NightType
<1>12. \A u \in Tenants : u \in there <=> /\ u \in W /\ come[u] < a + 1
                                          /\ gone[u] # None => a + 1 <= gone[u]
  <2>1. a + 1 \in 1..Day(end)
    BY <1>1, <1>2, <1>3
  <2>. QED BY <1>1, <2>1 DEF Known
<1>13. /\ W \in SUBSET Tenants
       /\ \A u \in W : come[u] \in Nat /\ gone[u] \in Nat \cup {None}
       /\ \A u : u \in bill <=> /\ u \in W /\ come[u] < e
                                /\ gone[u] # None => s < gone[u]
  BY <1>1 DEF Known
<1>14. \A u : u \in there <=>
          u \in bill /\ ActiveAt(value[a], in[u], out[u])
  <2>1. \A u \in bill : in[u] = IF come[u] <= s THEN value[s] ELSE value[come[u]]
    BY <1>10
  <2>2. \A u \in bill : out[u] = IF gone[u] # None /\ gone[u] <= e
                                 THEN value[gone[u]] ELSE None
    BY <1>10
  <2>3. \A u \in bill : /\ come[u] <= a \/ b <= come[u]
                        /\ gone[u] # None => gone[u] <= a \/ b <= gone[u]
    BY <1>10
  <2>4. /\ \A x \in s..e : value[x] \in Nat
        /\ \A x, y \in s..e : x <= y => value[x] <= value[y]
    BY <1>5
  <2>5. a < b
    OBVIOUS
  <2>6. Distinct(W, come, gone, s, a, b, e, bill, value, in, out, there)
    BY <1>2, <1>3, <1>7, <1>11, <1>12, <1>13, <2>1, <2>2, <2>3, <2>4, <2>5,
       Zenon DEF Distinct
  <2>. QED BY <2>6, WhoWasThere
<1>15. \A u \in bill :
          ActiveAt(rs[i].value, InReading(rs, u, start, end, from),
                   OutReading(rs, u))
          <=> ActiveAt(value[a], in[u], out[u])
  BY <1>8, <1>10
<1>. QED BY <1>1, <1>14, <1>15

\* A computation from true readings charges a tenant what is due.
LEMMA EngineIsDue ==
    ASSUME IInv, Single(stays), RowsTell(stays, nights, joined),
           nights \in Seq(NightType),
           NEW start \in Nat, NEW end \in Nat, start <= end,
           Day(end) <= Len(nights), NEW departing,
           \A h \in DOMAIN stays :
              stays[h].tenant = departing => stays[h].status = "active",
           NEW from \in Nat, NEW rs, Tells(rs, nights, start, end, from),
           Moves(rs, nights, start, end, from, departing),
           ~Missing(rs, start, end, departing),
           NEW segs, segs = Segments(rs, start, end, from, departing),
           ~\E k \in DOMAIN segs : segs[k].units < 0, NEW t \in Tenants
    PROVE  Line(segs, t) = Due(stays, nights, Day(start), Day(end), t)
PROOF
<1>1. PICK s, e, B : /\ s = Day(start) /\ e = Day(end)
                     /\ B = Breaks(stays, s, e)
  OBVIOUS
<1>2. /\ s \in Nat /\ e \in Nat /\ s <= e /\ Len(nights) \in Nat
      /\ e \in s..Len(nights)
  <2>1. s \in Nat /\ e \in Nat /\ Len(nights) \in Nat
    BY <1>1, SeqParts DEF Day
  <2>2. s <= e
    BY <1>1, DaysInOrder
  <2>. QED BY <1>1, <2>1, <2>2
<1>3. B \subseteq s..e /\ s \in B /\ e \in B
  BY <1>1, <1>2 DEF Breaks
<1>4. /\ DOMAIN rs \subseteq Nat /\ IsFiniteSet(DOMAIN rs)
      /\ \A i \in DOMAIN rs : rs[i].at \in Nat
  BY DEF Tells
<1>5. \A i \in DOMAIN rs : Day(rs[i].at) \in B
  BY <1>1 DEF Moves
<1>6. \A x \in B : \E i \in DOMAIN rs : Day(rs[i].at) = x
  <2>1. \A x \in Breaks(stays, Day(start), Day(end)) :
           \E i \in DOMAIN rs : Day(rs[i].at) = x
    BY Covered
  <2>. QED BY <1>1, <2>1
<1>7. PICK W, come, gone : Known(W, come, gone, start, end, departing)
  BY DaysKnown
<1>8. DOMAIN segs = {i \in DOMAIN rs : After(rs, i) # {}}
  BY DEF Segments
<1>9. ASSUME NEW i \in DOMAIN segs
      PROVE  LET a == Day(rs[i].at)
                 b == Day(rs[Following(rs, i)].at)
             IN  /\ segs[i].units \in Nat /\ segs[i].who \in SUBSET Tenants
                 /\ segs[i].units + Consumed(nights, a) = Consumed(nights, b)
                 /\ a < b /\ segs[i].units # 0 => segs[i].who = nights[a + 1].who
  <2>1. PICK j : j = Following(rs, i)
    OBVIOUS
  <2>2. PICK a, b : a = Day(rs[i].at) /\ b = Day(rs[j].at)
    OBVIOUS
  <2>3. i \in DOMAIN rs /\ After(rs, i) # {}
    BY <1>8
  <2>4. /\ j \in DOMAIN rs /\ Before(rs, i, j)
        /\ \A k \in DOMAIN rs : ~(Before(rs, i, k) /\ Before(rs, k, j))
    BY <1>4, <2>1, <2>3, FollowingIs
  <2>5. /\ segs[i].units = Upto(rs[j]) - rs[i].value
        /\ segs[i].who
           = {u \in Billable(start, end, departing) :
                ActiveAt(rs[i].value, InReading(rs, u, start, end, from),
                         OutReading(rs, u))}
    BY <1>8, <2>1 DEF Segments
  <2>6. /\ Upto(rs[j]) + Consumed(nights, a) = rs[i].value + Consumed(nights, b)
        /\ Upto(rs[j]) \in Nat /\ rs[i].value \in Nat
    BY <2>2, <2>3, <2>4, Zenon DEF Tells
  <2>7. a \in B /\ b \in B /\ a \in 0..Len(nights) /\ b \in 0..Len(nights)
    <3>1. a \in B /\ b \in B
      BY <1>5, <2>2, <2>3, <2>4
    <3>2. s..e \subseteq 0..Len(nights)
      BY <1>2
    <3>. QED BY <1>3, <3>1, <3>2
  <2>8. Consumed(nights, a) \in Nat /\ Consumed(nights, b) \in Nat
    BY <2>7, ConsumedNat
  <2>9. PICK u, x, y, v, w :
          /\ u = segs[i].units /\ x = Consumed(nights, a)
          /\ y = Consumed(nights, b) /\ v = rs[i].value /\ w = Upto(rs[j])
    OBVIOUS
  <2>10. u \in Nat /\ u + x = y
    <3>1. u = w - v /\ w + x = v + y /\ w \in Nat /\ v \in Nat
          /\ x \in Nat /\ y \in Nat /\ ~(u < 0)
      BY <2>5, <2>6, <2>8, <2>9
    <3>. QED BY ONLY <3>1
  <2>11. segs[i].who \in SUBSET Tenants
    <3>1. Billable(start, end, departing) \subseteq Tenants
      BY DEF Billable, Participants
    <3>. QED BY <2>5, <3>1
  <2>12. a < b /\ u # 0 => segs[i].who = nights[a + 1].who
    <3>1. SUFFICES ASSUME a < b, u # 0 PROVE segs[i].who = nights[a + 1].who
      OBVIOUS
    <3>2. x # y
      BY <2>8, <2>9, <2>10, <3>1
    <3>3. /\ Known(W, come, gone, start, end, departing)
          /\ start \in Nat /\ end \in Nat /\ from \in Nat
          /\ nights \in Seq(NightType) /\ Day(end) <= Len(nights)
          /\ Tells(rs, nights, start, end, from)
          /\ Moves(rs, nights, start, end, from, departing)
          /\ ~Missing(rs, start, end, departing)
          /\ \A z \in Breaks(stays, Day(start), Day(end)) :
                \E k \in DOMAIN rs : Day(rs[k].at) = z
          /\ i \in DOMAIN rs /\ j \in DOMAIN rs /\ Before(rs, i, j)
          /\ \A k \in DOMAIN rs : ~(Before(rs, i, k) /\ Before(rs, k, j))
          /\ a = Day(rs[i].at) /\ b = Day(rs[j].at) /\ a < b
          /\ Consumed(nights, a) # Consumed(nights, b)
      BY <1>1, <1>6, <1>7, <2>2, <2>3, <2>4, <2>9, <3>1, <3>2
    <3>4. {r \in Billable(start, end, departing) :
              ActiveAt(rs[i].value, InReading(rs, r, start, end, from),
                       OutReading(rs, r))}
           = nights[a + 1].who
      BY ONLY <3>3, SegmentNames
    <3>. QED BY <2>5, <3>4
  <2>. QED BY <2>1, <2>2, <2>9, <2>10, <2>11, <2>12
<1>10. Told(rs, nights, segs)
  BY <1>8, <1>9, Zenon DEF Told
<1>11. Line(segs, t) = SumOf(B, Portions(nights, B, t))
  <2>1. nights \in Seq(NightType) /\ t \in Tenants
    OBVIOUS
  <2>. QED BY ONLY <1>2, <1>3, <1>4, <1>5, <1>6, <1>10, <2>1, LineIsDue
<1>. QED BY <1>1, <1>11 DEF Due

-----------------------------------------------------------------------------
(* The readings of a cycle in which the meter was not replaced              *)

\* A reading of a coming or going is of the day of a row of the tenant's.
Moved(r, rows) ==
    /\ r.event = "moveIn" =>
          \E h \in DOMAIN rows : /\ rows[h].tenant = r.tenant
                                 /\ Day(rows[h].in) = Day(r.at)
    /\ r.event = "moveOut" =>
          \E h \in DOMAIN rows : /\ rows[h].tenant = r.tenant
                                 /\ rows[h].out # None
                                 /\ Day(rows[h].out) = Day(r.at)
    /\ r.event \in {"moveIn", "moveOut"} => r.at # Midnight(Day(r.at))

\* A selection J of the readings rs between the dates of cycle c, whose meter
\* showed from at its start: resets in it are those of its neighbours.
Faithful(rs, m, ns, J, c, start, end, from) ==
    /\ rs \in Seq(Measure) /\ ns \in Seq(NightType) /\ Recorded(rs, m, ns)
    /\ Selected(rs, J)
    /\ \A i \in J : start <= rs[i].at /\ rs[i].at <= end
    /\ \E p \in J : /\ rs[p].at = start /\ rs[p].cycle = c
                    /\ rs[p].event = "periodStart" /\ rs[p].value = from
    /\ \E i \in J : rs[i].at = end
    /\ \A i \in J : /\ Moved(rs[i], stays)
                    /\ rs[i].event \notin {"moveIn", "moveOut"} =>
                          rs[i].at \in {start, end}
    /\ \A i \in DOMAIN rs : rs[i].event \in Resets => rs[i].cycle # c
    /\ \A i \in J : rs[i].event \in Resets /\ c < rs[i].cycle => rs[i].at = end

\* What a reading shows, if no replacement stands between it and the start.
LEMMA ShownSince ==
    ASSUME NEW rs \in Seq(Measure), NEW m, NEW ns, Recorded(rs, m, ns),
           NEW J, Selected(rs, J), NEW p \in J, rs[p].event \notin Resets,
           NEW k \in J, rs[k].event \notin Resets, ~Before(rs, k, p),
           \A r \in J : rs[r].event \in Resets =>
              /\ rs[r].cycle # rs[p].cycle
              /\ rs[p].cycle < rs[r].cycle => ~Before(rs, r, k),
           NEW a, a = Consumed(ns, Day(rs[p].at)), a \in Nat,
           NEW b, b = Consumed(ns, Day(rs[k].at)), b \in Nat
    PROVE  rs[k].value = rs[p].value + (b - a)
PROOF
<1>1. /\ DOMAIN rs \subseteq Nat
      /\ \A i \in DOMAIN rs : /\ rs[i].at \in Nat /\ rs[i].value \in Nat
                              /\ rs[i].cycle \in Nat
  BY ReadingsAre
<1>2. p \in DOMAIN rs /\ k \in DOMAIN rs
  BY DEF Selected
<1>3. \A g, h \in DOMAIN rs :
         g < h => /\ rs[g].cycle <= rs[h].cycle
                  /\ rs[g].event \in Resets \/ rs[h].event \in Resets
                        => Before(rs, g, h)
  BY DEF Recorded
<1>4. \A g, h \in DOMAIN rs :
         g < h /\ NoReset(rs, g, h) =>
            Upto(rs[h]) + Consumed(ns, Day(rs[g].at))
            = rs[g].value + Consumed(ns, Day(rs[h].at))
  BY DEF Recorded
<1>5. Upto(rs[p]) = rs[p].value /\ Upto(rs[k]) = rs[k].value
  BY DEF Upto
<1>6. PICK v, w : v = rs[p].value /\ w = rs[k].value
  OBVIOUS
<1>7. v \in Nat /\ w \in Nat
  BY <1>1, <1>2, <1>6
<1>8. CASE p = k
  <2>1. v = w /\ a = b
    BY <1>6, <1>8
  <2>. QED BY <1>6, <1>7, <2>1
<1>9. CASE p < k
  <2>1. ASSUME NEW r \in DOMAIN rs, p < r, r < k
        PROVE  rs[r].event \notin Resets
    <3>1. SUFFICES ASSUME rs[r].event \in Resets PROVE FALSE
      OBVIOUS
    <3>2. Before(rs, p, r) /\ Before(rs, r, k) /\ rs[p].cycle <= rs[r].cycle
      BY <1>2, <1>3, <2>1, <3>1
    <3>3. r \in J
      BY <3>1, <3>2 DEF Selected
    <3>4. rs[p].cycle < rs[r].cycle
      BY <1>1, <1>2, <3>1, <3>2, <3>3
    <3>. QED BY <3>1, <3>2, <3>3, <3>4
  <2>2. NoReset(rs, p, k)
    BY <2>1 DEF NoReset
  <2>3. w + a = v + b
    BY <1>2, <1>4, <1>5, <1>6, <1>9, <2>2
  <2>4. w = v + (b - a)
    <3>1. w + a = v + b /\ w \in Nat /\ v \in Nat /\ a \in Nat /\ b \in Nat
      BY <1>7, <2>3
    <3>. QED BY ONLY <3>1
  <2>. QED BY <1>6, <2>4
<1>10. CASE k < p
  <2>1. ASSUME NEW r \in DOMAIN rs, k < r, r < p
        PROVE  rs[r].event \notin Resets
    <3>1. SUFFICES ASSUME rs[r].event \in Resets PROVE FALSE
      OBVIOUS
    <3>2. Before(rs, k, r) /\ Before(rs, r, p)
      BY <1>2, <1>3, <2>1, <3>1
    <3>. QED BY <1>1, <1>2, <3>2, OneLine
  <2>2. NoReset(rs, k, p)
    BY <2>1 DEF NoReset
  <2>3. v + b = w + a
    BY <1>2, <1>4, <1>5, <1>6, <1>10, <2>2
  <2>4. w = v + (b - a)
    <3>1. v + b = w + a /\ w \in Nat /\ v \in Nat /\ a \in Nat /\ b \in Nat
      BY <1>7, <2>3
    <3>. QED BY ONLY <3>1
  <2>. QED BY <1>6, <2>4
<1>11. p \in Nat /\ k \in Nat
  BY <1>1, <1>2
<1>. QED BY <1>8, <1>9, <1>10, <1>11

LEMMA SelectionTells ==
    ASSUME NEW rs, NEW m, NEW ns, NEW J, NEW c \in Nat,
           NEW start \in Nat, NEW end \in Nat, NEW from,
           Faithful(rs, m, ns, J, c, start, end, from),
           NEW q, q = Restrict(rs, J)
    PROVE  /\ Tells(q, ns, start, end, from)
           /\ DOMAIN q = J
           /\ \A k \in J :
                 /\ q[k] = rs[k]
                 /\ /\ rs[k].event \in {"moveIn", "moveOut"}
                    /\ Day(start) < Day(rs[k].at)
                    => rs[k].value = Shows(ns, Day(start), from, Day(rs[k].at))
PROOF
<1>1. /\ rs \in Seq(Measure) /\ ns \in Seq(NightType) /\ Recorded(rs, m, ns)
      /\ Selected(rs, J)
      /\ \A i \in J : start <= rs[i].at /\ rs[i].at <= end
      /\ \E i \in J : rs[i].at = end
      /\ \A i \in J : rs[i].event \in {"moveIn", "moveOut"} =>
                         rs[i].at # Midnight(Day(rs[i].at))
      /\ \A i \in DOMAIN rs : rs[i].event \in Resets => rs[i].cycle # c
      /\ \A i \in J : rs[i].event \in Resets /\ c < rs[i].cycle => rs[i].at = end
  BY DEF Faithful, Moved
<1>2. PICK p \in J : /\ rs[p].at = start /\ rs[p].cycle = c
                     /\ rs[p].event = "periodStart" /\ rs[p].value = from
  BY DEF Faithful
<1>3. /\ DOMAIN q = J /\ J \subseteq Nat /\ IsFiniteSet(J)
      /\ \A i \in J : q[i] = rs[i] /\ q[i].at \in Nat
      /\ \A i, j \in J : Before(q, i, j) <=> Before(rs, i, j)
  BY <1>1, SelectionIs
<1>4. J \subseteq DOMAIN rs
  BY <1>1 DEF Selected
<1>5. \A i \in DOMAIN rs :
         /\ rs[i].at \in Nat /\ Day(rs[i].at) \in Nat
         /\ rs[i].value \in Nat /\ rs[i].cycle \in Nat
         /\ Day(rs[i].at) <= Len(ns)
         /\ rs[i].event \in Resets =>
               rs[i].at = Midnight(Day(rs[i].at)) /\ rs[i].final \in Nat
  <2>1. \A i \in DOMAIN rs :
         /\ rs[i].at \in Nat /\ Day(rs[i].at) \in Nat
         /\ rs[i].value \in Nat /\ rs[i].cycle \in Nat
    BY <1>1, ReadingsAre
  <2>2. \A i \in DOMAIN rs :
         /\ Day(rs[i].at) <= Len(ns)
         /\ rs[i].event \in Resets =>
               rs[i].at = Midnight(Day(rs[i].at)) /\ rs[i].final \in Nat
    BY <1>1 DEF Recorded
  <2>. QED BY <2>1, <2>2
<1>6. PICK s, e : s = Day(start) /\ e = Day(end)
  OBVIOUS
<1>7. /\ s \in Nat /\ e \in Nat /\ Len(ns) \in Nat
      /\ \A i \in J : s <= Day(rs[i].at) /\ Day(rs[i].at) <= e
  <2>1. s \in Nat /\ e \in Nat /\ Len(ns) \in Nat
    BY <1>1, <1>6, SeqParts DEF Day
  <2>2. ASSUME NEW i \in J PROVE s <= Day(rs[i].at) /\ Day(rs[i].at) <= e
    <3>1. rs[i].at \in Nat /\ start <= rs[i].at /\ rs[i].at <= end
      BY <1>1, <1>4, <1>5
    <3>2. s <= Day(rs[i].at)
      BY <1>6, <3>1, DaysInOrder
    <3>3. Day(rs[i].at) <= e
      BY <1>6, <3>1, DaysInOrder
    <3>. QED BY <3>2, <3>3
  <2>. QED BY <2>1, <2>2
<1>8. \A i \in J : Consumed(ns, Day(rs[i].at)) \in Nat
  <2>1. \A i \in J : Day(rs[i].at) \in 0..Len(ns)
    BY <1>4, <1>5, <1>7
  <2>. QED BY <1>1, <2>1, ConsumedNat
<1>9. ASSUME NEW k \in J, rs[k].event \notin Resets, ~Before(rs, k, p),
             \A r \in J : rs[r].event \in Resets /\ c < rs[r].cycle =>
                             ~Before(rs, r, k)
      PROVE  rs[k].value = Shows(ns, s, from, Day(rs[k].at))
  <2>1. PICK a, b : a = Consumed(ns, Day(rs[p].at)) /\ b = Consumed(ns, Day(rs[k].at))
    OBVIOUS
  <2>2. a \in Nat /\ b \in Nat
    BY <1>8, <2>1
  <2>3. rs[p].event \notin Resets
    BY <1>2 DEF Resets
  <2>4. \A r \in J : rs[r].event \in Resets =>
              /\ rs[r].cycle # rs[p].cycle
              /\ rs[p].cycle < rs[r].cycle => ~Before(rs, r, k)
    BY <1>1, <1>2, <1>4, <1>9
  <2>5. rs[k].value = rs[p].value + (b - a)
    BY <1>1, <1>9, <2>1, <2>2, <2>3, <2>4, ShownSince
  <2>. QED BY <1>2, <1>6, <2>1, <2>5 DEF Shows
<1>10. ASSUME NEW k \in J, rs[k].event \in {"moveIn", "moveOut"},
              s < Day(rs[k].at)
       PROVE  rs[k].value = Shows(ns, s, from, Day(rs[k].at))
  <2>1. rs[k].event \notin Resets
    BY <1>10 DEF Resets
  <2>2. ~Before(rs, k, p)
    <3>1. SUFFICES ASSUME Before(rs, k, p) PROVE FALSE
      OBVIOUS
    <3>2. Day(rs[k].at) <= Day(rs[p].at)
      <4>1. /\ DOMAIN rs \subseteq Nat /\ \A i \in DOMAIN rs : rs[i].at \in Nat
            /\ k \in DOMAIN rs /\ p \in DOMAIN rs /\ Before(rs, k, p)
        BY <1>1, <1>2, <1>4, <1>5, <1>10, <3>1, ReadingsAre
      <4>. QED BY ONLY <4>1, LaterDay
    <3>. QED BY <1>2, <1>4, <1>5, <1>6, <1>7, <1>10, <3>2
  <2>3. ASSUME NEW r \in J, rs[r].event \in Resets, c < rs[r].cycle,
               Before(rs, r, k)
        PROVE  FALSE
    <3>1. rs[r].at = end /\ rs[r].at = Midnight(Day(rs[r].at))
      BY <1>1, <1>4, <1>5, <2>3
    <3>2. rs[r].at <= rs[k].at /\ rs[k].at <= end /\ rs[k].at \in Nat
      BY <1>1, <1>4, <1>5, <2>3 DEF Before
    <3>3. rs[k].at = end
      BY <3>1, <3>2
    <3>. QED BY <1>1, <1>10, <3>1, <3>3
  <2>. QED BY <1>9, <2>1, <2>2, <2>3
<1>11. ASSUME NEW i \in J, NEW j \in J, Before(rs, i, j),
              \A k \in J : ~(Before(rs, i, k) /\ Before(rs, k, j))
       PROVE  /\ Upto(rs[j]) + Consumed(ns, Day(rs[i].at))
                 = rs[i].value + Consumed(ns, Day(rs[j].at))
              /\ Day(rs[i].at) < Day(rs[j].at) =>
                    rs[i].value = Shows(ns, s, from, Day(rs[i].at))
  <2>1. Upto(rs[j]) + Consumed(ns, Day(rs[i].at))
        = rs[i].value + Consumed(ns, Day(rs[j].at))
    BY <1>1, <1>8, <1>11, SegmentIs
  <2>2. SUFFICES ASSUME Day(rs[i].at) < Day(rs[j].at)
                 PROVE  rs[i].value = Shows(ns, s, from, Day(rs[i].at))
    BY <2>1
  <2>3. /\ i \in DOMAIN rs /\ j \in DOMAIN rs /\ p \in DOMAIN rs
        /\ Day(rs[p].at) = s /\ s <= Day(rs[i].at) /\ Day(rs[j].at) <= e
        /\ Day(rs[i].at) \in Nat /\ Day(rs[j].at) \in Nat
        /\ DOMAIN rs \subseteq Nat /\ \A h \in DOMAIN rs : rs[h].at \in Nat
    BY <1>1, <1>2, <1>4, <1>5, <1>6, <1>7, ReadingsAre
  <2>4. ~Before(rs, i, p)
    <3>1. SUFFICES ASSUME Before(rs, i, p) PROVE FALSE
      OBVIOUS
    <3>2. Before(rs, p, j)
      <4>1. Day(rs[p].at) < Day(rs[j].at)
        BY <1>7, <2>2, <2>3
      <4>. QED BY <2>3, <4>1, LaterDay
    <3>. QED BY <1>11, <3>1, <3>2
  <2>5. ASSUME NEW r \in J, rs[r].event \in Resets, c < rs[r].cycle,
               r = i \/ Before(rs, r, i)
        PROVE  FALSE
    <3>1. rs[r].at = end
      BY <1>1, <2>5
    <3>2. Day(rs[r].at) <= Day(rs[i].at)
      <4>1. CASE r = i
        BY <1>5, <2>3, <4>1
      <4>2. CASE Before(rs, r, i)
        <5>1. /\ DOMAIN rs \subseteq Nat /\ \A h \in DOMAIN rs : rs[h].at \in Nat
              /\ r \in DOMAIN rs /\ i \in DOMAIN rs /\ Before(rs, r, i)
          BY <1>4, <2>3, <2>5, <4>2
        <5>. QED BY ONLY <5>1, LaterDay
      <4>. QED BY <2>5, <4>1, <4>2
    <3>. QED BY <1>6, <1>7, <2>2, <2>3, <3>1, <3>2
  <2>6. rs[i].event \notin Resets
    <3>1. SUFFICES ASSUME rs[i].event \in Resets PROVE FALSE
      OBVIOUS
    <3>2. rs[i].cycle < c
      <4>1. rs[i].cycle # c /\ ~(c < rs[i].cycle)
        BY <1>1, <2>3, <2>5, <3>1
      <4>. QED BY <1>5, <2>3, <4>1
    <3>3. \A g, h \in DOMAIN rs :
             g < h => /\ rs[g].cycle <= rs[h].cycle
                      /\ rs[g].event \in Resets \/ rs[h].event \in Resets
                            => Before(rs, g, h)
      BY <1>1 DEF Recorded
    <3>4. i < p
      <4>1. ~(p < i) /\ p # i
        BY <1>2, <1>5, <2>3, <3>2, <3>3
      <4>2. i \in Nat /\ p \in Nat
        BY <2>3
      <4>. QED BY <4>1, <4>2
    <3>. QED BY <2>3, <2>4, <3>1, <3>3, <3>4
  <2>. QED BY <1>9, <2>4, <2>5, <2>6
<1>12. Tells(q, ns, start, end, from)
  <2>1. DOMAIN q \subseteq Nat /\ IsFiniteSet(DOMAIN q)
    BY <1>3
  <2>2. \A i \in DOMAIN q : /\ q[i].at \in Nat /\ q[i].value \in Nat
                            /\ Upto(q[i]) \in Nat
                            /\ start <= q[i].at /\ q[i].at <= end
    BY <1>1, <1>3, <1>4, <1>5 DEF Upto
  <2>3. /\ \E i \in DOMAIN q : q[i].at = start
        /\ \E i \in DOMAIN q : q[i].at = end
    BY <1>1, <1>2, <1>3
  <2>4. ASSUME NEW i \in DOMAIN q, NEW j \in DOMAIN q, Before(q, i, j),
               \A k \in DOMAIN q : ~(Before(q, i, k) /\ Before(q, k, j))
        PROVE  /\ Upto(q[j]) + Consumed(ns, Day(q[i].at))
                  = q[i].value + Consumed(ns, Day(q[j].at))
               /\ Day(q[i].at) < Day(q[j].at) =>
                     q[i].value = Shows(ns, Day(start), from, Day(q[i].at))
    <3>1. /\ i \in J /\ j \in J /\ Before(rs, i, j)
          /\ \A k \in J : ~(Before(rs, i, k) /\ Before(rs, k, j))
          /\ q[i] = rs[i] /\ q[j] = rs[j]
      BY <1>3, <2>4
    <3>. QED BY <1>6, <1>11, <3>1
  <2>. QED BY <2>1, <2>2, <2>3, <2>4, Zenon DEF Tells
<1>. QED BY <1>3, <1>6, <1>10, <1>12

LEMMA SelectionMoves ==
    ASSUME stays \in Seq(Row), Single(stays), NEW rs, NEW m, NEW J, NEW c \in Nat,
           NEW start \in Nat, NEW end \in Nat, start <= end, NEW from,
           Faithful(rs, m, nights, J, c, start, end, from),
           NEW q, q = Restrict(rs, J)
    PROVE  Moves(q, nights, start, end, from, Nobody)
PROOF
<1>1. /\ DOMAIN q = J
      /\ \A k \in J :
            /\ q[k] = rs[k]
            /\ /\ rs[k].event \in {"moveIn", "moveOut"}
               /\ Day(start) < Day(rs[k].at)
               => rs[k].value = Shows(nights, Day(start), from, Day(rs[k].at))
  <2>1. /\ c \in Nat /\ start \in Nat /\ end \in Nat
        /\ Faithful(rs, m, nights, J, c, start, end, from)
        /\ q = Restrict(rs, J)
    OBVIOUS
  <2>. QED BY ONLY <2>1, SelectionTells
<1>2. /\ rs \in Seq(Measure) /\ J \subseteq DOMAIN rs
      /\ \A i \in J : start <= rs[i].at /\ rs[i].at <= end
      /\ \A i \in J : /\ Moved(rs[i], stays)
                      /\ rs[i].event \notin {"moveIn", "moveOut"} =>
                            rs[i].at \in {start, end}
  BY DEF Faithful, Selected
<1>3. SUFFICES ASSUME NEW i \in J, NEW t, t = rs[i].tenant,
                      NEW x, x = Day(rs[i].at)
               PROVE  /\ x \in Breaks(stays, Day(start), Day(end))
                      /\ rs[i].event = "moveIn" => x = Day(Came(t, start, end))
                      /\ rs[i].event = "moveOut" =>
                            /\ Went(t, start, end, Nobody) # None
                            /\ x = Day(Went(t, start, end, Nobody))
  <2>1. ASSUME NEW i \in DOMAIN q
        PROVE  LET t == q[i].tenant
                   shown == Day(start) < Day(q[i].at) =>
                      q[i].value
                      = Shows(nights, Day(start), from, Day(q[i].at))
               IN  /\ Day(q[i].at) \in Breaks(stays, Day(start), Day(end))
                   /\ q[i].event = "moveIn" =>
                         Day(q[i].at) = Day(Came(t, start, end)) /\ shown
                   /\ q[i].event = "moveOut" =>
                         /\ Went(t, start, end, Nobody) # None
                         /\ Day(q[i].at) = Day(Went(t, start, end, Nobody))
                         /\ shown
    <3>1. i \in J /\ q[i] = rs[i]
      BY <1>1, <2>1
    <3>2. /\ Day(rs[i].at) \in Breaks(stays, Day(start), Day(end))
          /\ rs[i].event = "moveIn" =>
                Day(rs[i].at) = Day(Came(rs[i].tenant, start, end))
          /\ rs[i].event = "moveOut" =>
                /\ Went(rs[i].tenant, start, end, Nobody) # None
                /\ Day(rs[i].at) = Day(Went(rs[i].tenant, start, end, Nobody))
      BY <1>3, <3>1
    <3>. QED BY <1>1, <3>1, <3>2
  <2>. QED BY <2>1, Zenon DEF Moves
<1>4. PICK s, e : s = Day(start) /\ e = Day(end)
  OBVIOUS
<1>5. s \in Nat /\ e \in Nat /\ x \in s..e
  <2>1. rs[i].at \in Nat /\ start <= rs[i].at /\ rs[i].at <= end
    BY <1>2, <1>3, ReadingsAre
  <2>2. s \in Nat /\ e \in Nat /\ x \in Nat
    BY <1>3, <1>4, <2>1 DEF Day
  <2>3. s <= x
    BY <1>3, <1>4, <2>1, DaysInOrder
  <2>4. x <= e
    BY <1>3, <1>4, <2>1, DaysInOrder
  <2>. QED BY <2>2, <2>3, <2>4
<1>6. CASE rs[i].event \notin {"moveIn", "moveOut"}
  <2>1. x \in {s, e}
    BY <1>2, <1>3, <1>4, <1>6
  <2>. QED BY <1>4, <1>6, <2>1 DEF Breaks
<1>7. CASE rs[i].event = "moveIn"
  <2>1. PICK h \in DOMAIN stays : stays[h].tenant = t /\ Day(stays[h].in) = x
    BY <1>2, <1>3, <1>7 DEF Moved
  <2>2. Came(t, start, end) = stays[h].in
    BY <2>1, RowForIs
  <2>3. x \in Breaks(stays, s, e)
    BY <1>5, <2>1 DEF Breaks
  <2>. QED BY <1>4, <1>7, <2>1, <2>2, <2>3
<1>8. CASE rs[i].event = "moveOut"
  <2>1. PICK h \in DOMAIN stays : /\ stays[h].tenant = t
                                  /\ stays[h].out # None
                                  /\ Day(stays[h].out) = x
    BY <1>2, <1>3, <1>8 DEF Moved
  <2>2. t # Nobody
    BY <2>1, RowsAre, TenantsAssumption DEF Nobody
  <2>3. Went(t, start, end, Nobody) = stays[h].out
    <3>1. RowFor(t, start, end) = h
      BY <2>1, RowForIs
    <3>. QED BY <2>2, <3>1 DEF Went
  <2>4. x \in Breaks(stays, s, e)
    BY <1>5, <2>1 DEF Breaks
  <2>. QED BY <1>4, <1>8, <2>1, <2>3, <2>4
<1>. QED BY <1>6, <1>7, <1>8

\* The computation does not throw.
Computes(q, start, end, from, departing) ==
    Trouble(q, start, end, from, departing) = ""

\* A cycle computed from such a selection charges a tenant what is due.
LEMMA FaithfulIsDue ==
    ASSUME IInv, Single(stays), RowsTell(stays, nights, joined),
           NEW rs, NEW m, NEW J, NEW c \in Nat,
           NEW start \in Nat, NEW end \in Nat, start <= end,
           Day(end) <= Len(nights), NEW from \in Nat,
           Faithful(rs, m, nights, J, c, start, end, from),
           NEW q, q = Restrict(rs, J),
           Computes(q, start, end, from, Nobody), NEW t \in Tenants
    PROVE  Line(Segments(q, start, end, from, Nobody), t)
           = Due(stays, nights, Day(start), Day(end), t)
PROOF
<1>1. stays \in Seq(Row)
  BY DEF IInv, Documents
<1>2. \A h \in DOMAIN stays :
         stays[h].tenant = Nobody => stays[h].status = "active"
  BY <1>1, RowsAre, TenantsAssumption DEF Nobody
<1>3. nights \in Seq(NightType)
  BY DEF Faithful
<1>4. Tells(q, nights, start, end, from)
  BY SelectionTells
<1>5. Moves(q, nights, start, end, from, Nobody)
  BY <1>1, SelectionMoves
<1>6. /\ ~Missing(q, start, end, Nobody)
      /\ ~\E k \in DOMAIN Segments(q, start, end, from, Nobody) :
            Segments(q, start, end, from, Nobody)[k].units < 0
  BY DEF Computes, Trouble
<1>7. /\ IInv /\ Single(stays) /\ RowsTell(stays, nights, joined)
      /\ nights \in Seq(NightType) /\ start \in Nat /\ end \in Nat
      /\ start <= end /\ Day(end) <= Len(nights)
      /\ \A h \in DOMAIN stays :
            stays[h].tenant = Nobody => stays[h].status = "active"
      /\ from \in Nat /\ Tells(q, nights, start, end, from)
      /\ Moves(q, nights, start, end, from, Nobody)
      /\ ~Missing(q, start, end, Nobody)
      /\ ~\E k \in DOMAIN Segments(q, start, end, from, Nobody) :
            Segments(q, start, end, from, Nobody)[k].units < 0
      /\ t \in Tenants
  BY <1>2, <1>3, <1>4, <1>5, <1>6
<1>. QED BY ONLY <1>7, EngineIsDue

-----------------------------------------------------------------------------
(* The readings of a transfer                                               *)

\* The readings that bound a cycle, and the replacements in it, fall where the
\* cycle does.
Placed(r, cs) ==
    /\ r.event = "periodStart" => r.at = cs[r.cycle].start
    /\ r.event = "periodEnd" => r.at = cs[r.cycle].end
    /\ r.event \in Resets =>
          /\ cs[r.cycle].start <= r.at
          /\ cs[r.cycle].end # None => r.at <= cs[r.cycle].end

\* A cycle has the reading it began with.
Begun(c, cy, rs) ==
    \E p \in DOMAIN rs : /\ rs[p].at = cy.start /\ rs[p].cycle = c
                         /\ rs[p].event = "periodStart"
                         /\ rs[p].tenant = Nobody /\ rs[p].value = cy.from

\* The meter was not replaced in cycle c; nor at an instant.
Unreset(c, rs) ==
    ~\E i \in DOMAIN rs : rs[i].cycle = c /\ rs[i].event \in Resets
UnresetAt(at, rs) ==
    ~\E i \in DOMAIN rs : rs[i].at = at /\ rs[i].event \in Resets

\* Readings each of which shows how the meter moved since the start.
Steady(q, ns, start, end, from) ==
    /\ DOMAIN q \subseteq Nat /\ IsFiniteSet(DOMAIN q)
    /\ \A i \in DOMAIN q :
          /\ q[i].at \in Nat /\ start <= q[i].at /\ q[i].at <= end
          /\ q[i].value \in Nat /\ q[i].event \notin Resets
          /\ Consumed(ns, Day(q[i].at)) \in Nat
          /\ q[i].value + Consumed(ns, Day(start))
             = from + Consumed(ns, Day(q[i].at))
    /\ \E i \in DOMAIN q : q[i].at = start
    /\ \E i \in DOMAIN q : q[i].at = end

LEMMA SteadyTells ==
    ASSUME NEW q, NEW ns, NEW start \in Nat, NEW end \in Nat, NEW from \in Nat,
           Steady(q, ns, start, end, from), Consumed(ns, Day(start)) \in Nat
    PROVE  /\ Tells(q, ns, start, end, from)
           /\ \A i \in DOMAIN q :
                 q[i].value = Shows(ns, Day(start), from, Day(q[i].at))
PROOF
<1>1. ASSUME NEW i \in DOMAIN q
      PROVE  /\ q[i].value = Shows(ns, Day(start), from, Day(q[i].at))
             /\ Upto(q[i]) = q[i].value /\ q[i].value \in Nat
             /\ q[i].at \in Nat /\ start <= q[i].at /\ q[i].at <= end
  <2>1. PICK v, x, y : /\ v = q[i].value /\ x = Consumed(ns, Day(start))
                       /\ y = Consumed(ns, Day(q[i].at))
    OBVIOUS
  <2>2. /\ v \in Nat /\ x \in Nat /\ y \in Nat /\ from \in Nat
        /\ v + x = from + y
    BY <2>1 DEF Steady
  <2>3. v = from + (y - x)
    BY ONLY <2>2
  <2>4. Upto(q[i]) = q[i].value
    BY DEF Upto, Steady
  <2>5. q[i].at \in Nat /\ start <= q[i].at /\ q[i].at <= end
    BY DEF Steady
  <2>. QED BY <2>1, <2>2, <2>3, <2>4, <2>5 DEF Shows
<1>2. ASSUME NEW i \in DOMAIN q, NEW j \in DOMAIN q
      PROVE  Upto(q[j]) + Consumed(ns, Day(q[i].at))
             = q[i].value + Consumed(ns, Day(q[j].at))
  <2>1. PICK v, w, x, y, z :
          /\ v = q[i].value /\ w = q[j].value
          /\ x = Consumed(ns, Day(start)) /\ y = Consumed(ns, Day(q[i].at))
          /\ z = Consumed(ns, Day(q[j].at))
    OBVIOUS
  <2>2. /\ v \in Nat /\ w \in Nat /\ x \in Nat /\ y \in Nat /\ z \in Nat
        /\ from \in Nat /\ v + x = from + y /\ w + x = from + z
    BY <2>1 DEF Steady
  <2>3. w + y = v + z
    BY ONLY <2>2
  <2>. QED BY <1>1, <2>1, <2>3
<1>3. /\ DOMAIN q \subseteq Nat /\ IsFiniteSet(DOMAIN q)
      /\ \E i \in DOMAIN q : q[i].at = start
      /\ \E i \in DOMAIN q : q[i].at = end
  BY DEF Steady
<1>4. Tells(q, ns, start, end, from)
  BY <1>1, <1>2, <1>3, Zenon DEF Tells
<1>. QED BY <1>1, <1>4

\* No replacement falls in an open cycle, if none is of it and none at its start.
LEMMA NoneSince ==
    ASSUME IInv, NEW c \in Active, Unreset(c, readings),
           UnresetAt(cycles[c].start, readings),
           \A i \in DOMAIN readings : Placed(readings[i], cycles),
           NEW r \in DOMAIN readings, cycles[c].start <= readings[r].at
    PROVE  readings[r].event \notin Resets
PROOF
<1>1. SUFFICES ASSUME readings[r].event \in Resets PROVE FALSE
  OBVIOUS
<1>2. PICK d, start, at : /\ d = readings[r].cycle /\ start = cycles[c].start
                          /\ at = readings[r].at
  OBVIOUS
<1>3. /\ c \in DOMAIN cycles /\ c \in Nat /\ start \in Nat /\ d <= c
  BY <1>2, WrittenForLast
<1>4. readings \in Seq(Measure) /\ Ordered(cycles) /\ d \in DOMAIN cycles
  BY <1>2 DEF IInv, Documents, ReadingInv
<1>5. d # c /\ d \in Nat /\ at \in Nat /\ at # start
  <2>1. d \in Nat /\ at \in Nat
    BY <1>2, <1>4, ReadingsAre
  <2>2. d # c
    BY <1>1, <1>2 DEF Unreset
  <2>3. at # start
    BY <1>1, <1>2 DEF UnresetAt
  <2>. QED BY <2>1, <2>2, <2>3
<1>6. cycles[d].end # None /\ cycles[d].end <= start
  BY <1>2, <1>3, <1>4, <1>5 DEF Ordered
<1>7. at <= cycles[d].end
  BY <1>1, <1>2, <1>6 DEF Placed
<1>8. cycles[d].end \in Nat
  <2>1. PICK X : cycles \in Seq(CycleWith(X))
    BY DEF IInv, Documents
  <2>2. cycles[d] \in CycleWith(X)
    BY <1>4, <2>1, SeqParts
  <2>3. cycles[d].end \in Instants
    BY <1>6, <2>2 DEF CycleWith
  <2>. QED BY <2>3, InstantNat
<1>. QED BY <1>2, <1>3, <1>5, <1>6, <1>7, <1>8

\* What the readings of an open cycle show, if no replacement falls in it.
LEMMA ShownInOpen ==
    ASSUME IInv, ChargeInv, NEW c \in Active, Unreset(c, readings),
           UnresetAt(cycles[c].start, readings),
           \A i \in DOMAIN readings : Placed(readings[i], cycles),
           Begun(c, cycles[c], readings),
           NEW x, x = Consumed(nights, Day(cycles[c].start))
    PROVE  /\ x \in Nat /\ cycles[c].start <= Afternoon(day)
           /\ meter + x = cycles[c].from + Consumed(nights, day)
           /\ \A i \in DOMAIN readings :
                 /\ readings[i].event \in {"moveIn", "moveOut"}
                 /\ cycles[c].start <= readings[i].at
                 => readings[i].value + x
                    = cycles[c].from + Consumed(nights, Day(readings[i].at))
PROOF
<1>1. /\ readings \in Seq(Measure) /\ nights \in Seq(NightType)
      /\ Recorded(readings, meter, nights) /\ Len(nights) = day /\ day \in Nat
  BY MeterAssumption DEF IInv, Documents, ChargeInv
<1>2. PICK p, start :
         /\ p \in DOMAIN readings /\ start = cycles[c].start
         /\ readings[p].at = start /\ readings[p].event = "periodStart"
         /\ readings[p].value = cycles[c].from
  BY DEF Begun
<1>3. /\ DOMAIN readings \subseteq Nat /\ Len(readings) \in Nat
      /\ DOMAIN readings = 1..Len(readings)
      /\ \A i \in DOMAIN readings :
            /\ readings[i].at \in Nat /\ Day(readings[i].at) \in Nat
            /\ readings[i].value \in Nat
            /\ Day(readings[i].at) <= Len(nights)
  BY <1>1, ReadingsAre DEF Recorded
<1>4. start \in Nat /\ Day(start) <= day /\ p \in Nat
  BY <1>1, <1>2, <1>3
<1>5. x \in Nat
  <2>1. Day(start) \in 0..Len(nights)
    BY <1>1, <1>2, <1>3
  <2>. QED BY <1>1, <1>2, <2>1, ConsumedNat
<1>6. start <= Afternoon(day)
  BY <1>1, <1>4 DEF Afternoon, Day
<1>7. \A r \in DOMAIN readings :
         start <= readings[r].at => readings[r].event \notin Resets
  BY <1>2, NoneSince
<1>8. \A g, h \in DOMAIN readings :
         g < h => /\ readings[g].event \in Resets \/ readings[h].event \in Resets
                        => readings[g].at <= readings[h].at
                  /\ NoReset(readings, g, h) =>
                        Upto(readings[h]) + Consumed(nights, Day(readings[g].at))
                        = readings[g].value
                          + Consumed(nights, Day(readings[h].at))
  <2>1. \A g, h \in DOMAIN readings :
         g < h => /\ readings[g].event \in Resets \/ readings[h].event \in Resets
                        => Before(readings, g, h)
                  /\ NoReset(readings, g, h) =>
                        Upto(readings[h]) + Consumed(nights, Day(readings[g].at))
                        = readings[g].value
                          + Consumed(nights, Day(readings[h].at))
    BY <1>1 DEF Recorded
  <2>2. \A g, h \in DOMAIN readings :
           Before(readings, g, h) => readings[g].at <= readings[h].at
    BY <1>3 DEF Before
  <2>. QED BY <2>1, <2>2
<1>9. meter + x = cycles[c].from + Consumed(nights, day)
  <2>1. NoReset(readings, p, Len(readings) + 1)
    <3>1. ASSUME NEW r \in DOMAIN readings, p < r PROVE readings[r].event \notin Resets
      <4>1. readings[r].event \in Resets => start <= readings[r].at
        BY <1>2, <1>8, <3>1
      <4>. QED BY <1>7, <4>1
    <3>. QED BY <3>1 DEF NoReset
  <2>2. \A i \in DOMAIN readings : NoReset(readings, i, Len(readings) + 1) =>
           meter + Consumed(nights, Day(readings[i].at))
           = readings[i].value + Consumed(nights, Len(nights))
    BY <1>1 DEF Recorded
  <2>. QED BY <1>1, <1>2, <2>1, <2>2
<1>10. ASSUME NEW i \in DOMAIN readings, start <= readings[i].at,
              readings[i].event \in {"moveIn", "moveOut"}
       PROVE  readings[i].value + x
              = cycles[c].from + Consumed(nights, Day(readings[i].at))
  <2>1. i # p
    BY <1>2, <1>10
  <2>2. \A r \in DOMAIN readings :
           \/ p < r /\ r < i
           \/ i < r /\ r < p
           => readings[r].event \notin Resets
    <3>1. TAKE r \in DOMAIN readings
    <3>2. p < r /\ readings[r].event \in Resets => start <= readings[r].at
      BY <1>2, <1>8
    <3>3. i < r /\ readings[r].event \in Resets => start <= readings[r].at
      <4>1. i < r /\ readings[r].event \in Resets =>
               readings[i].at <= readings[r].at
        BY <1>8
      <4>2. readings[i].at \in Nat /\ readings[r].at \in Nat
        BY <1>3
      <4>. QED BY <1>4, <1>10, <4>1, <4>2
    <3>. QED BY <1>7, <3>2, <3>3
  <2>3. NoReset(readings, p, i) /\ NoReset(readings, i, p)
    BY <2>2 DEF NoReset
  <2>4. Upto(readings[i]) = readings[i].value /\ Upto(readings[p]) = readings[p].value
    BY <1>2, <1>10 DEF Upto, Resets
  <2>5. PICK v, y, f : /\ v = readings[i].value
                       /\ y = Consumed(nights, Day(readings[i].at))
                       /\ f = cycles[c].from
    OBVIOUS
  <2>6. p < i => v + x = f + y
    BY <1>2, <1>8, <2>3, <2>4, <2>5
  <2>7. i < p => f + y = v + x
    BY <1>2, <1>8, <2>3, <2>4, <2>5
  <2>8. i \in Nat
    BY <1>3
  <2>. QED BY <1>4, <2>1, <2>5, <2>6, <2>7, <2>8
<1>. QED BY <1>2, <1>5, <1>6, <1>9, <1>10

\* What a transfer is computed from: the start, the departure, and the comings
\* and goings so far.
LEMMA TransferReadingsAre ==
    ASSUME IInv, ChargeInv, NEW c \in Active, Unreset(c, readings),
           UnresetAt(cycles[c].start, readings),
           \A i \in DOMAIN readings : Placed(readings[i], cycles),
           Begun(c, cycles[c], readings), NEW t \in Tenants,
           NEW start, start = cycles[c].start, NEW from, from = cycles[c].from,
           NEW at, at = Afternoon(day), NEW q, q = TransferReadings(c, t, at)
    PROVE  /\ Steady(q, nights, start, at, from)
           /\ \A i \in DOMAIN q :
                 \/ q[i].event = "periodStart" /\ q[i].at = start
                 \/ /\ q[i].event = "moveOut"
                    /\ q[i].tenant = t /\ q[i].at = at
                 \/ /\ q[i].event \in {"moveIn", "moveOut"}
                    /\ \E j \in DOMAIN readings : q[i] = readings[j]
PROOF
<1>1. PICK x : x = Consumed(nights, Day(start))
  OBVIOUS
<1>2. /\ x \in Nat /\ start <= at
      /\ meter + x = from + Consumed(nights, day)
      /\ \A i \in DOMAIN readings :
            /\ readings[i].event \in {"moveIn", "moveOut"}
            /\ start <= readings[i].at
            => readings[i].value + x
               = from + Consumed(nights, Day(readings[i].at))
  BY <1>1, ShownInOpen
<1>3. /\ readings \in Seq(Measure) /\ nights \in Seq(NightType)
      /\ Recorded(readings, meter, nights) /\ Len(nights) = day
      /\ day \in Nat /\ meter \in Nat
  BY MeterAssumption DEF IInv, Documents, ChargeInv
<1>4. /\ DOMAIN readings = 1..Len(readings) /\ Len(readings) \in Nat
      /\ \A i \in DOMAIN readings :
            /\ readings[i] \in Measure /\ readings[i].at \in Nat
            /\ readings[i].value \in Nat
            /\ Day(readings[i].at) \in 0..Len(nights)
  BY <1>3, ReadingsAre, SeqParts DEF Recorded
<1>5. PICK inside, z :
        /\ inside = {i \in DOMAIN readings :
                       /\ readings[i].at >= start /\ readings[i].at < at
                       /\ readings[i].event \notin {"periodStart", "periodEnd"}}
        /\ z = Len(readings) + 1
  OBVIOUS
<1>6. /\ DOMAIN q = inside \cup {0, z}
      /\ q[0] = Reading(start, "periodStart", Nobody, from, c)
      /\ q[z] = Reading(at, "moveOut", t, meter, c)
      /\ \A i \in inside : q[i] = readings[i]
  <2>1. q = [i \in inside \cup {0, z} |->
               IF i = 0 THEN Reading(start, "periodStart", Nobody, from, c)
               ELSE IF i \in inside THEN readings[i]
               ELSE Reading(at, "moveOut", t, meter, c)]
    BY <1>5, Zenon DEF TransferReadings
  <2>2. 0 \notin inside /\ z \notin inside /\ z # 0
    BY <1>4, <1>5
  <2>. QED BY <2>1, <2>2
<1>7. \A i \in inside : /\ i \in DOMAIN readings /\ start <= readings[i].at
                        /\ readings[i].at <= at
                        /\ readings[i].event \in {"moveIn", "moveOut"}
  <2>1. at \in Nat /\ start \in Nat
    BY <1>3, WrittenForLast DEF Afternoon
  <2>2. TAKE i \in inside
  <2>3. i \in DOMAIN readings /\ start <= readings[i].at /\ readings[i].at <= at
    BY <1>4, <1>5, <2>1
  <2>4. readings[i].event \notin Resets
    BY <2>3, NoneSince
  <2>5. readings[i].event \in {"moveIn", "moveOut"}
    BY <1>4, <1>5, <2>3, <2>4 DEF Measure, Resets
  <2>. QED BY <2>3, <2>5
<1>8. /\ start \in Nat /\ at \in Nat /\ Day(at) = day /\ from \in Nat
  <2>1. start \in Nat /\ c \in DOMAIN cycles
    BY WrittenForLast
  <2>2. at \in Nat /\ Day(at) = day
    BY <1>3, DayOf DEF Afternoon
  <2>3. PICK X : cycles \in Seq(CycleWith(X))
    BY DEF IInv, Documents
  <2>4. cycles[c] \in CycleWith(X)
    BY <2>1, <2>3, SeqParts
  <2>5. from \in Nat
    <3>1. cycles[c].from \in Nat
      BY ONLY <2>4 DEF CycleWith
    <3>. QED BY <3>1
  <2>. QED BY <2>1, <2>2, <2>5
<1>9. /\ q[0].at = start /\ q[0].event = "periodStart" /\ q[0].value = from
      /\ q[z].at = at /\ q[z].event = "moveOut" /\ q[z].value = meter
      /\ q[z].tenant = t
  BY <1>6 DEF Reading
<1>10. IsFiniteSet(DOMAIN q) /\ DOMAIN q \subseteq Nat
  <2>1. DOMAIN q \subseteq 0..z
    BY <1>4, <1>5, <1>6
  <2>2. IsFiniteSet(0..z)
    BY <1>4, <1>5, FS_Interval
  <2>3. 0..z \subseteq Nat
    OBVIOUS
  <2>. QED BY <2>1, <2>2, <2>3, FS_Subset
<1>11. \A d \in 0..day : Consumed(nights, d) \in Nat
  BY <1>3, ConsumedNat
<1>12. ASSUME NEW i \in DOMAIN q
       PROVE  /\ q[i].at \in Nat /\ start <= q[i].at /\ q[i].at <= at
              /\ q[i].value \in Nat /\ q[i].event \notin Resets
              /\ Consumed(nights, Day(q[i].at)) \in Nat
              /\ q[i].value + Consumed(nights, Day(start))
                 = from + Consumed(nights, Day(q[i].at))
  <2>1. CASE i = 0
    BY <1>1, <1>2, <1>8, <1>9, <2>1 DEF Resets
  <2>2. CASE i = z
    BY <1>1, <1>2, <1>3, <1>8, <1>9, <1>11, <2>2 DEF Resets
  <2>3. CASE i \in inside
    <3>1. q[i] = readings[i]
      BY <1>6, <2>3
    <3>2. /\ readings[i].at \in Nat /\ start <= readings[i].at
          /\ readings[i].at <= at /\ readings[i].value \in Nat
          /\ readings[i].event \notin Resets
          /\ Consumed(nights, Day(readings[i].at)) \in Nat
          /\ readings[i].value + x
             = from + Consumed(nights, Day(readings[i].at))
      BY <1>2, <1>3, <1>4, <1>7, <1>11, <2>3 DEF Resets
    <3>. QED BY <1>1, <3>1, <3>2
  <2>. QED BY <1>6, <2>1, <2>2, <2>3
<1>13. Steady(q, nights, start, at, from)
  <2>1. 0 \in DOMAIN q /\ z \in DOMAIN q
    BY <1>6
  <2>. QED BY <1>9, <1>10, <1>12, <2>1, Zenon DEF Steady
<1>14. ASSUME NEW i \in DOMAIN q
       PROVE  \/ q[i].event = "periodStart" /\ q[i].at = start
              \/ /\ q[i].event = "moveOut"
                 /\ q[i].tenant = t /\ q[i].at = at
              \/ /\ q[i].event \in {"moveIn", "moveOut"}
                 /\ \E j \in DOMAIN readings : q[i] = readings[j]
  <2>1. CASE i \in inside
    BY <1>6, <1>7, <2>1
  <2>. QED BY <1>6, <1>9, <2>1
<1>. QED BY <1>13, <1>14

\* The start, the departure of t, and comings and goings of rows.
Departing(q, rows, start, at, t) ==
    \A i \in DOMAIN q :
       \/ q[i].event = "periodStart" /\ q[i].at = start
       \/ q[i].event = "moveOut" /\ q[i].tenant = t /\ q[i].at = at
       \/ q[i].event \in {"moveIn", "moveOut"} /\ Moved(q[i], rows)

\* A computation from such readings charges who departs what is due.
LEMMA SteadyIsDue ==
    ASSUME IInv, ChargeInv, Single(stays), RowsTell(stays, nights, joined),
           NEW t \in Tenants, Present(t), NEW start \in Nat, NEW at \in Nat,
           start <= at, Day(at) = day, NEW from \in Nat, NEW q,
           Steady(q, nights, start, at, from),
           Departing(q, stays, start, at, t),
           Consumed(nights, Day(start)) \in Nat,
           Computes(q, start, at, from, t)
    PROVE  Line(Segments(q, start, at, from, t), t)
           = Due(stays, nights, Day(start), day, t)
PROOF
<1>1. \A i \in DOMAIN q :
         \/ q[i].event = "periodStart" /\ q[i].at = start
         \/ q[i].event = "moveOut" /\ q[i].tenant = t /\ q[i].at = at
         \/ q[i].event \in {"moveIn", "moveOut"} /\ Moved(q[i], stays)
  BY DEF Departing
<1>2. start <= at
  OBVIOUS
<1>3. /\ stays \in Seq(Row) /\ nights \in Seq(NightType)
      /\ Len(nights) = day /\ day \in Nat
  BY MeterAssumption DEF IInv, Documents, ChargeInv
<1>4. start \in Nat /\ at \in Nat /\ Day(at) = day /\ from \in Nat
  OBVIOUS
<1>5. /\ Tells(q, nights, start, at, from)
      /\ \A i \in DOMAIN q :
            q[i].value = Shows(nights, Day(start), from, Day(q[i].at))
  BY SteadyTells
<1>6. PICK g \in DOMAIN stays : /\ stays[g].tenant = t
                                /\ stays[g].status = "active"
  BY DEF Present
<1>7. /\ \A h \in DOMAIN stays : stays[h].tenant = t => h = g
      /\ stays[g].out = None
  BY <1>6 DEF Single, IInv, StayInv
<1>8. PICK s, e : s = Day(start) /\ e = Day(at)
  OBVIOUS
<1>9. /\ s \in Nat /\ e \in Nat /\ s <= e
      /\ \A i \in DOMAIN q : Day(q[i].at) \in s..e
  <2>1. s \in Nat /\ e \in Nat
    BY <1>4, <1>8 DEF Day
  <2>2. s <= e
    BY <1>2, <1>4, <1>8, DaysInOrder
  <2>3. ASSUME NEW i \in DOMAIN q PROVE Day(q[i].at) \in s..e
    <3>1. q[i].at \in Nat /\ start <= q[i].at /\ q[i].at <= at
      BY DEF Steady
    <3>2. Day(q[i].at) \in Nat
      BY <3>1 DEF Day
    <3>3. s <= Day(q[i].at)
      BY <1>4, <1>8, <3>1, DaysInOrder
    <3>4. Day(q[i].at) <= e
      BY <1>4, <1>8, <3>1, DaysInOrder
    <3>. QED BY <2>1, <3>2, <3>3, <3>4
  <2>. QED BY <2>1, <2>2, <2>3
<1>10. ASSUME NEW i \in DOMAIN q, NEW u, u = q[i].tenant, NEW d, d = Day(q[i].at)
       PROVE  /\ d \in Breaks(stays, s, e)
              /\ q[i].event = "moveIn" => d = Day(Came(u, start, at))
              /\ q[i].event = "moveOut" =>
                    /\ Went(u, start, at, t) # None
                    /\ d = Day(Went(u, start, at, t))
  <2>1. CASE q[i].event = "periodStart" /\ q[i].at = start
    BY <1>8, <1>10, <2>1 DEF Breaks
  <2>2. CASE q[i].event = "moveOut" /\ q[i].tenant = t /\ q[i].at = at
    <3>1. Went(u, start, at, t) = at /\ d = e
      BY <1>8, <1>10, <2>2 DEF Went
    <3>2. at # None
      BY <1>4 DEF None
    <3>. QED BY <1>8, <2>2, <3>1, <3>2 DEF Breaks
  <2>3. CASE q[i].event \in {"moveIn", "moveOut"} /\ Moved(q[i], stays)
    <3>1. Moved(q[i], stays)
      BY <2>3
    <3>2. CASE q[i].event = "moveIn"
      <4>1. PICK h \in DOMAIN stays : /\ stays[h].tenant = u
                                      /\ Day(stays[h].in) = d
        BY <1>10, <3>1, <3>2 DEF Moved
      <4>2. Came(u, start, at) = stays[h].in
        <5>1. /\ stays \in Seq(Row) /\ Single(stays) /\ h \in DOMAIN stays
              /\ u = stays[h].tenant
          BY <1>3, <4>1
        <5>. QED BY ONLY <5>1, RowForIs
      <4>3. d \in Breaks(stays, s, e)
        BY <1>9, <1>10, <4>1 DEF Breaks
      <4>. QED BY <3>2, <4>1, <4>2, <4>3
    <3>3. CASE q[i].event = "moveOut"
      <4>1. PICK h \in DOMAIN stays : /\ stays[h].tenant = u
                                      /\ stays[h].out # None
                                      /\ Day(stays[h].out) = d
        BY <1>10, <3>1, <3>3 DEF Moved
      <4>2. u # t
        BY <1>7, <4>1
      <4>3. Went(u, start, at, t) = stays[h].out
        <5>1. RowFor(u, start, at) = h
          BY <1>3, <4>1, RowForIs
        <5>. QED BY <4>2, <5>1 DEF Went
      <4>4. d \in Breaks(stays, s, e)
        BY <1>9, <1>10, <4>1 DEF Breaks
      <4>. QED BY <3>3, <4>1, <4>3, <4>4
    <3>. QED BY <2>3, <3>2, <3>3
  <2>. QED BY <1>1, <2>1, <2>2, <2>3
<1>11. Moves(q, nights, start, at, from, t)
  <2>1. ASSUME NEW i \in DOMAIN q
        PROVE  LET u == q[i].tenant
                   shown == Day(start) < Day(q[i].at) =>
                      q[i].value
                      = Shows(nights, Day(start), from, Day(q[i].at))
               IN  /\ Day(q[i].at) \in Breaks(stays, Day(start), Day(at))
                   /\ q[i].event = "moveIn" =>
                         Day(q[i].at) = Day(Came(u, start, at)) /\ shown
                   /\ q[i].event = "moveOut" =>
                         /\ Went(u, start, at, t) # None
                         /\ Day(q[i].at) = Day(Went(u, start, at, t))
                         /\ shown
    BY <1>5, <1>8, <1>10
  <2>. QED BY <2>1, Zenon DEF Moves
<1>12. /\ ~Missing(q, start, at, t)
       /\ ~\E k \in DOMAIN Segments(q, start, at, from, t) :
             Segments(q, start, at, from, t)[k].units < 0
  BY DEF Computes, Trouble
<1>13. /\ IInv /\ Single(stays) /\ RowsTell(stays, nights, joined)
       /\ nights \in Seq(NightType) /\ start \in Nat /\ at \in Nat
       /\ start <= at /\ Day(at) <= Len(nights)
       /\ \A h \in DOMAIN stays :
             stays[h].tenant = t => stays[h].status = "active"
       /\ from \in Nat /\ Tells(q, nights, start, at, from)
       /\ Moves(q, nights, start, at, from, t)
       /\ ~Missing(q, start, at, t)
       /\ ~\E k \in DOMAIN Segments(q, start, at, from, t) :
             Segments(q, start, at, from, t)[k].units < 0
       /\ t \in Tenants
  BY <1>2, <1>3, <1>4, <1>5, <1>6, <1>7, <1>11, <1>12
<1>14. Line(Segments(q, start, at, from, t), t)
       = Due(stays, nights, Day(start), Day(at), t)
  BY ONLY <1>13, EngineIsDue
<1>. QED BY <1>4, <1>14

\* What a transfer settles is what is due up to its day.
LEMMA TransferIsDue ==
    ASSUME IInv, ChargeInv, Single(stays), RowsTell(stays, nights, joined),
           NEW c \in Active, Unreset(c, readings),
           UnresetAt(cycles[c].start, readings),
           \A i \in DOMAIN readings : /\ Placed(readings[i], cycles)
                                      /\ Moved(readings[i], stays),
           Begun(c, cycles[c], readings), NEW t \in Tenants, Present(t),
           NEW start, start = cycles[c].start, NEW from, from = cycles[c].from,
           NEW at, at = Afternoon(day), NEW q, q = TransferReadings(c, t, at),
           Computes(q, start, at, from, t)
    PROVE  Line(Segments(q, start, at, from, t), t)
           = Due(stays, nights, Day(start), day, t)
PROOF
<1>1. /\ Steady(q, nights, start, at, from)
      /\ \A i \in DOMAIN q :
            \/ q[i].event = "periodStart" /\ q[i].at = start
            \/ /\ q[i].event = "moveOut"
               /\ q[i].tenant = t /\ q[i].at = at
            \/ /\ q[i].event \in {"moveIn", "moveOut"}
               /\ \E j \in DOMAIN readings : q[i] = readings[j]
  <2>1. /\ IInv /\ ChargeInv /\ c \in Active /\ Unreset(c, readings)
        /\ UnresetAt(cycles[c].start, readings)
        /\ \A i \in DOMAIN readings : Placed(readings[i], cycles)
        /\ Begun(c, cycles[c], readings) /\ t \in Tenants
        /\ start = cycles[c].start /\ from = cycles[c].from
        /\ at = Afternoon(day) /\ q = TransferReadings(c, t, at)
    OBVIOUS
  <2>. QED BY ONLY <2>1, TransferReadingsAre
<1>2. Departing(q, stays, start, at, t)
  <2>1. \A i \in DOMAIN readings : Moved(readings[i], stays)
    OBVIOUS
  <2>. QED BY ONLY <1>1, <2>1 DEF Departing
<1>3. Consumed(nights, Day(start)) \in Nat /\ start <= at
  <2>1. /\ IInv /\ ChargeInv /\ c \in Active /\ Unreset(c, readings)
        /\ UnresetAt(cycles[c].start, readings)
        /\ \A i \in DOMAIN readings : Placed(readings[i], cycles)
        /\ Begun(c, cycles[c], readings)
    OBVIOUS
  <2>2. /\ Consumed(nights, Day(cycles[c].start)) \in Nat
        /\ cycles[c].start <= Afternoon(day)
    BY ONLY <2>1, ShownInOpen
  <2>. QED BY <2>2
<1>4. start \in Nat /\ at \in Nat /\ Day(at) = day /\ from \in Nat
  <2>1. cycles[c].start \in Nat /\ c \in DOMAIN cycles
    BY WrittenForLast
  <2>2. Afternoon(day) \in Nat /\ Day(Afternoon(day)) = day
    <3>1. day \in Nat
      BY MeterAssumption DEF IInv, Documents
    <3>. QED BY ONLY <3>1, DayOf DEF Afternoon
  <2>3. PICK X : cycles \in Seq(CycleWith(X))
    BY DEF IInv, Documents
  <2>4. cycles[c] \in CycleWith(X)
    BY ONLY <2>1, <2>3, SeqParts
  <2>5. cycles[c].from \in Nat
    BY ONLY <2>4 DEF CycleWith
  <2>. QED BY <2>1, <2>2, <2>5
<1>5. /\ IInv /\ ChargeInv /\ Single(stays) /\ RowsTell(stays, nights, joined)
      /\ t \in Tenants /\ Present(t) /\ Computes(q, start, at, from, t)
  OBVIOUS
<1>. QED BY ONLY <1>1, <1>2, <1>3, <1>4, <1>5, SteadyIsDue

-----------------------------------------------------------------------------
(* The readings of a close and of a revision                                *)

\* Today's close of the open cycle c is computed from q.
Closing(c, start, end, e, ended, q) ==
    /\ c \in Active /\ end = Midnight(day)
    /\ start = cycles[c].start /\ start < end
    /\ e = Reading(end, "periodEnd", Nobody, meter, c)
    /\ ended = Append(readings, e)
    /\ q = CycleReadings(c, ended, start, end)

\* The close selects readings of the cycle, from its start to its end.
LEMMA CloseEvidence ==
    ASSUME IInv, ChargeInv, NEW c, NEW start, NEW end, NEW e, NEW ended, NEW q,
           Closing(c, start, end, e, ended, q)
    PROVE  /\ e \in Measure
           /\ \E J :
                 /\ q = Restrict(ended, J)
                 /\ Evidence(ended, meter, nights, J, c, start, end)
                 /\ \A i \in J : ended[i].cycle = c
                 /\ \A i \in DOMAIN ended :
                       /\ start <= ended[i].at /\ ended[i].at <= end
                       /\ ended[i].cycle = c /\ ended[i].tenant = Nobody
                       => i \in J
PROOF
<1>0. /\ c \in Active /\ end = Midnight(day)
      /\ start = cycles[c].start /\ start < end
      /\ e = Reading(end, "periodEnd", Nobody, meter, c)
      /\ ended = Append(readings, e)
      /\ q = CycleReadings(c, ended, start, end)
  BY DEF Closing
<1>1. /\ readings \in Seq(Measure) /\ meter \in Nat
      /\ day \in 0..LastDay /\ day \in Nat
  BY MeterAssumption DEF IInv, Documents
<1>2. /\ nights \in Seq(NightType) /\ Len(nights) = day
      /\ Recorded(readings, meter, nights)
      /\ Accounts(cycles, readings, nights)
  BY DEF ChargeInv
<1>3. end \in Instants /\ end \in Nat /\ Day(end) = day
  BY <1>0, <1>1, InstantsAre, InstantNat, DayOf
<1>4. /\ c \in DOMAIN cycles /\ c \in Nat /\ start \in Nat
      /\ \A i \in DOMAIN readings : readings[i].cycle <= c
  BY <1>0, WrittenForLast
<1>5. PICK z : z = Len(readings) + 1
  OBVIOUS
<1>6. /\ e \in Measure /\ e.at = end /\ e.cycle = c /\ e.value = meter
      /\ e.tenant = Nobody /\ e.event \notin Resets /\ e.event # "moveIn"
  BY <1>0, <1>1, <1>3, <1>4 DEF Reading, Measure, Resets
<1>7. /\ ended \in Seq(Measure) /\ Recorded(ended, meter, nights)
      /\ z \in DOMAIN ended /\ ended[z] = e
      /\ \A i \in DOMAIN ended : ended[i].cycle <= c
  <2>1. /\ readings \in Seq(Measure) /\ meter \in Nat /\ Day(e.at) = day
        /\ \A i \in DOMAIN readings : readings[i].cycle <= e.cycle
        /\ ended = Append(readings, e)
    BY <1>0, <1>1, <1>3, <1>4, <1>6
  <2>2. /\ ended \in Seq(Measure) /\ Recorded(ended, meter, nights)
        /\ Len(readings) + 1 \in DOMAIN ended /\ ended[Len(readings) + 1] = e
        /\ \A i \in DOMAIN ended : ended[i].cycle <= e.cycle
    BY ONLY <1>2, <1>6, <2>1, Written
  <2>. QED BY <1>5, <1>6, <2>2
<1>8. Accounts(cycles, ended, nights)
  BY <1>0, <1>1, <1>2, <1>6, AccountsReading
<1>9. PICK a \in DOMAIN ended : /\ ended[a].at = start /\ ended[a].cycle = c
                                /\ ended[a].tenant = Nobody
  BY <1>0, <1>4, <1>8 DEF Accounts, Account
<1>10. PICK M, J :
       /\ J = {i \in DOMAIN ended :
                 /\ ended[i].at >= start /\ ended[i].at <= end
                 /\ ended[i].cycle = c
                 /\ ended[i].tenant # Nobody => ended[i].tenant \in M}
       /\ q = Restrict(ended, J)
  <2>1. PICK M : M = {t \in Billable(start, end, Nobody) :
                        \/ CameInside(t, start, end)
                        \/ WentInside(t, start, end, Nobody)}
    OBVIOUS
  <2>2. PICK J : J = {i \in DOMAIN ended :
                        /\ ended[i].at >= start /\ ended[i].at <= end
                        /\ ended[i].cycle = c
                        /\ ended[i].tenant # Nobody => ended[i].tenant \in M}
    OBVIOUS
  <2>3. q = CycleReadings(c, ended, start, end)
    BY <1>0
  <2>4. q = Restrict(ended, J)
    BY ONLY <2>1, <2>2, <2>3, Zenon DEF CycleReadings
  <2>. QED BY <2>2, <2>4
<1>11. start <= end
  <2>1. start < end /\ start \in Nat /\ end \in Nat
    BY <1>0, <1>3, <1>4
  <2>. QED BY ONLY <2>1
<1>12. Selected(ended, J)
  <2>1. J \subseteq DOMAIN ended
    BY <1>10
  <2>2. ASSUME NEW i \in J, NEW j \in J, NEW h \in DOMAIN ended,
               ended[h].event \in Resets,
               Before(ended, i, h), Before(ended, h, j)
        PROVE  h \in J
    <3>1. i \in DOMAIN ended /\ j \in DOMAIN ended
      BY <2>1
    <3>2. /\ ended[i].at <= ended[h].at /\ ended[h].at <= ended[j].at
          /\ ended[i].cycle <= ended[h].cycle
          /\ ended[h].cycle <= ended[j].cycle
          /\ ended[h].tenant = Nobody
      <4>1. /\ ended \in Seq(Measure) /\ Recorded(ended, meter, nights)
            /\ h \in DOMAIN ended /\ ended[h].event \in Resets
            /\ Before(ended, i, h) /\ Before(ended, h, j)
        BY <1>7, <2>2
      <4>. QED BY ONLY <3>1, <4>1, ResetBetween
    <3>3. /\ start <= ended[i].at /\ ended[j].at <= end
          /\ ended[i].cycle = c /\ ended[j].cycle = c
      BY <1>10
    <3>4. /\ ended[i].at \in Nat /\ ended[j].at \in Nat
          /\ ended[h].at \in Nat /\ ended[h].cycle \in Nat
      BY <1>7, <3>1, ReadingsAre
    <3>5. ended[h].at >= start /\ ended[h].at <= end /\ ended[h].cycle = c
      <4>1. start \in Nat /\ end \in Nat /\ c \in Nat
        BY <1>3, <1>4
      <4>. QED BY ONLY <3>2, <3>3, <3>4, <4>1
    <3>. QED BY <1>10, <3>2, <3>5
  <2>. QED BY <2>1, <2>2 DEF Selected
<1>13. /\ \A i \in J : /\ start <= ended[i].at /\ ended[i].at <= end
                       /\ ended[i].cycle = c
       /\ J \subseteq DOMAIN ended
       /\ \A i \in DOMAIN ended :
             /\ start <= ended[i].at /\ ended[i].at <= end
             /\ ended[i].cycle = c /\ ended[i].tenant = Nobody
             => i \in J
  <2>1. \A i \in DOMAIN ended : ended[i].at \in Nat
    BY <1>7, ReadingsAre
  <2>. QED BY <1>3, <1>4, <1>10, <2>1
<1>14. a \in J /\ z \in J
  BY <1>3, <1>4, <1>6, <1>7, <1>9, <1>11, <1>13
<1>15. Evidence(ended, meter, nights, J, c, start, end)
  BY <1>2, <1>3, <1>4, <1>6, <1>7, <1>9, <1>12, <1>13, <1>14 DEF Evidence
<1>. QED BY <1>6, <1>10, <1>13, <1>15

\* A close charges what is due up to the day.
LEMMA CloseIsDue ==
    ASSUME IInv, ChargeInv, Single(stays), RowsTell(stays, nights, joined),
           \A i \in DOMAIN readings : /\ Placed(readings[i], cycles)
                                      /\ Moved(readings[i], stays),
           NEW c, NEW start, NEW end, NEW e, NEW ended, NEW q,
           Closing(c, start, end, e, ended, q),
           Unreset(c, readings), Begun(c, cycles[c], readings),
           NEW from, from = cycles[c].from,
           Computes(q, start, end, from, Nobody), NEW t \in Tenants
    PROVE  Line(Segments(q, start, end, from, Nobody), t)
           = Due(stays, nights, Day(start), Day(end), t)
PROOF
<1>1. PICK J :
         /\ q = Restrict(ended, J)
         /\ Evidence(ended, meter, nights, J, c, start, end)
         /\ \A i \in J : ended[i].cycle = c
         /\ \A i \in DOMAIN ended :
               /\ start <= ended[i].at /\ ended[i].at <= end
               /\ ended[i].cycle = c /\ ended[i].tenant = Nobody
               => i \in J
  <2>1. IInv /\ ChargeInv /\ Closing(c, start, end, e, ended, q)
    OBVIOUS
  <2>. QED BY ONLY <2>1, CloseEvidence
<1>2. /\ ended \in Seq(Measure) /\ nights \in Seq(NightType)
      /\ Recorded(ended, meter, nights)
      /\ Selected(ended, J) /\ J \subseteq DOMAIN ended
      /\ start \in Nat /\ end \in Nat
      /\ \A i \in J : start <= ended[i].at /\ ended[i].at <= end
      /\ \E i \in J : ended[i].at = end
  BY <1>1 DEF Evidence, Selected
<1>3. /\ DOMAIN ended = DOMAIN readings \cup {Len(readings) + 1}
      /\ \A i \in DOMAIN readings : ended[i] = readings[i]
      /\ ended[Len(readings) + 1] = e
  <2>1. readings \in Seq(Measure)
    BY DEF IInv, Documents
  <2>2. e \in Measure
    BY CloseEvidence
  <2>. QED BY <2>1, <2>2, Appended DEF Closing
<1>4. e.event = "periodEnd" /\ e.at = end
  BY DEF Reading, Closing
<1>5. /\ c \in DOMAIN cycles /\ c \in Nat /\ cycles[c].end = None
  BY WrittenForLast DEF Closing
<1>6. start <= end /\ Day(end) <= Len(nights)
  <2>1. start < end
    BY DEF Closing
  <2>2. start <= end
    BY ONLY <1>2, <2>1
  <2>3. day \in Nat /\ Len(nights) = day /\ end = Midnight(day)
    BY MeterAssumption DEF IInv, Documents, ChargeInv, Closing
  <2>. QED BY <2>2, <2>3, DayOf
<1>7. from \in Nat
  <2>1. PICK X : cycles \in Seq(CycleWith(X))
    BY DEF IInv, Documents
  <2>2. cycles[c] \in CycleWith(X)
    BY <1>5, <2>1, SeqParts
  <2>3. cycles[c].from \in Nat
    BY ONLY <2>2 DEF CycleWith
  <2>. QED BY <2>3
<1>8. \E p \in J : /\ ended[p].at = start /\ ended[p].cycle = c
                   /\ ended[p].event = "periodStart" /\ ended[p].value = from
  <2>1. PICK p \in DOMAIN readings :
           /\ readings[p].at = start /\ readings[p].cycle = c
           /\ readings[p].event = "periodStart"
           /\ readings[p].tenant = Nobody /\ readings[p].value = from
    BY DEF Begun, Closing
  <2>2. p \in DOMAIN ended /\ ended[p] = readings[p]
    BY <1>3
  <2>3. start <= start
    BY <1>2
  <2>. QED BY <1>1, <1>6, <2>1, <2>2, <2>3
<1>9. \A i \in DOMAIN ended : ended[i].event \in Resets => ended[i].cycle # c
  BY <1>3, <1>4 DEF Unreset, Resets
<1>10. ASSUME NEW i \in J
       PROVE  /\ Moved(ended[i], stays)
              /\ ended[i].event \notin {"moveIn", "moveOut"} =>
                    ended[i].at \in {start, end}
  <2>1. CASE i = Len(readings) + 1
    BY <1>3, <1>4, <2>1 DEF Moved
  <2>2. CASE i \in DOMAIN readings
    <3>1. ended[i] = readings[i] /\ ended[i].cycle = c /\ ended[i].at \in Nat
      BY <1>1, <1>2, <1>3, <2>2, ReadingsAre
    <3>2. Moved(ended[i], stays) /\ Placed(ended[i], cycles)
      BY <2>2, <3>1
    <3>3. ended[i].event # "periodEnd"
      <4>1. ended[i].event = "periodEnd" => ended[i].at = None
        BY <1>5, <3>1, <3>2 DEF Placed
      <4>. QED BY ONLY <3>1, <4>1 DEF None
    <3>4. ended[i].event \notin Resets
      BY <1>1, <1>2, <1>9
    <3>5. ended[i] \in Measure
      BY <1>2, SeqParts
    <3>6. ended[i].event \in {"periodStart", "moveIn", "moveOut"}
      BY <3>3, <3>4, <3>5 DEF Measure, Resets
    <3>7. start = cycles[c].start
      BY DEF Closing
    <3>. QED BY <3>1, <3>2, <3>6, <3>7 DEF Placed
  <2>. QED BY <1>2, <1>3, <2>1, <2>2
<1>11. Faithful(ended, meter, nights, J, c, start, end, from)
  BY <1>1, <1>2, <1>8, <1>9, <1>10 DEF Faithful
<1>12. /\ IInv /\ Single(stays) /\ RowsTell(stays, nights, joined)
       /\ t \in Tenants /\ Computes(q, start, end, from, Nobody)
  OBVIOUS
<1>. QED BY ONLY <1>1, <1>2, <1>5, <1>6, <1>7, <1>11, <1>12, FaithfulIsDue

\* A revision of an ended cycle charges what is due up to its end.
LEMMA ReviseIsDue ==
    ASSUME IInv, ChargeInv, Single(stays), RowsTell(stays, nights, joined),
           \A i \in DOMAIN readings : /\ Placed(readings[i], cycles)
                                      /\ Moved(readings[i], stays),
           NEW c \in DOMAIN cycles, Unreset(c, readings),
           Begun(c, cycles[c], readings),
           NEW start, NEW end, NEW from,
           start = cycles[c].start /\ end = cycles[c].end /\ from = cycles[c].from,
           end # None, NEW q, q = AllReadings(start, end),
           Computes(q, start, end, from, Nobody), NEW t \in Tenants
    PROVE  Line(Segments(q, start, end, from, Nobody), t)
           = Due(stays, nights, Day(start), Day(end), t)
PROOF
<1>1. /\ readings \in Seq(Measure) /\ nights \in Seq(NightType)
      /\ Recorded(readings, meter, nights) /\ Len(nights) = day
      /\ Accounts(cycles, readings, nights) /\ Ordered(cycles)
  BY DEF IInv, Documents, ChargeInv
<1>2. PICK X : cycles \in Seq(CycleWith(X))
  BY DEF IInv, Documents
<1>3. /\ DOMAIN cycles \subseteq Nat
      /\ \A d \in DOMAIN cycles :
            /\ cycles[d].start \in Nat /\ cycles[d].from \in Nat
            /\ cycles[d].end # None =>
                  cycles[d].end \in Nat /\ cycles[d].start <= cycles[d].end
  <2>1. DOMAIN cycles \subseteq Nat
    BY <1>2, SeqParts
  <2>2. ASSUME NEW d \in DOMAIN cycles
        PROVE  /\ cycles[d].start \in Nat /\ cycles[d].from \in Nat
               /\ cycles[d].end # None => /\ cycles[d].end \in Nat
                                          /\ cycles[d].start <= cycles[d].end
    <3>1. cycles[d] \in CycleWith(X)
      BY <1>2, SeqParts
    <3>2. /\ cycles[d].start \in Instants /\ cycles[d].from \in Nat
          /\ cycles[d].end # None => cycles[d].end \in Instants
      BY ONLY <3>1 DEF CycleWith
    <3>3. cycles[d].end # None => cycles[d].start <= cycles[d].end
      BY <1>1 DEF Accounts, Account
    <3>. QED BY <3>2, <3>3, InstantNat
  <2>. QED BY <2>1, <2>2
<1>4. /\ start \in Nat /\ end \in Nat /\ from \in Nat /\ c \in Nat /\ start <= end
  BY <1>3
<1>5. \E i \in DOMAIN readings : readings[i].at = end
  BY <1>1 DEF Accounts, Account
<1>6. \A d \in DOMAIN cycles :
         /\ d < c => /\ cycles[d].end # None /\ cycles[d].end <= start
                     /\ cycles[d].start <= start
         /\ c < d => /\ end <= cycles[d].start
                     /\ cycles[d].end # None => end <= cycles[d].end
  <2>1. TAKE d \in DOMAIN cycles
  <2>2. ASSUME d < c
        PROVE  /\ cycles[d].end # None /\ cycles[d].end <= start
               /\ cycles[d].start <= start
    <3>1. cycles[d].end # None /\ cycles[d].end <= cycles[c].start
      BY <1>1, <2>2 DEF Ordered
    <3>2. /\ cycles[d].start \in Nat /\ cycles[d].end \in Nat
          /\ cycles[d].start <= cycles[d].end
      BY <1>3, <3>1
    <3>. QED BY <1>4, <3>1, <3>2
  <2>3. ASSUME c < d
        PROVE  /\ end <= cycles[d].start
               /\ cycles[d].end # None => end <= cycles[d].end
    <3>1. end <= cycles[d].start
      BY <1>1, <2>3 DEF Ordered
    <3>2. /\ cycles[d].start \in Nat
          /\ cycles[d].end # None =>
                cycles[d].end \in Nat /\ cycles[d].start <= cycles[d].end
      BY <1>3
    <3>. QED BY <1>4, <3>1, <3>2
  <2>. QED BY <2>2, <2>3
<1>7. PICK J : /\ J = {i \in DOMAIN readings :
                         readings[i].at >= start /\ readings[i].at <= end}
               /\ q = Restrict(readings, J)
  BY Zenon DEF AllReadings
<1>8. \A i \in DOMAIN readings :
         /\ readings[i] \in Measure /\ readings[i].at \in Nat
         /\ readings[i].cycle \in DOMAIN cycles /\ readings[i].cycle \in Nat
         /\ Day(readings[i].at) <= Len(nights)
  <2>1. \A i \in DOMAIN readings :
           readings[i].at \in Nat /\ readings[i].cycle \in Nat
    BY <1>1, ReadingsAre
  <2>2. \A i \in DOMAIN readings : /\ readings[i].cycle \in DOMAIN cycles
                                   /\ Day(readings[i].at) <= Len(nights)
    BY <1>1 DEF IInv, ReadingInv, Recorded
  <2>. QED BY <1>1, <2>1, <2>2, SeqParts
<1>9. /\ \A i \in J : /\ i \in DOMAIN readings
                      /\ start <= readings[i].at /\ readings[i].at <= end
      /\ \A i \in DOMAIN readings :
            start <= readings[i].at /\ readings[i].at <= end => i \in J
  BY <1>4, <1>7, <1>8
<1>10. Selected(readings, J)
  BY <1>1, <1>4, <1>7, RevisionSelects
<1>11. \E p \in J : /\ readings[p].at = start /\ readings[p].cycle = c
                    /\ readings[p].event = "periodStart"
                    /\ readings[p].value = from
  <2>1. PICK p \in DOMAIN readings :
           /\ readings[p].at = start /\ readings[p].cycle = c
           /\ readings[p].event = "periodStart" /\ readings[p].value = from
    BY DEF Begun
  <2>2. p \in J
    BY <1>4, <1>9, <2>1
  <2>. QED BY <2>1, <2>2
<1>12. \E i \in J : readings[i].at = end
  BY <1>4, <1>5, <1>9
<1>13. \A i \in DOMAIN readings :
          readings[i].event \in Resets => readings[i].cycle # c
  BY DEF Unreset
<1>14. ASSUME NEW i \in J
       PROVE  /\ Moved(readings[i], stays)
              /\ readings[i].event \notin {"moveIn", "moveOut"} =>
                    readings[i].at \in {start, end}
              /\ readings[i].event \in Resets /\ c < readings[i].cycle =>
                    readings[i].at = end
  <2>1. PICK d, at, ev : /\ d = readings[i].cycle /\ at = readings[i].at
                         /\ ev = readings[i].event
    OBVIOUS
  <2>2. /\ i \in DOMAIN readings /\ at \in Nat /\ start <= at /\ at <= end
        /\ d \in DOMAIN cycles /\ d \in Nat
        /\ ev \in {"periodStart", "periodEnd", "moveIn", "moveOut",
                   "meterReplacement"}
    BY <1>8, <1>9, <2>1 DEF Measure
  <2>3. /\ Moved(readings[i], stays) /\ Placed(readings[i], cycles)
    BY <2>2
  <2>4. /\ ev = "periodStart" => at = cycles[d].start
        /\ ev = "periodEnd" => at = cycles[d].end
        /\ ev \in Resets =>
              /\ cycles[d].start <= at
              /\ cycles[d].end # None => at <= cycles[d].end
    BY <2>1, <2>3 DEF Placed
  <2>5. PICK s, e : s = cycles[d].start /\ e = cycles[d].end
    OBVIOUS
  <2>6. s \in Nat /\ (e # None => e \in Nat)
    BY <1>3, <2>2, <2>5
  <2>7. CASE d = c
    <3>1. ev \notin Resets
      BY <1>13, <2>1, <2>2, <2>7
    <3>. QED BY <2>1, <2>2, <2>3, <2>4, <2>7, <3>1 DEF Resets
  <2>8. CASE d < c
    <3>1. e # None /\ e <= start /\ s <= start
      BY <1>6, <2>2, <2>5, <2>8
    <3>2. ev \notin {"moveIn", "moveOut"} => at <= start
      BY <1>4, <2>2, <2>4, <2>5, <2>6, <3>1 DEF Resets
    <3>3. ev \notin {"moveIn", "moveOut"} => at = start
      BY <1>4, <2>2, <3>2
    <3>4. ~(c < d)
      BY <1>4, <2>2, <2>8
    <3>. QED BY <2>1, <2>3, <3>3, <3>4
  <2>9. CASE c < d
    <3>1. end <= s /\ (e # None => end <= e)
      BY <1>6, <2>2, <2>5, <2>9
    <3>2. ev = "periodEnd" => e # None
      BY <2>2, <2>4, <2>5 DEF None
    <3>3. ev \notin {"moveIn", "moveOut"} => end <= at
      BY <1>4, <2>2, <2>4, <2>5, <2>6, <3>1, <3>2 DEF Resets
    <3>4. ev \notin {"moveIn", "moveOut"} => at = end
      BY <1>4, <2>2, <3>3
    <3>. QED BY <2>1, <2>3, <3>4 DEF Resets
  <2>. QED BY <1>4, <2>2, <2>7, <2>8, <2>9
<1>15. Faithful(readings, meter, nights, J, c, start, end, from)
  BY <1>1, <1>9, <1>10, <1>11, <1>12, <1>13, <1>14 DEF Faithful
<1>16. Day(end) <= Len(nights)
  BY <1>5, <1>8
<1>17. /\ IInv /\ Single(stays) /\ RowsTell(stays, nights, joined)
       /\ t \in Tenants /\ Computes(q, start, end, from, Nobody)
  OBVIOUS
<1>. QED BY ONLY <1>4, <1>7, <1>15, <1>16, <1>17, FaithfulIsDue

-----------------------------------------------------------------------------
(* Rows and nights that are added                                           *)

\* Of the rows, some were added on day d and some ended on it.
Grown(rows, new, d) ==
    /\ DOMAIN rows \subseteq DOMAIN new
    /\ \A h \in DOMAIN rows :
          /\ new[h].tenant = rows[h].tenant /\ new[h].in = rows[h].in
          /\ rows[h].out # None => new[h].out = rows[h].out
          /\ rows[h].out = None /\ new[h].out # None => Day(new[h].out) = d
    /\ \A h \in DOMAIN new :
          h \notin DOMAIN rows => Day(new[h].in) = d /\ new[h].out = None

LEMMA GrownSame ==
    ASSUME NEW rows, NEW d
    PROVE  Grown(rows, rows, d)
PROOF
BY DEF Grown

LEMMA GrownSingle ==
    ASSUME NEW rows, NEW new, NEW d, Grown(rows, new, d), Single(new)
    PROVE  Single(rows)
PROOF
BY DEF Grown, Single

LEMMA GrownMoved ==
    ASSUME NEW rows, NEW new, NEW d, Grown(rows, new, d), NEW r, Moved(r, rows)
    PROVE  Moved(r, new)
PROOF
<1>1. ASSUME NEW h \in DOMAIN rows
      PROVE  /\ h \in DOMAIN new /\ new[h].tenant = rows[h].tenant
             /\ new[h].in = rows[h].in
             /\ rows[h].out # None => new[h].out = rows[h].out
  BY DEF Grown
<1>2. r.event = "moveIn" =>
         \E h \in DOMAIN new : /\ new[h].tenant = r.tenant
                               /\ Day(new[h].in) = Day(r.at)
  <2>1. SUFFICES ASSUME r.event = "moveIn"
                 PROVE  \E h \in DOMAIN new : /\ new[h].tenant = r.tenant
                                              /\ Day(new[h].in) = Day(r.at)
    OBVIOUS
  <2>2. PICK h \in DOMAIN rows : /\ rows[h].tenant = r.tenant
                                 /\ Day(rows[h].in) = Day(r.at)
    BY <2>1 DEF Moved
  <2>. QED BY <1>1, <2>2
<1>3. r.event = "moveOut" =>
         \E h \in DOMAIN new : /\ new[h].tenant = r.tenant
                               /\ new[h].out # None
                               /\ Day(new[h].out) = Day(r.at)
  <2>1. SUFFICES ASSUME r.event = "moveOut"
                 PROVE  \E h \in DOMAIN new : /\ new[h].tenant = r.tenant
                                              /\ new[h].out # None
                                              /\ Day(new[h].out) = Day(r.at)
    OBVIOUS
  <2>2. PICK h \in DOMAIN rows : /\ rows[h].tenant = r.tenant
                                 /\ rows[h].out # None
                                 /\ Day(rows[h].out) = Day(r.at)
    BY <2>1 DEF Moved
  <2>. QED BY <1>1, <2>2
<1>4. r.event \in {"moveIn", "moveOut"} => r.at # Midnight(Day(r.at))
  BY DEF Moved
<1>. QED BY <1>2, <1>3, <1>4 DEF Moved

\* They change nothing of what was due before.
LEMMA GrownDue ==
    ASSUME NEW rows, NEW new, NEW d \in Nat, Grown(rows, new, d), NEW ns,
           NEW s \in Nat, NEW e \in Nat, e <= d, NEW t
    PROVE  Due(new, ns, s, e, t) = Due(rows, ns, s, e, t)
PROOF
<1>1. ASSUME NEW x \in Breaks(rows, s, e) PROVE x \in Breaks(new, s, e)
  <2>1. CASE x \in {s, e}
    BY <2>1 DEF Breaks
  <2>2. CASE x \notin {s, e}
    <3>1. PICK h \in DOMAIN rows :
             /\ x \in s..e
             /\ \/ x = Day(rows[h].in)
                \/ rows[h].out # None /\ x = Day(rows[h].out)
      BY <2>2 DEF Breaks
    <3>2. /\ h \in DOMAIN new /\ new[h].in = rows[h].in
          /\ rows[h].out # None => new[h].out = rows[h].out
      BY DEF Grown
    <3>3. \/ x = Day(new[h].in)
          \/ new[h].out # None /\ x = Day(new[h].out)
      BY <3>1, <3>2
    <3>. QED BY <3>1, <3>2, <3>3 DEF Breaks
  <2>. QED BY <2>1, <2>2
<1>2. ASSUME NEW x \in Breaks(new, s, e) PROVE x \in Breaks(rows, s, e)
  <2>1. CASE x \in {s, e}
    BY <2>1 DEF Breaks
  <2>2. CASE x \notin {s, e}
    <3>1. PICK h \in DOMAIN new :
             /\ x \in s..e
             /\ \/ x = Day(new[h].in)
                \/ new[h].out # None /\ x = Day(new[h].out)
      BY <2>2 DEF Breaks
    <3>2. x # d
      BY <2>2, <3>1
    <3>3. h \in DOMAIN rows
      BY <3>1, <3>2 DEF Grown
    <3>4. /\ new[h].in = rows[h].in
          /\ rows[h].out # None => new[h].out = rows[h].out
          /\ rows[h].out = None /\ new[h].out # None => Day(new[h].out) = d
      BY <3>3 DEF Grown
    <3>5. \/ x = Day(rows[h].in)
          \/ rows[h].out # None /\ x = Day(rows[h].out)
      BY <3>1, <3>2, <3>4
    <3>. QED BY <3>1, <3>3, <3>5 DEF Breaks
  <2>. QED BY <2>1, <2>2
<1>3. Breaks(new, s, e) = Breaks(rows, s, e)
  BY <1>1, <1>2
<1>. QED BY <1>3 DEF Due

\* Nor does another night.
OneMore(ns, n, ms) == ms = Append(ns, n)

LEMMA NightDue ==
    ASSUME NEW ns \in Seq(NightType), NEW n \in NightType,
           NEW ms, OneMore(ns, n, ms), NEW rows,
           NEW s \in Nat, NEW e \in Nat, s <= e, e <= Len(ns), NEW t
    PROVE  Due(rows, ms, s, e, t) = Due(rows, ns, s, e, t)
PROOF
<1>1. PICK B : B = Breaks(rows, s, e)
  OBVIOUS
<1>2. /\ Len(ns) \in Nat /\ DOMAIN ns = 1..Len(ns)
      /\ \A m \in DOMAIN ns : ms[m] = ns[m]
      /\ \A d \in 0..Len(ns) : Consumed(ms, d) = Consumed(ns, d)
  <2>1. Len(ns) \in Nat /\ DOMAIN ns = 1..Len(ns)
    BY SeqParts
  <2>2. \A m \in DOMAIN ns : ms[m] = ns[m]
    BY Appended DEF OneMore
  <2>3. \A d \in 0..Len(ns) : Consumed(ms, d) = Consumed(ns, d)
    BY ConsumedMore DEF OneMore
  <2>. QED BY <2>1, <2>2, <2>3
<1>3. B \subseteq s..e /\ B \subseteq Nat /\ IsFiniteSet(B)
  <2>1. B \subseteq s..e
    BY <1>1 DEF Breaks
  <2>2. IsFiniteSet(s..e) /\ s..e \subseteq Nat
    <3>1. s \in Int /\ e \in Int
      OBVIOUS
    <3>2. IsFiniteSet(s..e)
      BY <3>1, FS_Interval
    <3>. QED BY <3>2
  <2>. QED BY <2>1, <2>2, FS_Subset
<1>4. ASSUME NEW a \in B PROVE Portion(ms, B, a, t) = Portion(ns, B, a, t)
  <2>1. CASE \E b \in B : a < b
    <3>1. NextOf(B, a) \in B /\ a < NextOf(B, a)
      BY <1>3, <2>1, NextIs
    <3>2. PICK b : b = NextOf(B, a)
      OBVIOUS
    <3>3. a \in 0..Len(ns) /\ b \in 0..Len(ns) /\ a + 1 \in DOMAIN ns
      <4>1. /\ a \in s..e /\ b \in s..e /\ a < b /\ s \in Nat /\ e \in Nat
            /\ e <= Len(ns)
        BY <1>3, <3>1, <3>2
      <4>. QED BY ONLY <1>2, <4>1
    <3>4. /\ Consumed(ms, a) = Consumed(ns, a) /\ Consumed(ms, b) = Consumed(ns, b)
          /\ ms[a + 1] = ns[a + 1]
      BY <1>2, <3>3
    <3>. QED BY <3>2, <3>4 DEF Portion
  <2>2. CASE ~\E b \in B : a < b
    BY <2>2 DEF Portion
  <2>. QED BY <2>1, <2>2
<1>5. \A a \in B : Portions(ms, B, t)[a] = Portions(ns, B, t)[a]
  BY <1>4 DEF Portions
<1>6. SumOf(B, Portions(ms, B, t)) = SumOf(B, Portions(ns, B, t))
  BY <1>3, <1>5, SumSame
<1>. QED BY <1>1, <1>6 DEF Due

\* Rows stay true when some are added or end today.
LEMMA GrownRows ==
    ASSUME NEW rows \in Seq(Row), NEW new \in Seq(Row), NEW ns \in Seq(NightType),
           Grown(rows, new, Len(ns)), NEW js, NEW ks, RowsTell(rows, ns, js),
           Since(new, ks)
    PROVE  RowsTell(new, ns, ks)
PROOF
<1>1. Len(ns) \in Nat /\ DOMAIN ns = 1..Len(ns)
  BY SeqParts
<1>2. /\ \A h \in DOMAIN rows : Day(rows[h].in) \in Nat
      /\ \A h \in DOMAIN new : Day(new[h].in) \in Nat
  BY RowsAre
<1>3. ASSUME NEW h \in DOMAIN rows
      PROVE  /\ h \in DOMAIN new
             /\ new[h].tenant = rows[h].tenant /\ new[h].in = rows[h].in
             /\ rows[h].out # None => new[h].out = rows[h].out
             /\ rows[h].out = None /\ new[h].out # None =>
                   Day(new[h].out) = Len(ns)
  BY DEF Grown
<1>4. \A h \in DOMAIN new :
         h \notin DOMAIN rows => Day(new[h].in) = Len(ns) /\ new[h].out = None
  BY DEF Grown
<1>5. ASSUME NEW h \in DOMAIN rows
      PROVE  /\ Day(rows[h].in) <= Len(ns)
             /\ rows[h].out # None => /\ Day(rows[h].in) <= Day(rows[h].out)
                                      /\ Day(rows[h].out) <= Len(ns)
  BY DEF RowsTell
<1>6. ASSUME NEW h \in DOMAIN new
      PROVE  /\ Day(new[h].in) <= Len(ns)
             /\ new[h].out # None => /\ Day(new[h].in) <= Day(new[h].out)
                                     /\ Day(new[h].out) <= Len(ns)
  <2>1. CASE h \in DOMAIN rows
    <3>1. CASE rows[h].out = None
      BY <1>1, <1>2, <1>3, <1>5, <2>1, <3>1
    <3>2. CASE rows[h].out # None
      BY <1>3, <1>5, <2>1, <3>2
    <3>. QED BY <3>1, <3>2
  <2>2. CASE h \notin DOMAIN rows
    BY <1>1, <1>4, <2>2
  <2>. QED BY <2>1, <2>2
<1>7. ASSUME NEW n \in DOMAIN ns, NEW t \in Tenants
      PROVE  t \in ns[n].who <=>
                \E h \in DOMAIN new : new[h].tenant = t /\ Spent(new[h], n)
  <2>1. n \in Nat /\ n <= Len(ns)
    BY <1>1
  <2>2. ASSUME NEW h \in DOMAIN rows PROVE Spent(rows[h], n) <=> Spent(new[h], n)
    <3>1. CASE rows[h].out = None
      BY <1>3, <2>1, <3>1 DEF Spent
    <3>2. CASE rows[h].out # None
      BY <1>3, <3>2 DEF Spent
    <3>. QED BY <3>1, <3>2
  <2>3. ASSUME NEW h \in DOMAIN new, h \notin DOMAIN rows
        PROVE  ~Spent(new[h], n)
    BY <1>1, <1>4, <2>1, <2>3 DEF Spent
  <2>4. t \in ns[n].who <=>
           \E h \in DOMAIN rows : rows[h].tenant = t /\ Spent(rows[h], n)
    BY DEF RowsTell
  <2>5. (\E h \in DOMAIN rows : rows[h].tenant = t /\ Spent(rows[h], n))
        <=> \E h \in DOMAIN new : new[h].tenant = t /\ Spent(new[h], n)
    BY <1>3, <2>2, <2>3
  <2>. QED BY <2>4, <2>5
<1>. QED BY <1>6, <1>7 DEF RowsTell

-----------------------------------------------------------------------------
(* What is charged and what was settled is what is due                      *)

\* Unless the meter was replaced in it or somebody came back to the room.
ChargesDue(c, cy, rs, rows, ns) ==
    Unreset(c, rs) /\ Single(rows) =>
       \A t \in Tenants :
          cy.lines[t] = Due(rows, ns, Day(cy.start), Day(cy.end), t)

\* A settlement is of the day on which a stay ended, in the cycle.
SettlesDue(x, cs, rs, rows, ns) ==
    /\ x.cycle \in DOMAIN cs /\ x.tenant \in Tenants
    /\ \E h \in DOMAIN rows :
          LET start == cs[x.cycle].start
              out == rows[h].out
          IN  /\ rows[h].tenant = x.tenant /\ out # None
              /\ Day(start) <= Day(out)
              /\ cs[x.cycle].end # None => Day(out) <= Day(cs[x.cycle].end)
              /\ Unreset(x.cycle, rs) /\ UnresetAt(start, rs) /\ Single(rows)
                 => x.amount = Due(rows, ns, Day(start), Day(out), x.tenant)

ShareInv ==
    /\ RowsTell(stays, nights, joined)
    /\ \A i \in DOMAIN readings : /\ Placed(readings[i], cycles)
                                  /\ Moved(readings[i], stays)
    /\ \A c \in DOMAIN cycles :
          /\ Begun(c, cycles[c], readings)
          /\ cycles[c].computed =>
                ChargesDue(c, cycles[c], readings, stays, nights)
    /\ \A x \in settled : SettlesDue(x, cycles, readings, stays, nights)

\* Readings and cycles are added; of a cycle, only the end comes to be known.
Extends(f, g) ==
    /\ DOMAIN f \subseteq DOMAIN g
    /\ \A i \in DOMAIN f : g[i] = f[i]

Follows(cs, new, d) ==
    \A c \in DOMAIN cs :
       /\ c \in DOMAIN new
       /\ new[c].start = cs[c].start /\ new[c].from = cs[c].from
       /\ cs[c].end # None => new[c].end = cs[c].end
       /\ cs[c].end = None /\ new[c].end # None =>
             /\ new[c].end \in Nat /\ Midnight(d) <= new[c].end
             /\ Day(new[c].end) = d

LEMMA CycleTimes ==
    ASSUME IInv, ChargeInv, NEW c \in DOMAIN cycles
    PROVE  /\ day \in Nat /\ c \in Nat
           /\ cycles[c].start \in Nat /\ cycles[c].from \in Nat
           /\ Day(cycles[c].start) \in Nat /\ Day(cycles[c].start) <= day
           /\ cycles[c].end # None =>
                 /\ cycles[c].end \in Nat /\ cycles[c].start <= cycles[c].end
                 /\ Day(cycles[c].end) \in Nat /\ Day(cycles[c].end) <= day
                 /\ Day(cycles[c].start) <= Day(cycles[c].end)
PROOF
<1>1. /\ readings \in Seq(Measure) /\ Recorded(readings, meter, nights)
      /\ Len(nights) = day /\ day \in Nat
      /\ Accounts(cycles, readings, nights)
  BY MeterAssumption DEF IInv, Documents, ChargeInv
<1>2. PICK X : cycles \in Seq(CycleWith(X))
  BY DEF IInv, Documents
<1>3. cycles[c] \in CycleWith(X) /\ c \in Nat
  BY <1>2, SeqParts
<1>4. /\ cycles[c].start \in Instants /\ cycles[c].from \in Nat
      /\ cycles[c].end # None => cycles[c].end \in Instants
  BY ONLY <1>3 DEF CycleWith
<1>5. /\ cycles[c].start \in Nat /\ Day(cycles[c].start) \in Nat
      /\ cycles[c].end # None =>
            cycles[c].end \in Nat /\ Day(cycles[c].end) \in Nat
  BY <1>4, InstantNat
<1>6. \A i \in DOMAIN readings : Day(readings[i].at) <= day
  BY <1>1 DEF Recorded
<1>7. /\ \E i \in DOMAIN readings : readings[i].at = cycles[c].start
      /\ cycles[c].end # None =>
            /\ cycles[c].start <= cycles[c].end
            /\ \E i \in DOMAIN readings : readings[i].at = cycles[c].end
  BY <1>1 DEF Accounts, Account
<1>8. /\ Day(cycles[c].start) <= day
      /\ cycles[c].end # None => Day(cycles[c].end) <= day
  BY <1>6, <1>7
<1>9. cycles[c].end # None => Day(cycles[c].start) <= Day(cycles[c].end)
  BY <1>5, <1>7, DaysInOrder
<1>. QED BY <1>1, <1>3, <1>4, <1>5, <1>7, <1>8, <1>9

LEMMA PlacedStill ==
    ASSUME IInv, ChargeInv, NEW ds, Follows(cycles, ds, day),
           NEW i \in DOMAIN readings, Placed(readings[i], cycles)
    PROVE  Placed(readings[i], ds)
PROOF
<1>1. PICK r, c, d : r = readings[i] /\ c = r.cycle /\ d = Day(r.at)
  OBVIOUS
<1>2. /\ c \in DOMAIN cycles /\ r.at \in Nat /\ d \in Nat /\ d <= day
      /\ day \in Nat
      /\ r.event \in Resets => r.at = Midnight(d)
  <2>1. /\ readings \in Seq(Measure) /\ Recorded(readings, meter, nights)
        /\ Len(nights) = day /\ day \in Nat
    BY MeterAssumption DEF IInv, Documents, ChargeInv
  <2>2. c \in DOMAIN cycles
    BY <1>1 DEF IInv, ReadingInv
  <2>3. r.at \in Nat /\ d \in Nat
    BY <1>1, <2>1, ReadingsAre
  <2>4. d <= day /\ (r.event \in Resets => r.at = Midnight(d))
    BY <1>1, <2>1 DEF Recorded
  <2>. QED BY <2>1, <2>2, <2>3, <2>4
<1>3. /\ ds[c].start = cycles[c].start
      /\ cycles[c].end # None => ds[c].end = cycles[c].end
      /\ cycles[c].end = None /\ ds[c].end # None => Midnight(day) <= ds[c].end
  BY <1>2 DEF Follows
<1>4. /\ r.event = "periodStart" => r.at = cycles[c].start
      /\ r.event = "periodEnd" => r.at = cycles[c].end
      /\ r.event \in Resets =>
            /\ cycles[c].start <= r.at
            /\ cycles[c].end # None => r.at <= cycles[c].end
  BY <1>1 DEF Placed
<1>5. r.event = "periodEnd" => r.at = ds[c].end
  <2>1. r.at # None
    BY <1>2 DEF None
  <2>. QED BY <1>3, <1>4, <2>1
<1>6. ASSUME r.event \in Resets, ds[c].end # None PROVE r.at <= ds[c].end
  <2>1. CASE cycles[c].end # None
    BY <1>3, <1>4, <1>6, <2>1
  <2>2. CASE cycles[c].end = None
    <3>1. r.at = 4 * d /\ 4 * day <= ds[c].end
      BY <1>2, <1>3, <1>6, <2>2 DEF Midnight
    <3>2. ds[c].end \in Nat
      BY <1>2, <1>6, <2>2 DEF Follows
    <3>. QED BY <1>2, <3>1, <3>2
  <2>. QED BY <2>1, <2>2
<1>. QED BY <1>1, <1>3, <1>4, <1>5, <1>6 DEF Placed

LEMMA ChargesStill ==
    ASSUME IInv, ChargeInv, NEW new, Grown(stays, new, day),
           NEW qs, Extends(readings, qs), NEW c \in DOMAIN cycles,
           cycles[c].computed,
           ChargesDue(c, cycles[c], readings, stays, nights),
           NEW cy, cy.start = cycles[c].start, cy.end = cycles[c].end,
           cy.lines = cycles[c].lines
    PROVE  ChargesDue(c, cy, qs, new, nights)
PROOF
<1>1. SUFFICES ASSUME Unreset(c, qs), Single(new), NEW t \in Tenants
               PROVE  cy.lines[t]
                      = Due(new, nights, Day(cy.start), Day(cy.end), t)
  BY DEF ChargesDue
<1>2. Unreset(c, readings)
  BY <1>1 DEF Unreset, Extends
<1>3. Single(stays)
  BY <1>1, GrownSingle
<1>4. cycles[c].lines[t]
      = Due(stays, nights, Day(cycles[c].start), Day(cycles[c].end), t)
  BY <1>2, <1>3 DEF ChargesDue
<1>5. cycles[c].end # None
  BY DEF ChargeInv, Accounts, Account
<1>6. PICK s, e : s = Day(cycles[c].start) /\ e = Day(cycles[c].end)
  OBVIOUS
<1>7. day \in Nat /\ s \in Nat /\ e \in Nat /\ e <= day
  BY <1>5, <1>6, CycleTimes
<1>8. Due(new, nights, s, e, t) = Due(stays, nights, s, e, t)
  BY <1>7, GrownDue
<1>. QED BY <1>4, <1>6, <1>8

LEMMA SettlesStill ==
    ASSUME IInv, ChargeInv, RowsTell(stays, nights, joined),
           NEW new, Grown(stays, new, day),
           NEW qs, Extends(readings, qs), NEW ds, Follows(cycles, ds, day),
           NEW x, SettlesDue(x, cycles, readings, stays, nights)
    PROVE  SettlesDue(x, ds, qs, new, nights)
PROOF
<1>1. PICK c, t : c = x.cycle /\ t = x.tenant
  OBVIOUS
<1>2. c \in DOMAIN cycles /\ t \in Tenants
  BY <1>1 DEF SettlesDue
<1>3. PICK start, h, out :
        /\ h \in DOMAIN stays /\ start = cycles[c].start /\ out = stays[h].out
        /\ stays[h].tenant = t /\ out # None
        /\ Day(start) <= Day(out)
        /\ cycles[c].end # None => Day(out) <= Day(cycles[c].end)
        /\ Unreset(c, readings) /\ UnresetAt(start, readings) /\ Single(stays)
           => x.amount = Due(stays, nights, Day(start), Day(out), t)
  BY <1>1 DEF SettlesDue
<1>4. /\ h \in DOMAIN new /\ new[h].tenant = t /\ new[h].out = out
  BY <1>3 DEF Grown
<1>5. /\ c \in DOMAIN ds /\ ds[c].start = start
      /\ cycles[c].end # None => ds[c].end = cycles[c].end
      /\ cycles[c].end = None /\ ds[c].end # None => Day(ds[c].end) = day
  BY <1>2, <1>3 DEF Follows
<1>6. day \in Nat /\ Day(start) \in Nat /\ Day(out) \in Nat /\ Day(out) <= day
  <2>1. day \in Nat /\ Day(start) \in Nat
    BY <1>2, <1>3, CycleTimes
  <2>2. stays \in Seq(Row) /\ Len(nights) = day
    BY DEF IInv, Documents, ChargeInv
  <2>3. Day(out) \in Nat
    BY <1>3, <2>2, RowsAre
  <2>4. Day(out) <= day
    BY <1>3, <2>2 DEF RowsTell
  <2>. QED BY <2>1, <2>3, <2>4
<1>7. ds[c].end # None => Day(out) <= Day(ds[c].end)
  BY <1>3, <1>5, <1>6
<1>8. ASSUME Unreset(c, qs), UnresetAt(start, qs), Single(new)
      PROVE  x.amount = Due(new, nights, Day(start), Day(out), t)
  <2>1. Unreset(c, readings) /\ UnresetAt(start, readings)
    BY <1>8 DEF Unreset, UnresetAt, Extends
  <2>2. Single(stays)
    BY <1>8, GrownSingle
  <2>3. x.amount = Due(stays, nights, Day(start), Day(out), t)
    BY <1>3, <2>1, <2>2
  <2>4. PICK s, e : s = Day(start) /\ e = Day(out)
    OBVIOUS
  <2>5. day \in Nat /\ s \in Nat /\ e \in Nat /\ e <= day
    BY <1>6, <2>4
  <2>6. Due(new, nights, s, e, t) = Due(stays, nights, s, e, t)
    BY <2>5, GrownDue
  <2>. QED BY <2>3, <2>4, <2>6
<1>9. /\ h \in DOMAIN new /\ new[h].tenant = x.tenant /\ new[h].out # None
      /\ x.cycle \in DOMAIN ds /\ x.tenant \in Tenants
      /\ Day(ds[x.cycle].start) <= Day(new[h].out)
      /\ ds[x.cycle].end # None => Day(new[h].out) <= Day(ds[x.cycle].end)
      /\ /\ Unreset(x.cycle, qs) /\ UnresetAt(ds[x.cycle].start, qs)
         /\ Single(new)
         => x.amount = Due(new, nights, Day(ds[x.cycle].start),
                           Day(new[h].out), x.tenant)
  BY <1>1, <1>2, <1>3, <1>4, <1>5, <1>7, <1>8
<1>. QED BY <1>9, Zenon DEF SettlesDue

\* What a step adds is true: the rows of the day, the readings, the cycles it
\* begins or computes, and what it settles.
Advance ==
    /\ day' = day /\ nights' = nights
    /\ stays' \in Seq(Row) /\ Grown(stays, stays', day)
    /\ Since(stays', joined')
    /\ Extends(readings, readings') /\ Follows(cycles, cycles', day)
    /\ \A i \in DOMAIN readings' : i \notin DOMAIN readings =>
          Placed(readings'[i], cycles') /\ Moved(readings'[i], stays')
    /\ \A c \in DOMAIN cycles' :
          /\ c \notin DOMAIN cycles => Begun(c, cycles'[c], readings')
          /\ cycles'[c].computed =>
                \/ /\ c \in DOMAIN cycles /\ cycles[c].computed
                   /\ cycles'[c].lines = cycles[c].lines
                \/ ChargesDue(c, cycles'[c], readings', stays', nights)
    /\ \A x \in settled' :
          x \in settled \/ SettlesDue(x, cycles', readings', stays', nights)

LEMMA Advanced ==
    ASSUME IInv, ChargeInv, ShareInv, Advance
    PROVE  ShareInv'
PROOF
<1>1. /\ stays \in Seq(Row) /\ nights \in Seq(NightType) /\ Len(nights) = day
      /\ Accounts(cycles, readings, nights)
  BY DEF IInv, Documents, ChargeInv
<1>2. /\ day' = day /\ nights' = nights
      /\ stays' \in Seq(Row) /\ Grown(stays, stays', day)
      /\ Extends(readings, readings') /\ Follows(cycles, cycles', day)
      /\ Since(stays', joined')
  BY DEF Advance
<1>3. RowsTell(stays, nights, joined)
  BY DEF ShareInv
<1>4. RowsTell(stays', nights', joined')
  BY <1>1, <1>2, <1>3, GrownRows
<1>5. ASSUME NEW i \in DOMAIN readings'
      PROVE  Placed(readings'[i], cycles') /\ Moved(readings'[i], stays')
  <2>1. CASE i \notin DOMAIN readings
    BY <1>5, <2>1 DEF Advance
  <2>2. CASE i \in DOMAIN readings
    <3>1. readings'[i] = readings[i]
      BY <1>2, <2>2 DEF Extends
    <3>2. Placed(readings[i], cycles) /\ Moved(readings[i], stays)
      BY <2>2 DEF ShareInv
    <3>3. Placed(readings[i], cycles')
      BY <1>2, <2>2, <3>2, PlacedStill
    <3>4. Moved(readings[i], stays')
      BY <1>2, <3>2, GrownMoved
    <3>. QED BY <3>1, <3>3, <3>4
  <2>. QED BY <2>1, <2>2
<1>6. ASSUME NEW c \in DOMAIN cycles'
      PROVE  Begun(c, cycles'[c], readings')
  <2>1. CASE c \notin DOMAIN cycles
    BY <1>6, <2>1 DEF Advance
  <2>2. CASE c \in DOMAIN cycles
    <3>1. Begun(c, cycles[c], readings)
      BY <2>2 DEF ShareInv
    <3>2. cycles'[c].start = cycles[c].start /\ cycles'[c].from = cycles[c].from
      BY <1>2, <2>2 DEF Follows
    <3>3. \A i \in DOMAIN readings :
             i \in DOMAIN readings' /\ readings'[i] = readings[i]
      BY <1>2 DEF Extends
    <3>. QED BY <3>1, <3>2, <3>3 DEF Begun
  <2>. QED BY <2>1, <2>2
<1>7. ASSUME NEW c \in DOMAIN cycles', cycles'[c].computed
      PROVE  ChargesDue(c, cycles'[c], readings', stays', nights)
  <2>1. SUFFICES ASSUME c \in DOMAIN cycles, cycles[c].computed,
                        cycles'[c].lines = cycles[c].lines
                 PROVE  ChargesDue(c, cycles'[c], readings', stays', nights)
    BY <1>7 DEF Advance
  <2>2. ChargesDue(c, cycles[c], readings, stays, nights)
    BY <2>1 DEF ShareInv
  <2>3. cycles[c].end # None
    BY <1>1, <2>1 DEF Accounts, Account
  <2>4. cycles'[c].start = cycles[c].start /\ cycles'[c].end = cycles[c].end
    BY <1>2, <2>1, <2>3 DEF Follows
  <2>. QED BY <1>2, <2>1, <2>2, <2>4, ChargesStill
<1>8. ASSUME NEW x \in settled'
      PROVE  SettlesDue(x, cycles', readings', stays', nights)
  <2>1. CASE x \notin settled
    BY <1>8, <2>1 DEF Advance
  <2>2. CASE x \in settled
    <3>1. SettlesDue(x, cycles, readings, stays, nights)
      BY <2>2 DEF ShareInv
    <3>. QED BY <1>2, <1>3, <3>1, SettlesStill
  <2>. QED BY <2>1, <2>2
<1>9. \A i \in DOMAIN readings' : /\ Placed(readings'[i], cycles')
                                  /\ Moved(readings'[i], stays')
  BY <1>5
<1>10. \A c \in DOMAIN cycles' :
          /\ Begun(c, cycles'[c], readings')
          /\ cycles'[c].computed =>
                ChargesDue(c, cycles'[c], readings', stays', nights')
  BY <1>2, <1>6, <1>7
<1>11. \A x \in settled' : SettlesDue(x, cycles', readings', stays', nights')
  BY <1>2, <1>8
<1>. QED BY <1>4, <1>9, <1>10, <1>11 DEF ShareInv

\* The parts of the room a step leaves alone.
LEMMA Kept ==
    ASSUME IInv, ShareInv
    PROVE  /\ stays \in Seq(Row) /\ Grown(stays, stays, day)
           /\ Since(stays, joined)
           /\ Extends(readings, readings) /\ Follows(cycles, cycles, day)
PROOF
<1>1. stays \in Seq(Row)
  BY DEF IInv, Documents
<1>2. Grown(stays, stays, day)
  BY GrownSame
<1>3. Since(stays, joined)
  BY DEF ShareInv, RowsTell
<1>. QED BY <1>1, <1>2, <1>3 DEF Extends, Follows

-----------------------------------------------------------------------------
(* The steps                                                                *)

LEMMA OneReading ==
    ASSUME NEW rs \in Seq(Measure), NEW e \in Measure, NEW q, q = Append(rs, e)
    PROVE  /\ q \in Seq(Measure) /\ Extends(rs, q)
           /\ Len(rs) + 1 \in DOMAIN q /\ q[Len(rs) + 1] = e
           /\ \A i \in DOMAIN q : i \notin DOMAIN rs => q[i] = e
PROOF
BY Appended DEF Extends

LEMMA TwoReadings ==
    ASSUME NEW rs \in Seq(Measure), NEW d \in Measure, NEW e \in Measure,
           NEW q, q = Append(Append(rs, d), e)
    PROVE  /\ q \in Seq(Measure) /\ Extends(rs, q)
           /\ Len(rs) + 1 \in DOMAIN q /\ q[Len(rs) + 1] = d
           /\ \E i \in DOMAIN q : q[i] = e
           /\ \A i \in DOMAIN q : i \notin DOMAIN rs => q[i] = d \/ q[i] = e
PROOF
<1>1. PICK p : p = Append(rs, d)
  OBVIOUS
<1>2. /\ p \in Seq(Measure) /\ Extends(rs, p)
      /\ Len(rs) + 1 \in DOMAIN p /\ p[Len(rs) + 1] = d
      /\ \A i \in DOMAIN p : i \notin DOMAIN rs => p[i] = d
  <2>1. rs \in Seq(Measure) /\ d \in Measure /\ p = Append(rs, d)
    BY <1>1
  <2>. QED BY ONLY <2>1, OneReading DEF Extends
<1>3. /\ q \in Seq(Measure) /\ Extends(p, q)
      /\ Len(p) + 1 \in DOMAIN q /\ q[Len(p) + 1] = e
      /\ \A i \in DOMAIN q : i \notin DOMAIN p => q[i] = e
  <2>1. p \in Seq(Measure) /\ e \in Measure /\ q = Append(p, e)
    BY <1>1, <1>2
  <2>. QED BY ONLY <2>1, OneReading DEF Extends
<1>. QED BY <1>2, <1>3 DEF Extends

\* A cycle is begun.
Begins(cs, ds, at, from, vacancy) ==
    ds = Append(cs, Cycle(at, from, vacancy))

LEMMA OneCycle ==
    ASSUME NEW S, NEW cs \in Seq(S), NEW ds, NEW at, NEW from, NEW vacancy,
           Begins(cs, ds, at, from, vacancy), NEW d
    PROVE  /\ Follows(cs, ds, d)
           /\ Len(cs) + 1 \in DOMAIN ds
           /\ ds[Len(cs) + 1].start = at /\ ds[Len(cs) + 1].from = from
           /\ \A c \in DOMAIN cs : ds[c] = cs[c]
           /\ \A c \in DOMAIN ds :
                 \/ c \in DOMAIN cs
                 \/ c = Len(cs) + 1 /\ ~ds[c].computed
PROOF
<1>1. PICK T, cy : T = S \cup {cy} /\ cy = Cycle(at, from, vacancy)
  OBVIOUS
<1>2. cs \in Seq(T) /\ cy \in T /\ ds = Append(cs, cy)
  BY <1>1, SeqMonotonic DEF Begins
<1>3. /\ DOMAIN ds = DOMAIN cs \cup {Len(cs) + 1}
      /\ \A c \in DOMAIN cs : ds[c] = cs[c]
      /\ ds[Len(cs) + 1] = cy
  BY <1>2, Appended
<1>4. cy.start = at /\ cy.from = from /\ ~cy.computed
  BY <1>1 DEF Cycle
<1>5. Follows(cs, ds, d)
  BY <1>3 DEF Follows
<1>. QED BY <1>3, <1>4, <1>5

\* A reading that shows the meter.
LEMMA Shown ==
    ASSUME IInv, NEW at \in Instants, NEW t \in Tenants \cup {Nobody},
           NEW c \in Nat, NEW ev \in {"periodStart", "periodEnd", "moveIn", "moveOut"},
           NEW e, e = Reading(at, ev, t, meter, c)
    PROVE  /\ e \in Measure /\ e.at = at /\ e.event = ev /\ e.tenant = t
           /\ e.value = meter /\ e.cycle = c /\ e.event \notin Resets
PROOF
<1>1. Documents
  BY DEF IInv
<1>2. meter \in Nat
  BY DEF IInv, Documents
<1>3. e \in Measure
  BY <1>1, <1>2, ReadingTyped
<1>4. /\ e.at = at /\ e.event = ev /\ e.tenant = t /\ e.value = meter
      /\ e.cycle = c
  BY DEF Reading
<1>. QED BY <1>3, <1>4 DEF Resets

LEMMA OpenCycleShares ==
    ASSUME IInv, ChargeInv, ShareInv, OpenCycle
    PROVE  ShareInv'
PROOF
<1>1. /\ readings \in Seq(Measure) /\ Midnight(day) \in Instants
      /\ Len(cycles) + 1 \in Nat
  BY InstantsAre, WrittenForLast DEF IInv, Documents
<1>2. PICK X : cycles \in Seq(CycleWith(X))
  BY DEF IInv, Documents
<1>3. PICK at, n, e :
        /\ at = Midnight(day) /\ n = Len(cycles) + 1
        /\ e = Reading(at, "periodStart", Nobody, meter, n)
  OBVIOUS
<1>4. /\ Begins(cycles, cycles', at, meter, 0)
      /\ readings' = Append(readings, e)
      /\ UNCHANGED <<day, nights, stays, joined, settled>>
  BY <1>3, Zenon DEF OpenCycle, world, Begins
<1>5. /\ e \in Measure /\ e.at = at /\ e.event = "periodStart"
      /\ e.tenant = Nobody /\ e.value = meter /\ e.cycle = n
  BY <1>1, <1>3, Shown
<1>6. /\ Extends(readings, readings')
      /\ Len(readings) + 1 \in DOMAIN readings' /\ readings'[Len(readings) + 1] = e
      /\ \A i \in DOMAIN readings' : i \notin DOMAIN readings => readings'[i] = e
  <2>1. /\ readings \in Seq(Measure) /\ e \in Measure
        /\ readings' = Append(readings, e)
    BY <1>1, <1>4, <1>5
  <2>. QED BY ONLY <2>1, OneReading DEF Extends
<1>7. /\ Follows(cycles, cycles', day)
      /\ n \in DOMAIN cycles'
      /\ cycles'[n].start = at /\ cycles'[n].from = meter
      /\ \A c \in DOMAIN cycles : cycles'[c] = cycles[c]
      /\ \A c \in DOMAIN cycles' :
            c \in DOMAIN cycles \/ (c = n /\ ~cycles'[c].computed)
  <2>1. Follows(cycles, cycles', day)
    BY <1>2, <1>4, OneCycle
  <2>2. \A c \in DOMAIN cycles : cycles'[c] = cycles[c]
    BY <1>2, <1>4, OneCycle
  <2>3. /\ Len(cycles) + 1 \in DOMAIN cycles'
        /\ cycles'[Len(cycles) + 1].start = at
        /\ cycles'[Len(cycles) + 1].from = meter
        /\ \A c \in DOMAIN cycles' :
              \/ c \in DOMAIN cycles
              \/ c = Len(cycles) + 1 /\ ~cycles'[c].computed
    BY <1>2, <1>4, OneCycle
  <2>. QED BY ONLY <1>3, <2>1, <2>2, <2>3
<1>8. Placed(e, cycles') /\ Moved(e, stays')
  BY <1>5, <1>7 DEF Placed, Moved, Resets
<1>9. Begun(n, cycles'[n], readings')
  BY <1>5, <1>6, <1>7 DEF Begun
<1>10. Advance
  BY <1>4, <1>6, <1>7, <1>8, <1>9, Kept DEF Advance
<1>. QED BY <1>10, Advanced

\* Whoever enters has a row of the day.
LEMMA RowEnters ==
    ASSUME stays \in Seq(Row), NEW t \in Tenants, NEW in \in Instants,
           Day(in) = day, EnterRow(t, in), NEW h, h = Len(stays) + 1
    PROVE  /\ stays' \in Seq(Row) /\ Grown(stays, stays', day)
           /\ h \in DOMAIN stays' /\ h \notin DOMAIN stays
           /\ stays'[h].tenant = t /\ stays'[h].in = in
           /\ DOMAIN stays' = DOMAIN stays \cup {h}
           /\ \A g \in DOMAIN stays : stays'[g] = stays[g]
PROOF
<1>1. PICK r : r = [tenant |-> t, in |-> in, out |-> None, status |-> "active"]
  OBVIOUS
<1>2. /\ r \in Row /\ r.tenant = t /\ r.in = in /\ r.out = None
      /\ stays' = Append(stays, r)
  BY <1>1 DEF Row, EnterRow
<1>3. /\ stays' \in Seq(Row) /\ DOMAIN stays' = DOMAIN stays \cup {h}
      /\ h \notin DOMAIN stays /\ \A g \in DOMAIN stays : stays'[g] = stays[g]
      /\ stays'[h] = r
  BY <1>2, Appended
<1>4. Grown(stays, stays', day)
  BY <1>2, <1>3 DEF Grown
<1>. QED BY <1>2, <1>3, <1>4

\* Whoever enters is read into the open cycle or into one begun.
LEMMA EnteringShares ==
    ASSUME IInv, ChargeInv, ShareInv, NEW t \in Tenants, NEW at \in Instants,
           Day(at) = day, at # Midnight(day), EnterReading(t, at),
           NEW in \in Instants, Day(in) = day, EnterRow(t, in),
           \A u \in Tenants \ {t} : joined'[u] = joined[u],
           RowsOf(t) = {} => joined'[t] <= in,
           UNCHANGED <<day, nights, settled>>
    PROVE  Advance
PROOF
<1>1. /\ stays \in Seq(Row) /\ readings \in Seq(Measure)
      /\ \A h \in DOMAIN stays : stays[h].tenant \in Tenants
      /\ Len(cycles) \in Nat
  BY RowsAre, WrittenForLast DEF IInv, Documents
<1>2. PICK h : h = Len(stays) + 1
  OBVIOUS
<1>3. /\ stays' \in Seq(Row) /\ Grown(stays, stays', day)
      /\ h \in DOMAIN stays' /\ h \notin DOMAIN stays
      /\ stays'[h].tenant = t /\ stays'[h].in = in
      /\ DOMAIN stays' = DOMAIN stays \cup {h}
      /\ \A g \in DOMAIN stays : stays'[g] = stays[g]
  BY <1>1, <1>2, RowEnters
<1>4. Since(stays', joined')
  <2>1. SUFFICES ASSUME Single(stays'), NEW g \in DOMAIN stays'
                 PROVE  joined'[stays'[g].tenant] <= stays'[g].in
    BY DEF Since
  <2>2. \A k \in DOMAIN stays : stays[k].tenant # t
    BY <1>3, <2>1 DEF Single
  <2>3. CASE g = h
    BY <1>3, <2>2, <2>3 DEF RowsOf
  <2>4. CASE g \in DOMAIN stays
    <3>1. Single(stays)
      BY <1>3, <2>1, GrownSingle
    <3>2. joined[stays[g].tenant] <= stays[g].in
      BY <2>4, <3>1 DEF ShareInv, RowsTell, Since
    <3>. QED BY <1>1, <1>3, <2>2, <2>4, <3>2
  <2>. QED BY <1>3, <2>3, <2>4
<1>5. ASSUME NEW e, e.event = "moveIn", e.at = at, e.tenant = t, NEW cs
      PROVE  Placed(e, cs) /\ Moved(e, stays')
  BY <1>3, <1>5 DEF Placed, Moved, Resets
<1>6. CASE \E c \in Open(at) :
             /\ readings' = Append(readings, Reading(at, "moveIn", t, meter, c))
             /\ UNCHANGED cycles
  <2>1. PICK c \in Open(at) :
             /\ readings' = Append(readings, Reading(at, "moveIn", t, meter, c))
             /\ UNCHANGED cycles
    BY <1>6
  <2>2. c \in Nat
    BY WrittenForLast DEF Open
  <2>3. PICK e : e = Reading(at, "moveIn", t, meter, c)
    OBVIOUS
  <2>4. e \in Measure /\ e.event = "moveIn" /\ e.at = at /\ e.tenant = t
    BY <2>2, <2>3, Shown
  <2>5. /\ Extends(readings, readings')
        /\ \A i \in DOMAIN readings' : i \notin DOMAIN readings => readings'[i] = e
    <3>1. /\ readings \in Seq(Measure) /\ e \in Measure
          /\ readings' = Append(readings, e)
      BY <1>1, <2>1, <2>3, <2>4
    <3>. QED BY ONLY <3>1, OneReading DEF Extends
  <2>6. Placed(e, cycles') /\ Moved(e, stays')
    BY <1>5, <2>4
  <2>7. Follows(cycles, cycles', day) /\ cycles' = cycles
    BY <2>1 DEF Follows
  <2>. QED BY <1>3, <1>4, <2>5, <2>6, <2>7 DEF Advance
<1>7. CASE ~\E c \in Open(at) :
             /\ readings' = Append(readings, Reading(at, "moveIn", t, meter, c))
             /\ UNCHANGED cycles
  <2>1. PICK n : n = Len(cycles) + 1
    OBVIOUS
  <2>2. PICK d, e : /\ d = Reading(at, "periodStart", Nobody, meter, n)
                    /\ e = Reading(at, "moveIn", t, meter, n)
    OBVIOUS
  <2>3. PICK v : /\ Begins(cycles, cycles', at, meter, v)
                 /\ readings' = readings \o <<d, e>>
    BY <1>7, <2>1, <2>2, Zenon DEF EnterReading, Begins
  <2>4. /\ d \in Measure /\ d.event = "periodStart" /\ d.at = at
        /\ d.tenant = Nobody /\ d.value = meter /\ d.cycle = n
        /\ e \in Measure /\ e.event = "moveIn" /\ e.at = at /\ e.tenant = t
    <3>1. n \in Nat
      BY <1>1, <2>1
    <3>2. /\ d \in Measure /\ d.event = "periodStart" /\ d.at = at
          /\ d.tenant = Nobody /\ d.value = meter /\ d.cycle = n
      BY <2>2, <3>1, Shown
    <3>3. e \in Measure /\ e.event = "moveIn" /\ e.at = at /\ e.tenant = t
      BY <2>2, <3>1, Shown
    <3>. QED BY <3>2, <3>3
  <2>5. /\ Extends(readings, readings')
        /\ Len(readings) + 1 \in DOMAIN readings'
        /\ readings'[Len(readings) + 1] = d
        /\ \A i \in DOMAIN readings' :
              i \notin DOMAIN readings => readings'[i] = d \/ readings'[i] = e
    <3>1. readings' = Append(Append(readings, d), e)
      BY <1>1, <2>3, <2>4, Added
    <3>2. readings \in Seq(Measure) /\ d \in Measure /\ e \in Measure
      BY <1>1, <2>4
    <3>. QED BY ONLY <3>1, <3>2, TwoReadings DEF Extends
  <2>6. /\ Follows(cycles, cycles', day)
        /\ n \in DOMAIN cycles'
        /\ cycles'[n].start = at /\ cycles'[n].from = meter
        /\ \A c \in DOMAIN cycles : cycles'[c] = cycles[c]
        /\ \A c \in DOMAIN cycles' :
              c \in DOMAIN cycles \/ (c = n /\ ~cycles'[c].computed)
    <3>1. PICK X : cycles \in Seq(CycleWith(X))
      BY DEF IInv, Documents
    <3>2. Follows(cycles, cycles', day)
      BY ONLY <2>3, <3>1, OneCycle
    <3>3. \A c \in DOMAIN cycles : cycles'[c] = cycles[c]
      BY ONLY <2>3, <3>1, OneCycle
    <3>4. /\ Len(cycles) + 1 \in DOMAIN cycles'
          /\ cycles'[Len(cycles) + 1].start = at
          /\ cycles'[Len(cycles) + 1].from = meter
          /\ \A c \in DOMAIN cycles' :
                \/ c \in DOMAIN cycles
                \/ c = Len(cycles) + 1 /\ ~cycles'[c].computed
      <4>1. PICK S, cs, ds, x : /\ S = CycleWith(X) /\ cs = cycles
                                /\ ds = cycles' /\ x = meter
        OBVIOUS
      <4>2. cs \in Seq(S) /\ Begins(cs, ds, at, x, v)
        BY <2>3, <3>1, <4>1
      <4>3. /\ Len(cs) + 1 \in DOMAIN ds
            /\ ds[Len(cs) + 1].start = at /\ ds[Len(cs) + 1].from = x
            /\ \A c \in DOMAIN ds :
                  \/ c \in DOMAIN cs
                  \/ c = Len(cs) + 1 /\ ~ds[c].computed
        BY ONLY <4>2, OneCycle
      <4>. QED BY <4>1, <4>3
    <3>. QED BY ONLY <2>1, <3>2, <3>3, <3>4
  <2>7. Placed(d, cycles') /\ Moved(d, stays')
    BY <2>4, <2>6 DEF Placed, Moved, Resets
  <2>8. Placed(e, cycles') /\ Moved(e, stays')
    BY <1>5, <2>4
  <2>9. Begun(n, cycles'[n], readings')
    BY <2>4, <2>5, <2>6 DEF Begun
  <2>. QED BY <1>3, <1>4, <2>5, <2>6, <2>7, <2>8, <2>9 DEF Advance
<1>. QED BY <1>6, <1>7

LEMMA ArriveShares ==
    ASSUME IInv, ChargeInv, ShareInv, NEW t \in Tenants, Arrive(t)
    PROVE  ShareInv'
PROOF
<1>1. /\ day \in 0..LastDay /\ day \in Nat
      /\ joined \in [Tenants -> Instants \cup {None}]
  BY MeterAssumption DEF IInv, Documents
<1>2. PICK at : at = Morning(day)
  OBVIOUS
<1>3. at \in Instants /\ at \in Nat /\ Day(at) = day /\ at # Midnight(day)
  BY <1>1, <1>2, InstantsAre, DayOf
<1>4. /\ EnterReading(t, at) /\ EnterRow(t, at)
      /\ joined' = [joined EXCEPT ![t] = at]
      /\ UNCHANGED <<day, nights, settled>>
  BY <1>2, Zenon DEF Arrive, world
<1>5. /\ \A u \in Tenants \ {t} : joined'[u] = joined[u]
      /\ joined'[t] <= at
  BY <1>1, <1>3, <1>4
<1>6. Advance
  BY <1>3, <1>4, <1>5, EnteringShares
<1>. QED BY <1>6, Advanced

LEMMA TransferInShares ==
    ASSUME IInv, ChargeInv, ShareInv, NEW t \in Tenants, TransferIn(t)
    PROVE  ShareInv'
PROOF
<1>1. /\ day \in 0..LastDay /\ day \in Nat
      /\ joined \in [Tenants -> Instants \cup {None}]
  BY MeterAssumption DEF IInv, Documents
<1>2. PICK at, in : at = Afternoon(day) /\ in = Midnight(day)
  OBVIOUS
<1>3. /\ at \in Instants /\ Day(at) = day /\ at # Midnight(day)
      /\ in \in Instants /\ in \in Nat /\ Day(in) = day
  BY <1>1, <1>2, InstantsAre, DayOf
<1>4. /\ EnterReading(t, at) /\ EnterRow(t, in)
      /\ joined' = [joined EXCEPT ![t] = IF @ = None THEN 0 ELSE @]
      /\ joined[t] = None \/ MayReturn(t)
      /\ UNCHANGED <<day, nights, settled>>
  BY <1>2, Zenon DEF TransferIn, world
<1>5. \A u \in Tenants \ {t} : joined'[u] = joined[u]
  BY <1>1, <1>4
<1>6. RowsOf(t) = {} => joined'[t] <= in
  <2>1. SUFFICES ASSUME RowsOf(t) = {} PROVE joined'[t] <= in
    OBVIOUS
  <2>2. Cardinality(RowsOf(t)) = 0
    BY <2>1, FS_EmptySet
  <2>3. joined[t] = None
    BY <1>4, <2>2 DEF MayReturn
  <2>4. joined'[t] = 0
    BY <1>1, <1>4, <2>3
  <2>. QED BY <1>3, <2>4
<1>7. Advance
  BY <1>3, <1>4, <1>5, <1>6, EnteringShares
<1>. QED BY <1>7, Advanced

\* Whoever leaves has a row that ended on the day.
LEMMA RowLeaves ==
    ASSUME IInv, ShareInv, NEW t \in Tenants, Present(t), NEW at \in Instants,
           Day(at) = day, NEW s \in {"completed", "transferred"},
           LeaveRow(t, at, s), joined' = joined
    PROVE  /\ stays' \in Seq(Row) /\ Grown(stays, stays', day)
           /\ Since(stays', joined')
           /\ \E h \in DOMAIN stays' : /\ stays'[h].tenant = t
                                       /\ stays'[h].out = at /\ at # None
PROOF
<1>1. stays \in Seq(Row) /\ Documents /\ StayInv
  BY DEF IInv, Documents
<1>2. stays' \in Seq(Row)
  BY <1>1, RowsLeft
<1>3. DOMAIN stays' = DOMAIN stays
  BY DEF LeaveRow
<1>4. at # None
  BY <1>1, InstantsAre DEF Documents
<1>5. ASSUME NEW h \in DOMAIN stays
      PROVE  /\ stays'[h].tenant = stays[h].tenant /\ stays'[h].in = stays[h].in
             /\ stays[h].out # None => stays'[h].out = stays[h].out
             /\ stays'[h].out # None => stays[h].out # None \/ stays'[h].out = at
             /\ stays[h].tenant = t /\ stays[h].status = "active" =>
                   stays'[h].out = at
  <2>1. stays[h] \in Row
    BY <1>1, SeqParts
  <2>2. (stays[h].status = "active") = (stays[h].out = None)
    BY <1>1 DEF StayInv
  <2>3. CASE stays[h].tenant = t /\ stays[h].status = "active"
    <3>1. stays'[h] = [stays[h] EXCEPT !.out = at, !.status = s]
      BY <2>3, Zenon DEF LeaveRow
    <3>2. PICK r, q : r = stays[h] /\ q = stays'[h]
      OBVIOUS
    <3>3. q.tenant = r.tenant /\ q.in = r.in /\ q.out = at
      BY <2>1, <3>1, <3>2 DEF Row
    <3>. QED BY <2>2, <2>3, <3>2, <3>3
  <2>4. CASE ~(stays[h].tenant = t /\ stays[h].status = "active")
    <3>1. stays'[h] = stays[h]
      BY <2>4, Zenon DEF LeaveRow
    <3>. QED BY <2>4, <3>1
  <2>. QED BY <2>3, <2>4
<1>6. Grown(stays, stays', day)
  BY <1>3, <1>5 DEF Grown
<1>7. Since(stays', joined')
  <2>1. Single(stays') => Single(stays)
    BY <1>6, GrownSingle
  <2>2. Since(stays, joined)
    BY DEF ShareInv, RowsTell
  <2>. QED BY <1>3, <1>5, <2>1, <2>2 DEF Since
<1>8. \E h \in DOMAIN stays' : stays'[h].tenant = t /\ stays'[h].out = at
  BY <1>3, <1>5 DEF Present
<1>. QED BY <1>2, <1>4, <1>6, <1>7, <1>8

\* The reading at which a tenant leaves.
LEMMA Departed ==
    ASSUME IInv, NEW t \in Tenants, NEW at \in Instants, Day(at) = day,
           at # Midnight(day), NEW c \in Active,
           readings' = Append(readings, Reading(at, "moveOut", t, meter, c)),
           \E h \in DOMAIN stays' : /\ stays'[h].tenant = t
                                    /\ stays'[h].out # None
                                    /\ Day(stays'[h].out) = day
    PROVE  /\ Extends(readings, readings')
           /\ \A i \in DOMAIN readings' : i \notin DOMAIN readings =>
                 \A cs : Placed(readings'[i], cs) /\ Moved(readings'[i], stays')
PROOF
<1>1. readings \in Seq(Measure) /\ c \in Nat
  BY WrittenForLast DEF IInv, Documents
<1>2. PICK e : e = Reading(at, "moveOut", t, meter, c)
  OBVIOUS
<1>3. e \in Measure /\ e.event = "moveOut" /\ e.at = at /\ e.tenant = t
  BY <1>1, <1>2, Shown
<1>4. /\ Extends(readings, readings')
      /\ \A i \in DOMAIN readings' : i \notin DOMAIN readings => readings'[i] = e
  <2>1. /\ readings \in Seq(Measure) /\ e \in Measure
        /\ readings' = Append(readings, e)
    BY <1>1, <1>2, <1>3
  <2>. QED BY ONLY <2>1, OneReading DEF Extends
<1>5. \A cs : Placed(e, cs)
  BY <1>3 DEF Placed, Resets
<1>6. Moved(e, stays')
  BY <1>3 DEF Moved
<1>. QED BY <1>4, <1>5, <1>6

LEMMA LeaveShares ==
    ASSUME IInv, ChargeInv, ShareInv, NEW t \in Tenants, Leave(t)
    PROVE  ShareInv'
PROOF
<1>1. day \in 0..LastDay /\ day \in Nat
  BY MeterAssumption DEF IInv, Documents
<1>2. PICK at : at = Ten(day)
  OBVIOUS
<1>3. /\ at \in Instants /\ at \in Nat /\ Day(at) = day /\ at # Midnight(day)
      /\ Midnight(day) <= at
  <2>1. at \in Instants /\ Day(at) = day
    BY <1>1, <1>2, InstantsAre, DayOf
  <2>2. at \in Nat /\ at # Midnight(day) /\ Midnight(day) <= at
    BY <1>1, <1>2 DEF Ten, Midnight
  <2>. QED BY <2>1, <2>2
<1>4. PICK c \in Open(at) :
      /\ Present(t)
      /\ readings' = Append(readings, Reading(at, "moveOut", t, meter, c))
      /\ LeaveRow(t, at, "completed")
      /\ cycles' = IF \E u \in Tenants \ {t} : Present(u) THEN cycles
                   ELSE [cycles EXCEPT ![c].status = "closed",
                                       ![c].end = at, ![c].to = meter]
      /\ UNCHANGED <<day, nights, joined, settled>>
  BY <1>2, Zenon DEF Leave, world
<1>5. /\ c \in Active /\ c \in DOMAIN cycles /\ cycles[c].end = None
  BY WrittenForLast DEF Open
<1>6. /\ stays' \in Seq(Row) /\ Grown(stays, stays', day)
      /\ Since(stays', joined')
      /\ \E h \in DOMAIN stays' : /\ stays'[h].tenant = t
                                  /\ stays'[h].out = at /\ at # None
  BY <1>3, <1>4, RowLeaves
<1>7. /\ Extends(readings, readings')
      /\ \A i \in DOMAIN readings' : i \notin DOMAIN readings =>
            \A cs : Placed(readings'[i], cs) /\ Moved(readings'[i], stays')
  BY <1>3, <1>4, <1>5, <1>6, Departed
<1>8. /\ Follows(cycles, cycles', day) /\ DOMAIN cycles' = DOMAIN cycles
      /\ \A d \in DOMAIN cycles : /\ cycles'[d].computed = cycles[d].computed
                                  /\ cycles'[d].lines = cycles[d].lines
  <2>1. CASE cycles' = cycles
    BY <2>1 DEF Follows
  <2>2. CASE cycles' = [cycles EXCEPT ![c].status = "closed",
                                      ![c].end = at, ![c].to = meter]
    <3>1. PICK X : cycles \in Seq(CycleWith(X))
      BY DEF IInv, Documents
    <3>2. PICK d, e : d = cycles[c] /\ e = [d EXCEPT !.status = "closed",
                                             !.end = at, !.to = meter]
      OBVIOUS
    <3>3. d \in CycleWith(X)
      BY <1>5, <3>1, <3>2, SeqParts
    <3>4. /\ e.start = d.start /\ e.from = d.from /\ e.end = at
          /\ e.computed = d.computed /\ e.lines = d.lines
      BY <3>2, <3>3 DEF CycleWith
    <3>5. cycles' = [cycles EXCEPT ![c] = e]
      BY <2>2, <3>2, Zenon
    <3>6. /\ DOMAIN cycles' = DOMAIN cycles /\ cycles'[c] = e
          /\ \A b \in DOMAIN cycles : b # c => cycles'[b] = cycles[b]
      BY <1>5, <3>5
    <3>7. Follows(cycles, cycles', day)
      BY <1>3, <1>5, <3>2, <3>4, <3>6 DEF Follows
    <3>. QED BY <3>2, <3>4, <3>6, <3>7
  <2>. QED BY <1>4, <2>1, <2>2
<1>9. Advance
  BY <1>4, <1>6, <1>7, <1>8 DEF Advance
<1>. QED BY <1>9, Advanced

\* What a computation charges.
LEMMA LinesAre ==
    ASSUME NEW X, NEW c \in CycleWith(X), NEW rs, NEW end, NEW departing,
           NEW t \in Tenants
    PROVE  Computed(c, rs, end, departing).lines[t]
           = Line(Segments(rs, c.start, end, c.from, departing), t)
PROOF
<1>1. PICK l, o, segs :
         /\ segs = Segments(rs, c.start, end, c.from, departing)
         /\ l = [u \in Tenants |-> Line(segs, u)]
         /\ Computed(c, rs, end, departing)
            = [c EXCEPT !.computed = TRUE, !.lines = l, !.overhead = o]
  BY Zenon DEF Computed
<1>2. PICK d : d = Computed(c, rs, end, departing)
  OBVIOUS
<1>3. d.lines = l
  BY <1>1, <1>2 DEF CycleWith
<1>4. l[t] = Line(segs, t)
  BY <1>1
<1>. QED BY <1>1, <1>2, <1>3, <1>4

LEMMA TransferOutShares ==
    ASSUME IInv, ChargeInv, ShareInv, NEW t \in Tenants, TransferOut(t)
    PROVE  ShareInv'
PROOF
<1>1. day \in 0..LastDay /\ day \in Nat
  BY MeterAssumption DEF IInv, Documents
<1>2. PICK at, out : at = Afternoon(day) /\ out = Midnight(day)
  OBVIOUS
<1>3. /\ at \in Instants /\ Day(at) = day /\ at # Midnight(day)
      /\ out \in Instants /\ Day(out) = day
  BY <1>1, <1>2, InstantsAre, DayOf
<1>4. PICK c \in Open(at) :
      /\ Present(t)
      /\ Computes(TransferReadings(c, t, at), cycles[c].start, at,
                  cycles[c].from, t)
      /\ settled' = settled \union
           {[tenant |-> t, cycle |-> c,
             amount |-> Computed(cycles[c], TransferReadings(c, t, at), at, t)
                          .lines[t]]}
      /\ readings' = Append(readings, Reading(at, "moveOut", t, meter, c))
      /\ LeaveRow(t, out, "transferred")
      /\ UNCHANGED <<day, nights, joined, cycles>>
  BY <1>2, Zenon DEF TransferOut, world, Computes
<1>5. /\ c \in Active /\ c \in DOMAIN cycles /\ cycles[c].end = None
  BY WrittenForLast DEF Open
<1>6. /\ stays' \in Seq(Row) /\ Grown(stays, stays', day)
      /\ Since(stays', joined')
      /\ \E h \in DOMAIN stays' : /\ stays'[h].tenant = t
                                  /\ stays'[h].out = out /\ out # None
  BY <1>3, <1>4, RowLeaves
<1>7. /\ Extends(readings, readings')
      /\ \A i \in DOMAIN readings' : i \notin DOMAIN readings =>
            \A cs : Placed(readings'[i], cs) /\ Moved(readings'[i], stays')
  BY <1>3, <1>4, <1>5, <1>6, Departed
<1>8. Follows(cycles, cycles', day) /\ cycles' = cycles
  BY <1>4 DEF Follows
<1>9. PICK q, start, from : /\ q = TransferReadings(c, t, at)
                            /\ start = cycles[c].start /\ from = cycles[c].from
  OBVIOUS
<1>10. PICK x : x = [tenant |-> t, cycle |-> c,
                     amount |-> Computed(cycles[c], q, at, t).lines[t]]
  OBVIOUS
<1>11. settled' = settled \cup {x}
  BY <1>4, <1>9, <1>10
<1>12. /\ x.tenant = t /\ x.cycle = c
       /\ x.amount = Line(Segments(q, start, at, from, t), t)
  <2>1. PICK X : cycles \in Seq(CycleWith(X))
    BY DEF IInv, Documents
  <2>2. PICK cy : cy = cycles[c]
    OBVIOUS
  <2>3. cy \in CycleWith(X)
    BY <1>5, <2>1, <2>2, SeqParts
  <2>4. Computed(cy, q, at, t).lines[t]
        = Line(Segments(q, cy.start, at, cy.from, t), t)
    BY <2>3, LinesAre
  <2>. QED BY <1>9, <1>10, <2>2, <2>4
<1>13. SettlesDue(x, cycles', readings', stays', nights)
  <2>1. PICK h \in DOMAIN stays' : /\ stays'[h].tenant = t
                                   /\ stays'[h].out = out /\ out # None
    BY <1>6
  <2>2. Day(start) \in Nat /\ Day(start) <= day
    BY <1>5, <1>9, CycleTimes
  <2>3. ASSUME Unreset(c, readings'), UnresetAt(start, readings'),
               Single(stays')
        PROVE  x.amount = Due(stays', nights, Day(start), Day(out), t)
    <3>1. Unreset(c, readings) /\ UnresetAt(start, readings)
      BY <1>7, <2>3 DEF Unreset, UnresetAt, Extends
    <3>2. Single(stays)
      BY <1>6, <2>3, GrownSingle
    <3>3. Line(Segments(q, start, at, from, t), t)
          = Due(stays, nights, Day(start), day, t)
      <4>1. /\ IInv /\ ChargeInv /\ Single(stays)
            /\ RowsTell(stays, nights, joined)
            /\ c \in Active /\ Unreset(c, readings)
            /\ UnresetAt(cycles[c].start, readings)
            /\ \A i \in DOMAIN readings : /\ Placed(readings[i], cycles)
                                          /\ Moved(readings[i], stays)
            /\ Begun(c, cycles[c], readings) /\ t \in Tenants /\ Present(t)
            /\ start = cycles[c].start /\ from = cycles[c].from
            /\ at = Afternoon(day) /\ q = TransferReadings(c, t, at)
            /\ Computes(q, start, at, from, t)
        BY <1>2, <1>4, <1>5, <1>9, <3>1, <3>2 DEF ShareInv
      <4>. QED BY ONLY <4>1, TransferIsDue
    <3>4. PICK s : s = Day(start)
      OBVIOUS
    <3>5. Due(stays', nights, s, day, t) = Due(stays, nights, s, day, t)
      BY <1>1, <1>6, <2>2, <3>4, GrownDue
    <3>. QED BY <1>3, <1>12, <3>3, <3>4, <3>5
  <2>4. /\ h \in DOMAIN stays' /\ stays'[h].tenant = x.tenant
        /\ stays'[h].out # None
        /\ x.cycle \in DOMAIN cycles' /\ x.tenant \in Tenants
        /\ Day(cycles'[x.cycle].start) <= Day(stays'[h].out)
        /\ cycles'[x.cycle].end = None
        /\ /\ Unreset(x.cycle, readings')
           /\ UnresetAt(cycles'[x.cycle].start, readings') /\ Single(stays')
           => x.amount = Due(stays', nights, Day(cycles'[x.cycle].start),
                             Day(stays'[h].out), x.tenant)
    BY <1>3, <1>5, <1>8, <1>9, <1>12, <2>1, <2>2, <2>3
  <2>. QED BY <2>4, Zenon DEF SettlesDue
<1>14. Advance
  BY <1>4, <1>6, <1>7, <1>8, <1>11, <1>13 DEF Advance
<1>. QED BY <1>14, Advanced

LEMMA ReplaceShares ==
    ASSUME IInv, ChargeInv, ShareInv, Replace
    PROVE  ShareInv'
PROOF
<1>1. /\ readings \in Seq(Measure) /\ meter \in Nat
      /\ day \in 0..LastDay /\ day \in Nat
  BY MeterAssumption DEF IInv, Documents
<1>2. PICK at : at = Midnight(day)
  OBVIOUS
<1>3. PICK c \in Open(at) :
      /\ readings' = Append(readings,
           [Reading(at, "meterReplacement", Nobody, 0, c)
              EXCEPT !.final = meter])
      /\ UNCHANGED <<day, nights, stays, joined, cycles, settled>>
  BY <1>2, Zenon DEF Replace
<1>4. /\ c \in Nat /\ c \in DOMAIN cycles /\ cycles[c].end = None
      /\ cycles[c].start <= at
  BY WrittenForLast DEF Open, Covers
<1>5. PICK e : e = [Reading(at, "meterReplacement", Nobody, 0, c)
                      EXCEPT !.final = meter]
  OBVIOUS
<1>6. at \in Instants
  BY <1>1, <1>2, InstantsAre
<1>7. /\ e \in Measure /\ e.at = at /\ e.cycle = c
      /\ e.event = "meterReplacement"
  BY <1>1, <1>4, <1>5, <1>6 DEF Reading, Measure
<1>8. /\ Extends(readings, readings')
      /\ \A i \in DOMAIN readings' : i \notin DOMAIN readings => readings'[i] = e
  <2>1. /\ readings \in Seq(Measure) /\ e \in Measure
        /\ readings' = Append(readings, e)
    BY <1>1, <1>3, <1>5, <1>7
  <2>. QED BY ONLY <2>1, OneReading DEF Extends
<1>9. Placed(e, cycles') /\ Moved(e, stays')
  BY <1>3, <1>4, <1>7 DEF Placed, Moved
<1>10. Advance
  BY <1>3, <1>8, <1>9, Kept DEF Advance
<1>. QED BY <1>10, Advanced

\* Of a computed cycle, the end or only the state and the vacancy are changed.
Ends(cy, done, end) ==
    \/ \E s, to : done = [cy EXCEPT !.status = s, !.end = end, !.to = to]
    \/ /\ \E s, v : done = [cy EXCEPT !.status = s, !.vacancy = v]
       /\ end = cy.end

LEMMA Ended ==
    ASSUME NEW X, NEW d \in CycleWith(X), NEW q, NEW end, NEW departing,
           NEW done, NEW last, Ends(Computed(d, q, end, departing), done, last)
    PROVE  /\ done.start = d.start /\ done.from = d.from /\ done.end = last
           /\ \A t \in Tenants :
                 done.lines[t]
                 = Line(Segments(q, d.start, end, d.from, departing), t)
PROOF
<1>1. PICK k : k = Computed(d, q, end, departing)
  OBVIOUS
<1>2. PICK Y : k \in CycleWith(Y) /\ k.start = d.start
  BY <1>1, ComputedCycle
<1>3. \/ \E s, to : done = [k EXCEPT !.status = s, !.end = last, !.to = to]
      \/ /\ \E s, v : done = [k EXCEPT !.status = s, !.vacancy = v]
         /\ last = k.end
  BY <1>1 DEF Ends
<1>4. /\ done.start = k.start /\ done.from = k.from /\ done.end = last
      /\ done.lines = k.lines
  BY <1>2, <1>3 DEF CycleWith
<1>5. \A t \in Tenants :
         k.lines[t] = Line(Segments(q, d.start, end, d.from, departing), t)
  BY <1>1, LinesAre
<1>6. k.from = d.from
  <2>1. PICK l, o : k = [d EXCEPT !.computed = TRUE, !.lines = l, !.overhead = o]
    BY <1>1, Zenon DEF Computed
  <2>. QED BY <2>1 DEF CycleWith
<1>. QED BY <1>2, <1>4, <1>5, <1>6

LEMMA CloseShares ==
    ASSUME IInv, ChargeInv, ShareInv, Close
    PROVE  ShareInv'
PROOF
<1>1. /\ readings \in Seq(Measure) /\ day \in 0..LastDay /\ day \in Nat
      /\ Len(cycles) \in Nat
  BY MeterAssumption, WrittenForLast DEF IInv, Documents
<1>2. PICK W : cycles \in Seq(CycleWith(W))
  BY DEF IInv, Documents
<1>3. PICK end, nobody : end = Midnight(day) /\ nobody = Nobody
  OBVIOUS
<1>4. /\ end \in Instants /\ end \in Nat /\ Day(end) = day
      /\ Midnight(day) <= end
  BY <1>1, <1>3, InstantsAre, InstantNat, DayOf
<1>5. PICK c, d, e, ended, q, k, done, f :
      /\ c \in Active /\ d = cycles[c] /\ d.start < end
      /\ e = Reading(end, "periodEnd", Nobody, meter, c)
      /\ ended = Append(readings, e)
      /\ q = CycleReadings(c, ended, d.start, end)
      /\ k = Computed(d, q, end, nobody)
      /\ done = [k EXCEPT !.status = "closed", !.end = end, !.to = meter]
      /\ f = Reading(end, "periodStart", Nobody, meter, Len(cycles) + 1)
      /\ Computes(q, d.start, end, d.from, nobody)
      /\ \/ /\ Begins([cycles EXCEPT ![c] = done], cycles', end, meter, 0)
            /\ readings' = Append(ended, f)
         \/ /\ cycles' = [cycles EXCEPT ![c] = done]
            /\ readings' = ended
      /\ UNCHANGED <<day, nights, stays, joined, settled>>
  BY <1>3, Zenon DEF Close, MayEnd, world, Computes, Begins
<1>6. PICK start, from : start = d.start /\ from = d.from
  OBVIOUS
<1>7. /\ c \in DOMAIN cycles /\ c \in Nat /\ d.end = None /\ d \in CycleWith(W)
  BY <1>2, <1>5, WrittenForLast, SeqParts
<1>8. /\ e \in Measure /\ e.at = end /\ e.event = "periodEnd" /\ e.cycle = c
      /\ f \in Measure /\ f.at = end /\ f.event = "periodStart"
      /\ f.tenant = Nobody /\ f.value = meter /\ f.cycle = Len(cycles) + 1
  <2>1. e \in Measure /\ e.at = end /\ e.event = "periodEnd" /\ e.cycle = c
    <3>1. /\ IInv /\ end \in Instants /\ c \in Nat
          /\ e = Reading(end, "periodEnd", Nobody, meter, c)
      BY <1>4, <1>5, <1>7
    <3>. QED BY ONLY <3>1, Shown
  <2>2. /\ IInv /\ end \in Instants /\ Len(cycles) + 1 \in Nat
        /\ f = Reading(end, "periodStart", Nobody, meter, Len(cycles) + 1)
    BY <1>1, <1>4, <1>5
  <2>3. /\ f \in Measure /\ f.at = end /\ f.event = "periodStart"
        /\ f.tenant = Nobody /\ f.value = meter /\ f.cycle = Len(cycles) + 1
    BY ONLY <2>2, Shown
  <2>. QED BY <2>1, <2>3
<1>9. /\ done.start = start /\ done.from = from /\ done.end = end
      /\ \A t \in Tenants :
            done.lines[t] = Line(Segments(q, start, end, from, nobody), t)
  <2>1. /\ d \in CycleWith(W)
        /\ Ends(Computed(d, q, end, nobody), done, end)
    BY <1>5, <1>7, Zenon DEF Ends
  <2>2. /\ done.start = d.start /\ done.from = d.from /\ done.end = end
        /\ \A t \in Tenants :
              done.lines[t] = Line(Segments(q, d.start, end, d.from, nobody), t)
    BY ONLY <2>1, Ended
  <2>. QED BY <1>6, <2>2
<1>10. PICK ds : ds = [cycles EXCEPT ![c] = done]
  OBVIOUS
<1>11. /\ DOMAIN ds = DOMAIN cycles /\ ds[c] = done
       /\ \A b \in DOMAIN cycles : b # c => ds[b] = cycles[b]
       /\ Len(ds) = Len(cycles) /\ \E S : ds \in Seq(S)
  <2>1. PICK S : S = CycleWith(W) \cup {done}
    OBVIOUS
  <2>2. cycles \in Seq(S) /\ done \in S
    BY <1>2, <2>1, SeqMonotonic
  <2>. QED BY <1>7, <1>10, <2>2, Changed
<1>12. Follows(cycles, ds, day)
  BY <1>4, <1>5, <1>6, <1>7, <1>9, <1>11 DEF Follows
<1>13. ASSUME NEW rs, Extends(readings, rs), NEW cy, cy = done
       PROVE  ChargesDue(c, cy, rs, stays, nights)
  <2>1. SUFFICES ASSUME Unreset(c, rs), Single(stays), NEW t \in Tenants
                 PROVE  done.lines[t]
                        = Due(stays, nights, Day(start), Day(end), t)
    BY <1>9, <1>13 DEF ChargesDue
  <2>2. Unreset(c, readings)
    BY <1>13, <2>1 DEF Unreset, Extends
  <2>3. Line(Segments(q, start, end, from, nobody), t)
        = Due(stays, nights, Day(start), Day(end), t)
    <3>1. /\ IInv /\ ChargeInv /\ Single(stays)
          /\ RowsTell(stays, nights, joined)
          /\ \A i \in DOMAIN readings : /\ Placed(readings[i], cycles)
                                        /\ Moved(readings[i], stays)
          /\ Closing(c, start, end, e, ended, q)
          /\ Unreset(c, readings) /\ Begun(c, cycles[c], readings)
          /\ from = cycles[c].from
          /\ Computes(q, start, end, from, Nobody) /\ t \in Tenants
      BY <1>3, <1>5, <1>6, <1>7, <2>1, <2>2 DEF ShareInv, Closing
    <3>2. Line(Segments(q, start, end, from, Nobody), t)
          = Due(stays, nights, Day(start), Day(end), t)
      BY ONLY <3>1, CloseIsDue
    <3>. QED BY <1>3, <3>2
  <2>. QED BY <1>9, <2>3
<1>14. CASE /\ Begins(ds, cycles', end, meter, 0)
            /\ readings' = Append(ended, f)
  <2>1. PICK n : n = Len(cycles) + 1
    OBVIOUS
  <2>2. PICK S : ds \in Seq(S)
    BY <1>11
  <2>3. /\ \A b \in DOMAIN ds : b \in DOMAIN cycles' /\ cycles'[b] = ds[b]
        /\ n \in DOMAIN cycles'
        /\ cycles'[n].start = end /\ cycles'[n].from = meter
        /\ \A b \in DOMAIN cycles' :
              b \in DOMAIN ds \/ (b = n /\ ~cycles'[b].computed)
    <3>1. PICK new, m : new = cycles' /\ m = meter
      OBVIOUS
    <3>2. ds \in Seq(S) /\ Begins(ds, new, end, m, 0)
      BY <1>14, <2>2, <3>1
    <3>3. Follows(ds, new, day) /\ \A b \in DOMAIN ds : new[b] = ds[b]
      BY ONLY <3>2, OneCycle
    <3>4. /\ Len(ds) + 1 \in DOMAIN new
          /\ new[Len(ds) + 1].start = end /\ new[Len(ds) + 1].from = m
          /\ \A b \in DOMAIN new :
                \/ b \in DOMAIN ds
                \/ b = Len(ds) + 1 /\ ~new[b].computed
      BY ONLY <3>2, OneCycle
    <3>5. \A b \in DOMAIN ds : b \in DOMAIN new
      BY <3>3 DEF Follows
    <3>6. n = Len(ds) + 1
      BY <1>11, <2>1
    <3>. QED BY ONLY <3>1, <3>3, <3>4, <3>5, <3>6
  <2>4. /\ Extends(readings, readings')
        /\ \E i \in DOMAIN readings' : readings'[i] = f
        /\ \A i \in DOMAIN readings' :
              i \notin DOMAIN readings => readings'[i] = e \/ readings'[i] = f
    <3>1. /\ readings \in Seq(Measure) /\ e \in Measure /\ f \in Measure
          /\ readings' = Append(Append(readings, e), f)
      BY <1>1, <1>5, <1>8, <1>14
    <3>. QED BY ONLY <3>1, TwoReadings DEF Extends
  <2>5. Follows(cycles, cycles', day)
    BY <1>11, <1>12, <2>3 DEF Follows
  <2>6. c \in DOMAIN cycles' /\ cycles'[c] = done
    BY <1>7, <1>11, <2>3
  <2>7. Placed(e, cycles') /\ Moved(e, stays')
    BY <1>8, <1>9, <2>6 DEF Placed, Moved, Resets
  <2>8. Placed(f, cycles') /\ Moved(f, stays')
    BY <1>8, <2>1, <2>3 DEF Placed, Moved, Resets
  <2>9. Begun(n, cycles'[n], readings')
    BY <1>8, <2>1, <2>3, <2>4 DEF Begun
  <2>10. ChargesDue(c, cycles'[c], readings', stays', nights)
    BY <1>5, <1>13, <2>4, <2>6
  <2>11. \A b \in DOMAIN cycles' :
            /\ b \notin DOMAIN cycles => Begun(b, cycles'[b], readings')
            /\ cycles'[b].computed =>
                  \/ /\ b \in DOMAIN cycles /\ cycles[b].computed
                     /\ cycles'[b].lines = cycles[b].lines
                  \/ ChargesDue(b, cycles'[b], readings', stays', nights)
    BY <1>11, <2>3, <2>9, <2>10
  <2>12. Advance
    BY <1>5, <2>4, <2>5, <2>7, <2>8, <2>11, Kept DEF Advance
  <2>. QED BY <2>12, Advanced
<1>15. CASE cycles' = ds /\ readings' = ended
  <2>1. /\ Extends(readings, readings')
        /\ \A i \in DOMAIN readings' : i \notin DOMAIN readings => readings'[i] = e
    <3>1. /\ readings \in Seq(Measure) /\ e \in Measure
          /\ readings' = Append(readings, e)
      BY <1>1, <1>5, <1>8, <1>15
    <3>. QED BY ONLY <3>1, OneReading DEF Extends
  <2>2. Placed(e, cycles') /\ Moved(e, stays')
    BY <1>8, <1>9, <1>11, <1>15 DEF Placed, Moved, Resets
  <2>3. ChargesDue(c, cycles'[c], readings', stays', nights)
    BY <1>5, <1>11, <1>13, <1>15, <2>1
  <2>4. \A b \in DOMAIN cycles' :
           /\ b \in DOMAIN cycles
           /\ cycles'[b].computed =>
                 \/ cycles[b].computed /\ cycles'[b].lines = cycles[b].lines
                 \/ ChargesDue(b, cycles'[b], readings', stays', nights)
    BY <1>11, <1>15, <2>3
  <2>5. Advance
    BY <1>5, <1>12, <1>15, <2>1, <2>2, <2>4, Kept DEF Advance
  <2>. QED BY <2>5, Advanced
<1>. QED BY <1>5, <1>10, <1>14, <1>15

LEMMA ReviseShares ==
    ASSUME IInv, ChargeInv, ShareInv, NEW c \in DOMAIN cycles, Revise(c)
    PROVE  ShareInv'
PROOF
<1>1. Ordered(cycles)
  BY DEF IInv
<1>2. PICK W : cycles \in Seq(CycleWith(W))
  BY DEF IInv, Documents
<1>3. PICK nobody : nobody = Nobody
  OBVIOUS
<1>4. PICK d, q, k, new :
      /\ d = cycles[c] /\ q = AllReadings(d.start, d.end)
      /\ k = Computed(d, q, d.end, nobody)
      /\ new = [k EXCEPT !.status = "revised", !.vacancy = 0]
      /\ d.status = "closed"
      /\ Computes(q, d.start, d.end, d.from, nobody)
      /\ cycles' = [cycles EXCEPT ![c] = new]
      /\ UNCHANGED <<day, nights, stays, joined, readings, settled>>
  BY <1>3, Zenon DEF Revise, world, Computes
<1>5. PICK start, end, from :
      start = d.start /\ end = d.end /\ from = d.from
  OBVIOUS
<1>6. d \in CycleWith(W) /\ end # None
  BY <1>1, <1>2, <1>4, <1>5, SeqParts DEF Ordered
<1>7. /\ new.start = start /\ new.from = from /\ new.end = end
      /\ \A t \in Tenants :
            new.lines[t] = Line(Segments(q, start, end, from, nobody), t)
  <2>1. k = Computed(d, q, end, nobody) /\ k.end = end
    <3>1. k = Computed(d, q, end, nobody)
      BY <1>4, <1>5
    <3>. QED BY <1>5, <1>6, <3>1, ComputedCycle
  <2>2. d \in CycleWith(W) /\ Ends(Computed(d, q, end, nobody), new, end)
    BY <1>4, <1>6, <2>1, Zenon DEF Ends
  <2>3. /\ new.start = d.start /\ new.from = d.from /\ new.end = end
        /\ \A t \in Tenants :
              new.lines[t] = Line(Segments(q, d.start, end, d.from, nobody), t)
    BY ONLY <2>2, Ended
  <2>. QED BY <1>5, <2>3
<1>8. /\ DOMAIN cycles' = DOMAIN cycles /\ cycles'[c] = new
      /\ \A b \in DOMAIN cycles : b # c => cycles'[b] = cycles[b]
  BY <1>4
<1>9. Follows(cycles, cycles', day)
  BY <1>4, <1>5, <1>7, <1>8 DEF Follows
<1>10. ChargesDue(c, new, readings, stays, nights)
  <2>1. SUFFICES ASSUME Unreset(c, readings), Single(stays), NEW t \in Tenants
                 PROVE  new.lines[t]
                        = Due(stays, nights, Day(start), Day(end), t)
    BY <1>7 DEF ChargesDue
  <2>2. /\ IInv /\ ChargeInv /\ Single(stays)
        /\ RowsTell(stays, nights, joined)
        /\ \A i \in DOMAIN readings : /\ Placed(readings[i], cycles)
                                      /\ Moved(readings[i], stays)
        /\ c \in DOMAIN cycles /\ Unreset(c, readings)
        /\ Begun(c, cycles[c], readings)
        /\ start = cycles[c].start /\ end = cycles[c].end
        /\ from = cycles[c].from
        /\ end # None /\ q = AllReadings(start, end)
        /\ Computes(q, start, end, from, Nobody) /\ t \in Tenants
    BY <1>3, <1>4, <1>5, <1>6, <2>1 DEF ShareInv
  <2>3. Line(Segments(q, start, end, from, Nobody), t)
        = Due(stays, nights, Day(start), Day(end), t)
    BY ONLY <2>2, ReviseIsDue
  <2>. QED BY <1>3, <1>7, <2>3
<1>11. ChargesDue(c, cycles'[c], readings', stays', nights)
  BY <1>4, <1>8, <1>10
<1>12. Extends(readings, readings') /\ DOMAIN readings' = DOMAIN readings
  BY <1>4 DEF Extends
<1>13. Advance
  BY <1>4, <1>8, <1>9, <1>11, <1>12, Kept DEF Advance
<1>. QED BY <1>13, Advanced

\* Rows stay true for another night.
LEMMA NightRows ==
    ASSUME IInv, ChargeInv, RowsTell(stays, nights, joined), NEW e \in NightType,
           e.who = {t \in Tenants : Present(t)}, NEW ms, ms = Append(nights, e)
    PROVE  RowsTell(stays, ms, joined)
PROOF
<1>1. /\ nights \in Seq(NightType) /\ Len(nights) = day /\ day \in Nat
      /\ stays \in Seq(Row) /\ StayInv
  BY MeterAssumption DEF IInv, Documents, ChargeInv
<1>2. /\ DOMAIN ms = DOMAIN nights \cup {day + 1}
      /\ \A n \in DOMAIN nights : ms[n] = nights[n]
      /\ ms[day + 1] = e /\ Len(ms) = day + 1
  BY <1>1, Appended, ConsumedMore
<1>3. \A h \in DOMAIN stays :
         /\ Day(stays[h].in) \in Nat /\ Day(stays[h].in) <= day
         /\ stays[h].out # None => /\ Day(stays[h].out) \in Nat
                                   /\ Day(stays[h].in) <= Day(stays[h].out)
                                   /\ Day(stays[h].out) <= day
  BY <1>1, RowsAre DEF RowsTell
<1>4. ASSUME NEW h \in DOMAIN stays
      PROVE  Spent(stays[h], day + 1) <=> stays[h].status = "active"
  <2>1. (stays[h].status = "active") = (stays[h].out = None)
    BY <1>1 DEF StayInv
  <2>. QED BY <1>1, <1>3, <2>1 DEF Spent
<1>5. \A t \in Tenants :
         t \in ms[day + 1].who <=>
            \E h \in DOMAIN stays : /\ stays[h].tenant = t
                                    /\ Spent(stays[h], day + 1)
  BY <1>2, <1>4 DEF Present
<1>6. \A n \in DOMAIN ms : \A t \in Tenants :
         t \in ms[n].who <=>
            \E h \in DOMAIN stays : /\ stays[h].tenant = t
                                    /\ Spent(stays[h], n)
  <2>1. ASSUME NEW n \in DOMAIN nights, NEW t \in Tenants
        PROVE  t \in ms[n].who <=>
                  \E h \in DOMAIN stays : /\ stays[h].tenant = t
                                          /\ Spent(stays[h], n)
    BY <1>2 DEF RowsTell
  <2>. QED BY <1>2, <1>5, <2>1
<1>7. Since(stays, joined)
  BY DEF RowsTell
<1>8. \A h \in DOMAIN stays :
         /\ Day(stays[h].in) <= Len(ms)
         /\ stays[h].out # None => /\ Day(stays[h].in) <= Day(stays[h].out)
                                   /\ Day(stays[h].out) <= Len(ms)
  BY <1>1, <1>2, <1>3
<1>. QED BY <1>6, <1>7, <1>8 DEF RowsTell

LEMMA NightShares ==
    ASSUME IInv, ChargeInv, ShareInv, NEW u \in Uses, Night(u)
    PROVE  ShareInv'
PROOF
<1>1. /\ nights \in Seq(NightType) /\ Len(nights) = day /\ day \in Nat
      /\ stays \in Seq(Row) /\ u \in Nat
      /\ Accounts(cycles, readings, nights)
  BY MeterAssumption DEF IInv, Documents, ChargeInv
<1>2. PICK e, ms : /\ e = [units |-> u, who |-> {t \in Tenants : Present(t)}]
                   /\ ms = Append(nights, e)
  OBVIOUS
<1>3. e \in NightType /\ e.who = {t \in Tenants : Present(t)}
  BY <1>1, <1>2 DEF NightType
<1>4. /\ nights' = ms
      /\ UNCHANGED <<stays, joined, readings, cycles, settled>>
  BY <1>2, Zenon DEF Night
<1>5. RowsTell(stays, ms, joined)
  BY <1>2, <1>3, NightRows DEF ShareInv
<1>6. ASSUME NEW s \in Nat, NEW d \in Nat, s <= d, d <= day, NEW t
      PROVE  Due(stays, ms, s, d, t) = Due(stays, nights, s, d, t)
  <2>1. /\ nights \in Seq(NightType) /\ e \in NightType
        /\ OneMore(nights, e, ms) /\ d <= Len(nights)
        /\ s \in Nat /\ d \in Nat /\ s <= d
    BY <1>1, <1>2, <1>3, <1>6 DEF OneMore
  <2>. QED BY ONLY <2>1, NightDue
<1>7. ASSUME NEW c \in DOMAIN cycles, cycles[c].computed
      PROVE  ChargesDue(c, cycles[c], readings, stays, ms)
  <2>1. ChargesDue(c, cycles[c], readings, stays, nights)
    BY <1>7 DEF ShareInv
  <2>2. cycles[c].end # None
    BY <1>1, <1>7 DEF Accounts, Account
  <2>3. PICK s, d : s = Day(cycles[c].start) /\ d = Day(cycles[c].end)
    OBVIOUS
  <2>4. s \in Nat /\ d \in Nat /\ s <= d /\ d <= day
    BY <2>2, <2>3, CycleTimes
  <2>5. \A t : Due(stays, ms, s, d, t) = Due(stays, nights, s, d, t)
    BY <1>6, <2>4
  <2>. QED BY <2>1, <2>3, <2>5 DEF ChargesDue
<1>8. ASSUME NEW x \in settled
      PROVE  SettlesDue(x, cycles, readings, stays, ms)
  <2>1. /\ x.cycle \in DOMAIN cycles /\ x.tenant \in Tenants
    BY DEF ShareInv, SettlesDue
  <2>2. PICK h, start, out :
        /\ h \in DOMAIN stays /\ start = cycles[x.cycle].start
        /\ out = stays[h].out
        /\ stays[h].tenant = x.tenant /\ out # None
        /\ Day(start) <= Day(out)
        /\ cycles[x.cycle].end # None => Day(out) <= Day(cycles[x.cycle].end)
        /\ Unreset(x.cycle, readings) /\ UnresetAt(start, readings)
           /\ Single(stays)
           => x.amount = Due(stays, nights, Day(start), Day(out), x.tenant)
    BY DEF ShareInv, SettlesDue
  <2>3. PICK s, d : s = Day(start) /\ d = Day(out)
    OBVIOUS
  <2>4. s \in Nat /\ d \in Nat /\ s <= d /\ d <= day
    <3>1. s \in Nat
      BY <2>1, <2>2, <2>3, CycleTimes
    <3>2. d \in Nat
      BY <1>1, <2>2, <2>3, RowsAre
    <3>3. d <= day
      BY <1>1, <2>2, <2>3 DEF ShareInv, RowsTell
    <3>. QED BY <2>2, <2>3, <3>1, <3>2, <3>3
  <2>5. Due(stays, ms, s, d, x.tenant) = Due(stays, nights, s, d, x.tenant)
    BY <1>6, <2>4
  <2>6. /\ h \in DOMAIN stays /\ stays[h].tenant = x.tenant
        /\ stays[h].out # None
        /\ Day(cycles[x.cycle].start) <= Day(stays[h].out)
        /\ cycles[x.cycle].end # None =>
              Day(stays[h].out) <= Day(cycles[x.cycle].end)
        /\ /\ Unreset(x.cycle, readings)
           /\ UnresetAt(cycles[x.cycle].start, readings) /\ Single(stays)
           => x.amount = Due(stays, ms, Day(cycles[x.cycle].start),
                             Day(stays[h].out), x.tenant)
    BY <2>2, <2>3, <2>5
  <2>. QED BY <2>1, <2>6, Zenon DEF SettlesDue
<1>9. /\ \A i \in DOMAIN readings : /\ Placed(readings[i], cycles)
                                    /\ Moved(readings[i], stays)
      /\ \A c \in DOMAIN cycles : Begun(c, cycles[c], readings)
  BY DEF ShareInv
<1>10. /\ RowsTell(stays', nights', joined')
       /\ \A i \in DOMAIN readings' : /\ Placed(readings'[i], cycles')
                                      /\ Moved(readings'[i], stays')
       /\ \A c \in DOMAIN cycles' :
             /\ Begun(c, cycles'[c], readings')
             /\ cycles'[c].computed =>
                   ChargesDue(c, cycles'[c], readings', stays', nights')
       /\ \A x \in settled' :
             SettlesDue(x, cycles', readings', stays', nights')
  BY <1>4, <1>5, <1>7, <1>8, <1>9
<1>. QED BY <1>10 DEF ShareInv

LEMMA StutterShares ==
    ASSUME ShareInv, UNCHANGED vars
    PROVE  ShareInv'
PROOF
<1>1. UNCHANGED <<nights, stays, joined, readings, cycles, settled>>
  BY DEF vars
<1>. QED BY <1>1 DEF ShareInv

LEMMA InitShares == Init => ShareInv
PROOF
<1> SUFFICES ASSUME Init PROVE ShareInv
  OBVIOUS
<1>1. /\ nights = <<>> /\ stays = <<>> /\ readings = <<>> /\ cycles = <<>>
      /\ DOMAIN nights = {} /\ DOMAIN stays = {}
      /\ DOMAIN readings = {} /\ DOMAIN cycles = {} /\ settled = {}
  BY DEF Init
<1>2. RowsTell(stays, nights, joined)
  BY <1>1, Zenon DEF RowsTell, Since
<1>. QED BY <1>1, <1>2, Zenon DEF ShareInv

\* Every step keeps the rows true and the charges and settlements due.
LEMMA StepShares == IInv /\ ChargeInv /\ ShareInv /\ [Next]_vars => ShareInv'
PROOF
<1>1. SUFFICES ASSUME IInv, ChargeInv, ShareInv, [Next]_vars PROVE ShareInv'
  OBVIOUS
<1>2. CASE \E u \in Uses : Night(u)
  BY <1>1, <1>2, NightShares
<1>3. CASE OpenCycle
  BY <1>1, <1>3, OpenCycleShares
<1>4. CASE \E t \in Tenants : Arrive(t)
  BY <1>1, <1>4, ArriveShares
<1>5. CASE \E t \in Tenants : Leave(t)
  BY <1>1, <1>5, LeaveShares
<1>6. CASE \E t \in Tenants : TransferIn(t)
  BY <1>1, <1>6, TransferInShares
<1>7. CASE \E t \in Tenants : TransferOut(t)
  BY <1>1, <1>7, TransferOutShares
<1>8. CASE Replace
  BY <1>1, <1>8, ReplaceShares
<1>9. CASE Close
  BY <1>1, <1>9, CloseShares
<1>10. CASE \E c \in DOMAIN cycles : Revise(c)
  BY <1>1, <1>10, ReviseShares
<1>11. CASE UNCHANGED vars
  BY <1>1, <1>11, StutterShares
<1>. QED BY <1>1, <1>2, <1>3, <1>4, <1>5, <1>6, <1>7, <1>8, <1>9, <1>10, <1>11
         DEF Next

LEMMA AlwaysShared == Spec => []ShareInv
PROOF
<1>1. Init => ShareInv
  BY InitShares
<1>2. IInv /\ ChargeInv /\ ShareInv /\ [Next]_vars => ShareInv'
  BY StepShares
<1>. QED BY <1>1, <1>2, Always, AlwaysCharged, PTL DEF Spec

-----------------------------------------------------------------------------
(* What was settled is what the close finds                                 *)

\* The properties speak of cycles without a replacement in them while nobody
\* came back.
LEMMA PlainIs ==
    ASSUME IInv, NEW c, Plain(c)
    PROVE  Unreset(c, readings) /\ Single(stays)
PROOF
<1>1. Unreset(c, readings)
  BY DEF Plain, Unreset
<1>2. stays \in Seq(Row)
  BY DEF IInv, Documents
<1>3. IsFiniteSet(DOMAIN stays)
  <2>1. Len(stays) \in Nat /\ DOMAIN stays = 1..Len(stays)
    BY <1>2, SeqParts
  <2>. QED BY <2>1, FS_Interval
<1>4. ASSUME NEW g \in DOMAIN stays, NEW h \in DOMAIN stays,
             stays[g].tenant = stays[h].tenant, g # h
      PROVE  FALSE
  <2>1. PICK t : t = stays[g].tenant
    OBVIOUS
  <2>2. t \in Tenants
    BY <1>2, <2>1, RowsAre
  <2>3. PICK S : S = RowsOf(t)
    OBVIOUS
  <2>4. g \in S /\ h \in S
    BY <1>4, <2>1, <2>3 DEF RowsOf
  <2>5. IsFiniteSet(S)
    BY <1>3, <2>3, FS_Subset DEF RowsOf
  <2>6. Cardinality(S) <= 1
    BY <2>2, <2>3 DEF Plain
  <2>7. IsFiniteSet({g}) /\ Cardinality({g}) = 1
    BY FS_Singleton
  <2>8. Cardinality({g} \cup {h}) = 2
    <3>1. h \notin {g}
      BY <1>4
    <3>. QED BY <2>7, <3>1, FS_AddElement
  <2>9. Cardinality({g} \cup {h}) <= Cardinality(S)
    <3>1. {g} \cup {h} \in SUBSET S
      BY <2>4
    <3>. QED BY <2>5, <3>1, FS_Subset
  <2>10. Cardinality(S) \in Nat
    BY <2>5, FS_CardinalityType
  <2>. QED BY ONLY <2>6, <2>8, <2>9, <2>10
<1>5. Single(stays)
  BY <1>4 DEF Single
<1>. QED BY <1>1, <1>5

LEMMA BreaksAre ==
    ASSUME NEW rows, NEW s \in Nat, NEW e \in Nat, s <= e
    PROVE  /\ Breaks(rows, s, e) \subseteq s..e
           /\ Breaks(rows, s, e) \subseteq Nat
           /\ IsFiniteSet(Breaks(rows, s, e))
           /\ s \in Breaks(rows, s, e) /\ e \in Breaks(rows, s, e)
PROOF
<1>1. Breaks(rows, s, e) \subseteq s..e
  BY DEF Breaks
<1>2. IsFiniteSet(s..e) /\ s..e \subseteq Nat
  <2>1. s \in Int /\ e \in Int
    OBVIOUS
  <2>2. IsFiniteSet(s..e)
    BY <2>1, FS_Interval
  <2>. QED BY <2>2
<1>. QED BY <1>1, <1>2, FS_Subset DEF Breaks

\* What falls due after the tenant went is nothing.
LEMMA DueUpTo ==
    ASSUME NEW rows \in Seq(Row), Single(rows), NEW ns \in Seq(NightType),
           NEW js, RowsTell(rows, ns, js), NEW h \in DOMAIN rows,
           rows[h].out # None, NEW t, t = rows[h].tenant,
           NEW d, d = Day(rows[h].out),
           NEW s \in Nat, s <= d, NEW e \in Nat, d <= e, e <= Len(ns)
    PROVE  Due(rows, ns, s, e, t) = Due(rows, ns, s, d, t)
PROOF
<1>1. PICK B, C, P, Q :
        /\ B = Breaks(rows, s, e) /\ C = Breaks(rows, s, d)
        /\ P = Portions(ns, B, t) /\ Q = Portions(ns, C, t)
  OBVIOUS
<1>2. d \in Nat /\ s <= e /\ t \in Tenants
  <2>1. d \in Nat /\ t \in Tenants
    BY RowsAre
  <2>. QED BY <2>1
<1>3. /\ Len(ns) \in Nat /\ DOMAIN ns = 1..Len(ns)
  BY SeqParts
<1>4. /\ B \subseteq s..e /\ B \subseteq Nat /\ IsFiniteSet(B)
      /\ C \subseteq s..d /\ C \subseteq Nat
      /\ s \in C /\ d \in C /\ e \in B
  <2>1. B \subseteq s..e /\ B \subseteq Nat /\ IsFiniteSet(B) /\ e \in B
    BY <1>1, <1>2, BreaksAre
  <2>2. C \subseteq s..d /\ C \subseteq Nat /\ s \in C /\ d \in C
    BY <1>1, <1>2, BreaksAre
  <2>. QED BY <2>1, <2>2
<1>5. \A x : x \in C <=> x \in B /\ x <= d
  <2>1. ASSUME NEW x \in C PROVE x \in B /\ x <= d
    <3>1. x \in s..d /\ x \in s..e
      BY <1>2, <1>4
    <3>2. CASE x = s
      BY <1>1, <1>2, <3>1, <3>2 DEF Breaks
    <3>3. CASE x = d
      BY <1>1, <1>2, <3>1, <3>3 DEF Breaks
    <3>4. CASE x # s /\ x # d
      BY <1>1, <1>2, <3>1, <3>4 DEF Breaks
    <3>. QED BY <3>2, <3>3, <3>4
  <2>2. ASSUME NEW x \in B, x <= d PROVE x \in C
    <3>1. x \in s..d
      BY <1>2, <1>4, <2>2
    <3>2. CASE x = s
      BY <1>4, <3>2
    <3>3. CASE x = e
      <4>1. x = d
        BY <1>2, <2>2, <3>3
      <4>. QED BY <1>4, <4>1
    <3>4. CASE x # s /\ x # e
      BY <1>1, <3>1, <3>4 DEF Breaks
    <3>. QED BY <3>2, <3>3, <3>4
  <2>. QED BY <2>1, <2>2
<1>6. B \subseteq 0..Len(ns)
  BY <1>2, <1>3, <1>4
<1>7. \A a \in B : P[a] = Portion(ns, B, a, t) /\ P[a] \in Nat
  BY <1>1, <1>6, PortionNat DEF Portions
<1>8. \A a \in C : Q[a] = Portion(ns, C, a, t)
  BY <1>1 DEF Portions
<1>9. ASSUME NEW a \in B, d <= a PROVE P[a] = 0
  <2>1. CASE \E b \in B : a < b
    <3>1. a + 1 \in DOMAIN ns
      BY <1>3, <1>6, <2>1
    <3>2. \A g \in DOMAIN rows : rows[g].tenant = t => g = h
      BY DEF Single
    <3>3. ~Spent(rows[h], a + 1)
      <4>1. ~(a + 1 <= d)
        BY <1>2, <1>4, <1>9
      <4>. QED BY <4>1 DEF Spent
    <3>4. t \notin ns[a + 1].who
      BY <1>2, <3>1, <3>2, <3>3 DEF RowsTell
    <3>. QED BY <1>7, <3>4 DEF Portion
  <2>2. CASE ~\E b \in B : a < b
    BY <1>7, <2>2 DEF Portion
  <2>. QED BY <2>1, <2>2
<1>10. ASSUME NEW a \in C PROVE P[a] = Q[a]
  <2>1. CASE a = d
    <3>1. ~\E b \in C : a < b
      BY <1>2, <1>4, <2>1
    <3>2. Q[a] = 0
      BY <1>8, <3>1 DEF Portion
    <3>3. P[a] = 0
      BY <1>2, <1>5, <1>9, <2>1
    <3>. QED BY <3>2, <3>3
  <2>2. CASE a # d
    <3>1. a \in B /\ a \in Nat /\ a < d /\ d \in B
      BY <1>2, <1>4, <1>5, <2>2
    <3>2. PICK b, c : b = NextOf(B, a) /\ c = NextOf(C, a)
      OBVIOUS
    <3>3. b \in B /\ a < b /\ \A x \in B : a < x => b <= x
      BY <1>4, <3>1, <3>2, NextIs
    <3>4. c \in C /\ a < c /\ \A x \in C : a < x => c <= x
      BY <1>4, <3>1, <3>2, NextIs
    <3>5. b \in C /\ c \in B /\ b \in Nat /\ c \in Nat
      BY <1>4, <1>5, <3>1, <3>3, <3>4
    <3>6. b = c
      BY <3>3, <3>4, <3>5
    <3>7. (\E x \in B : a < x) /\ (\E x \in C : a < x)
      BY <1>4, <3>1
    <3>8. NextOf(B, a) = NextOf(C, a)
      BY <3>2, <3>6
    <3>9. Portion(ns, B, a, t) = Portion(ns, C, a, t)
      BY <3>7, <3>8 DEF Portion
    <3>. QED BY <1>7, <1>8, <3>1, <3>9
  <2>. QED BY <2>1, <2>2
<1>11. SumOf(B, P) = SumOf(C, P)
  <2>1. C \in SUBSET B
    BY <1>5
  <2>2. \A x \in B : P[x] \in Nat /\ (x \notin C => P[x] = 0)
    <3>1. ASSUME NEW x \in B, x \notin C PROVE P[x] = 0
      <4>1. d <= x
        BY <1>2, <1>4, <1>5, <3>1
      <4>. QED BY <1>9, <4>1
    <3>. QED BY <1>7, <3>1
  <2>. QED BY <1>4, <2>1, <2>2, SumSupport
<1>12. SumOf(C, P) = SumOf(C, Q)
  <2>1. IsFiniteSet(C)
    BY <1>4, <1>5, FS_Subset
  <2>. QED BY <1>10, <2>1, SumSame
<1>. QED BY <1>1, <1>11, <1>12 DEF Due

LEMMA SettledIsClosed == IInv /\ ChargeInv /\ ShareInv => TransferSettled
PROOF
<1>1. SUFFICES ASSUME IInv, ChargeInv, ShareInv, NEW x \in settled,
                      cycles[x.cycle].computed, Plain(x.cycle),
                      ~ReplacedAtStart(x.cycle)
               PROVE  cycles[x.cycle].lines[x.tenant] = x.amount
  BY DEF TransferSettled
<1>2. PICK c, t : c = x.cycle /\ t = x.tenant
  OBVIOUS
<1>3. c \in DOMAIN cycles /\ t \in Tenants
  BY <1>1, <1>2 DEF ShareInv, SettlesDue
<1>4. Unreset(c, readings) /\ Single(stays)
  BY <1>1, <1>2, PlainIs
<1>5. UnresetAt(cycles[c].start, readings)
  BY <1>1, <1>2 DEF ReplacedAtStart, UnresetAt
<1>6. PICK h \in DOMAIN stays :
        /\ stays[h].tenant = t /\ stays[h].out # None
        /\ Day(cycles[c].start) <= Day(stays[h].out)
        /\ cycles[c].end # None => Day(stays[h].out) <= Day(cycles[c].end)
        /\ x.amount = Due(stays, nights, Day(cycles[c].start),
                          Day(stays[h].out), t)
  BY <1>1, <1>2, <1>4, <1>5 DEF ShareInv, SettlesDue
<1>7. cycles[c].end # None
  BY <1>1, <1>2, <1>3 DEF ChargeInv, Accounts, Account
<1>8. PICK s, d, e : /\ s = Day(cycles[c].start) /\ d = Day(stays[h].out)
                     /\ e = Day(cycles[c].end)
  OBVIOUS
<1>9. s \in Nat /\ e \in Nat /\ e <= day
  BY <1>1, <1>3, <1>7, <1>8, CycleTimes
<1>10. cycles[c].lines[t] = Due(stays, nights, s, e, t)
  BY <1>1, <1>2, <1>3, <1>4, <1>8 DEF ShareInv, ChargesDue
<1>11. Due(stays, nights, s, e, t) = Due(stays, nights, s, d, t)
  <2>1. /\ stays \in Seq(Row) /\ Single(stays) /\ nights \in Seq(NightType)
        /\ RowsTell(stays, nights, joined) /\ h \in DOMAIN stays
        /\ stays[h].out # None /\ t = stays[h].tenant
        /\ d = Day(stays[h].out) /\ s \in Nat /\ s <= d
        /\ e \in Nat /\ d <= e /\ e <= Len(nights)
    BY <1>1, <1>4, <1>6, <1>7, <1>8, <1>9
       DEF IInv, Documents, ChargeInv, ShareInv
  <2>. QED BY ONLY <2>1, DueUpTo
<1>. QED BY <1>2, <1>6, <1>8, <1>10, <1>11

\* What was settled on the day a tenant left for another room is what the
\* computation of the cycle charges for the stay, whoever came and went in
\* between, unless the meter was replaced in the cycle or at its start, or
\* somebody came back to the room.
THEOREM SettledAsClosed == Spec => []TransferSettled
PROOF
<1>1. IInv /\ ChargeInv /\ ShareInv => TransferSettled
  BY SettledIsClosed
<1>. QED BY <1>1, Always, AlwaysCharged, AlwaysShared, PTL

-----------------------------------------------------------------------------
(* A share is an equal part of each night, to less than a cent               *)

\* The night's part of tenant t in whole cents, rounded down and up.
LeastOf(ns, t) ==
    [n \in DOMAIN ns |-> IF t \in ns[n].who
                         THEN ns[n].units \div Cardinality(ns[n].who) ELSE 0]
MostOf(ns, t) ==
    [n \in DOMAIN ns |-> IF t \in ns[n].who
                         THEN (ns[n].units + Cardinality(ns[n].who) - 1)
                              \div Cardinality(ns[n].who)
                         ELSE 0]

LEMMA Grows ==
    ASSUME NEW k \in Nat, NEW x \in Nat, NEW y \in Nat, x <= y
    PROVE  k * x \in Nat /\ k * y \in Nat /\ k * x <= k * y
PROOF
<1>1. k * x \in Nat /\ k * y \in Nat
  OBVIOUS
<1>2. PICK z : z = y - x
  OBVIOUS
<1>3. z \in Nat /\ y = x + z
  BY <1>2
<1>4. k * y = k * x + k * z /\ k * z \in Nat
  BY <1>3
<1>. QED BY ONLY <1>1, <1>4

\* Rounding up and down stays within less than one more.
LEMMA Rounded ==
    ASSUME NEW u \in Nat, NEW k \in Nat \ {0}
    PROVE  /\ u \div k \in Nat /\ (u + k - 1) \div k \in Nat
           /\ k * (u \div k) <= u /\ u <= k * ((u + k - 1) \div k)
PROOF
<1>1. PICK q, r, p, m : /\ q = u \div k /\ r = u % k
                        /\ p = (u + k - 1) \div k /\ m = (u + k - 1) % k
  OBVIOUS
<1>2. u + k - 1 \in Nat
  OBVIOUS
<1>3. q \in Nat /\ r \in Nat /\ u = q * k + r
  BY <1>1, DivMod
<1>4. p \in Nat /\ m \in Nat /\ m < k /\ u + k - 1 = p * k + m
  <2>1. PICK v : v = u + k - 1
    OBVIOUS
  <2>2. v \in Nat
    BY <1>2, <2>1
  <2>3. /\ v \div k \in Nat /\ v % k \in Nat /\ v % k < k
        /\ v = (v \div k) * k + (v % k)
    BY <2>2, DivMod
  <2>. QED BY <1>1, <2>1, <2>3
<1>5. k * q = q * k /\ q * k \in Nat /\ k * p = p * k /\ p * k \in Nat
  BY <1>3, <1>4
<1>6. k * q <= u /\ u <= k * p
  <2>1. PICK x, y : x = q * k /\ y = p * k
    OBVIOUS
  <2>2. x \in Nat /\ y \in Nat /\ u = x + r /\ u + k - 1 = y + m
    BY <1>3, <1>4, <1>5, <2>1
  <2>3. x <= u /\ u <= y
    BY ONLY <1>3, <1>4, <2>2, k \in Nat \ {0}, u \in Nat
  <2>. QED BY <1>5, <2>1, <2>3
<1>. QED BY <1>1, <1>3, <1>4, <1>6

\* What is within bounds term by term is so in the sum.
LEMMA SumScaled ==
    ASSUME NEW S, IsFiniteSet(S), NEW f, NEW g, NEW h, NEW k \in Nat,
           \A x \in S : /\ f[x] \in Nat /\ g[x] \in Nat /\ h[x] \in Nat
                        /\ k * f[x] <= g[x] /\ g[x] <= k * h[x]
    PROVE  /\ SumOf(S, f) \in Nat /\ SumOf(S, g) \in Nat /\ SumOf(S, h) \in Nat
           /\ k * SumOf(S, f) <= SumOf(S, g) /\ SumOf(S, g) <= k * SumOf(S, h)
PROOF
<1> DEFINE B == {s \in SUBSET S : ~(/\ k * SumOf(s, f) <= SumOf(s, g)
                                    /\ SumOf(s, g) <= k * SumOf(s, h))}
<1>1. SUFFICES ASSUME B # {} PROVE FALSE
  BY SumNat
<1>2. PICK s \in B : IsFiniteSet(s) /\ \A x \in s : s \ {x} \notin B
  <2>1. B \subseteq SUBSET S
    OBVIOUS
  <2>. HIDE DEF B
  <2>. QED BY <1>1, <2>1, SmallestSet
<1>3. CASE s = {}
  BY <1>3, SumEmpty
<1>4. CASE s # {}
  <2>1. PICK x : x \in s
    BY <1>4
  <2>2. PICK r : r = s \ {x}
    OBVIOUS
  <2>3. k * SumOf(r, f) <= SumOf(r, g) /\ SumOf(r, g) <= k * SumOf(r, h)
    BY <1>2, <2>1, <2>2
  <2>4. \A y \in s : f[y] \in Nat /\ g[y] \in Nat /\ h[y] \in Nat
    OBVIOUS
  <2>5. /\ SumOf(s, f) = SumOf(r, f) + f[x]
        /\ SumOf(s, g) = SumOf(r, g) + g[x]
        /\ SumOf(s, h) = SumOf(r, h) + h[x]
    BY <1>2, <2>1, <2>2, <2>4, SumRemove
  <2>6. IsFiniteSet(r) /\ r \subseteq s
    BY <1>2, <2>2, FS_Subset
  <2>7. SumOf(r, f) \in Nat /\ SumOf(r, g) \in Nat /\ SumOf(r, h) \in Nat
    BY <2>4, <2>6, SumNat
  <2>8. /\ f[x] \in Nat /\ g[x] \in Nat /\ h[x] \in Nat
        /\ k * f[x] <= g[x] /\ g[x] <= k * h[x]
    BY <2>1
  <2>9. PICK a, b, c, u, v, w : /\ a = SumOf(r, f) /\ b = SumOf(r, g)
                                /\ c = SumOf(r, h)
                                /\ u = f[x] /\ v = g[x] /\ w = h[x]
    OBVIOUS
  <2>10. k * (a + u) <= b + v /\ b + v <= k * (c + w)
    <3>1. /\ a \in Nat /\ b \in Nat /\ c \in Nat
          /\ u \in Nat /\ v \in Nat /\ w \in Nat
          /\ k * a <= b /\ b <= k * c /\ k * u <= v /\ v <= k * w
      BY <2>3, <2>7, <2>8, <2>9
    <3>2. k * (a + u) = k * a + k * u /\ k * (c + w) = k * c + k * w
      BY ONLY <3>1, k \in Nat
    <3>3. k * a \in Nat /\ k * u \in Nat /\ k * c \in Nat /\ k * w \in Nat
      BY ONLY <3>1, k \in Nat
    <3>. QED BY ONLY <3>1, <3>2, <3>3
  <2>11. k * SumOf(s, f) <= SumOf(s, g) /\ SumOf(s, g) <= k * SumOf(s, h)
    BY <2>5, <2>9, <2>10
  <2>. QED BY <2>11
<1>. QED BY <1>3, <1>4

\* A share is within the sums of which the amount is within k times.
LEMMA ShareWithin ==
    ASSUME NEW u \in Nat, NEW who \in SUBSET Tenants, NEW t \in who,
           NEW k, k = Cardinality(who), NEW l \in Nat, NEW h \in Nat,
           k * l <= u, u <= k * h
    PROVE  l <= HamiltonShare(u, who, t) /\ HamiltonShare(u, who, t) <= h
PROOF
<1>1. IsFiniteSet(who) /\ who \subseteq Nat
  BY TenantsAssumption, FS_Subset
<1>2. k \in Nat \ {0}
  BY <1>1, FS_CardinalityType, FS_EmptySet
<1>3. PICK q, r : q = u \div k /\ r = u % k
  OBVIOUS
<1>4. q \in Nat /\ r \in Nat /\ r < k /\ u = q * k + r
  BY <1>2, <1>3, DivMod
<1>5. PICK n : n = Cardinality({v \in who : v < t})
  OBVIOUS
<1>6. n \in Nat
  <2>1. IsFiniteSet({v \in who : v < t})
    BY <1>1, FS_Subset
  <2>. QED BY <1>5, <2>1, FS_CardinalityType
<1>7. HamiltonShare(u, who, t) = IF n < r THEN q + 1 ELSE q
  BY <1>3, <1>5 DEF HamiltonShare
<1>8. l <= q
  <2>1. SUFFICES ASSUME q + 1 <= l PROVE FALSE
    BY <1>4
  <2>2. k * (q + 1) <= k * l
    BY <1>2, <1>4, <2>1, Grows
  <2>3. k * (q + 1) = q * k + k /\ q * k \in Nat /\ k * l \in Nat
    BY <1>2, <1>4
  <2>. QED BY ONLY <1>2, <1>4, <2>2, <2>3, k * l <= u, u \in Nat
<1>9. q <= h
  <2>1. SUFFICES ASSUME h + 1 <= q PROVE FALSE
    BY <1>4
  <2>2. k * (h + 1) <= k * q
    BY <1>2, <1>4, <2>1, Grows
  <2>3. k * (h + 1) = k * h + k /\ k * q = q * k /\ q * k \in Nat /\ k * h \in Nat
    BY <1>2, <1>4
  <2>. QED BY ONLY <1>2, <1>4, <2>2, <2>3, u <= k * h, u \in Nat
<1>10. 0 < r => q + 1 <= h
  <2>1. SUFFICES ASSUME 0 < r, h <= q PROVE FALSE
    BY <1>4
  <2>2. k * h <= k * q
    BY <1>2, <1>4, <2>1, Grows
  <2>3. k * q = q * k /\ q * k \in Nat /\ k * h \in Nat
    BY <1>2, <1>4
  <2>. QED BY ONLY <1>2, <1>4, <2>1, <2>2, <2>3, u <= k * h, u \in Nat
<1>. QED BY <1>4, <1>6, <1>7, <1>8, <1>9, <1>10

\* Sums over the gaps between the days of a set are sums over the nights.
LEMMA GapsAddUp ==
    ASSUME NEW s \in Nat, NEW e \in Nat, s <= e,
           NEW B, B \subseteq s..e, s \in B, e \in B, NEW P, P[e] = 0,
           NEW f, NEW h, \A n \in (s + 1)..e : f[n] \in Nat /\ h[n] \in Nat,
           \A a \in B : P[a] \in Nat,
           \A a \in B : a < e =>
              /\ SumOf((a + 1)..NextOf(B, a), f) <= P[a]
              /\ P[a] <= SumOf((a + 1)..NextOf(B, a), h)
    PROVE  /\ SumOf((s + 1)..e, f) <= SumOf(B, P)
           /\ SumOf(B, P) <= SumOf((s + 1)..e, h)
PROOF
<1> DEFINE From(x) == {y \in B : x <= y}
           Good(x) == /\ SumOf((x + 1)..e, f) <= SumOf(From(x), P)
                      /\ SumOf(From(x), P) <= SumOf((x + 1)..e, h)
           Bad == {x \in B : ~Good(x)}
<1>1. IsFiniteSet(B) /\ B \subseteq Nat
  <2>1. IsFiniteSet(s..e) /\ s..e \subseteq Nat
    <3>1. s \in Int /\ e \in Int
      OBVIOUS
    <3>. QED BY <3>1, FS_Interval
  <2>. QED BY <2>1, FS_Subset
<1>2. \A x : IsFiniteSet(From(x)) /\ From(x) \subseteq B
  BY <1>1, FS_Subset
<1>3. From(s) = B
  <2>1. \A y \in B : s <= y
    OBVIOUS
  <2>. QED BY <2>1
<1>4. Good(e)
  <2>1. \A y \in From(e) : P[y] = 0
    OBVIOUS
  <2>2. SumOf(From(e), P) = 0
    <3>. HIDE DEF From
    <3>. QED BY <1>2, <2>1, SumZero
  <2>3. (e + 1)..e = {}
    OBVIOUS
  <2>. HIDE DEF From
  <2>. QED BY <2>2, <2>3, SumEmpty
<1>5. ASSUME NEW x \in B, x < e, Good(NextOf(B, x)) PROVE Good(x)
  <2>1. PICK b : b = NextOf(B, x)
    OBVIOUS
  <2>2. /\ b \in B /\ x < b /\ \A y \in B : x < y => b <= y
    BY <1>1, <1>5, <2>1, NextIs
  <2>3. x \in Nat /\ b \in Nat /\ s <= x /\ b <= e
    BY <1>1, <2>2
  <2>4. PICK F, G : F = From(x) /\ G = From(b)
    OBVIOUS
  <2>5. F = G \cup {x} /\ x \notin G
    <3>1. ASSUME NEW y \in B PROVE x <= y <=> b <= y \/ y = x
      <4>1. y \in Nat
        BY <1>1
      <4>2. x < y => b <= y
        BY <2>2
      <4>. QED BY <2>2, <2>3, <4>1, <4>2
    <3>2. \A y \in B : x <= y <=> b <= y \/ y = x
      BY <3>1
    <3>3. ~(b <= x)
      BY <2>2, <2>3
    <3>. QED BY <2>4, <3>2, <3>3
  <2>6. SumOf(F, P) = SumOf(G, P) + P[x]
    <3>1. IsFiniteSet(G) /\ \A y \in G \cup {x} : P[y] \in Nat
      BY <1>2, <2>4
    <3>. QED BY <2>5, <3>1, SumAdd
  <2>7. PICK S, U, V : S = (x + 1)..e /\ U = (x + 1)..b /\ V = (b + 1)..e
    OBVIOUS
  <2>8. /\ IsFiniteSet(S) /\ IsFiniteSet(U) /\ IsFiniteSet(V)
        /\ S = U \cup V /\ U \cap V = {} /\ S \subseteq (s + 1)..e
    <3>1. x + 1 \in Int /\ b \in Int /\ b + 1 \in Int /\ e \in Int
      BY <2>3
    <3>2. S = U \cup V /\ U \cap V = {} /\ S \subseteq (s + 1)..e
      BY <2>2, <2>3, <2>7
    <3>3. /\ IsFiniteSet((x + 1)..e) /\ IsFiniteSet((x + 1)..b)
          /\ IsFiniteSet((b + 1)..e)
      BY <3>1, FS_Interval
    <3>. QED BY <2>7, <3>2, <3>3
  <2>9. \A n \in S : f[n] \in Nat /\ h[n] \in Nat
    BY <2>8
  <2>10. /\ SumOf(S, f) = SumOf(U, f) + SumOf(V, f)
         /\ SumOf(S, h) = SumOf(U, h) + SumOf(V, h)
    BY <2>8, <2>9, SumSplit
  <2>11. /\ SumOf(U, f) \in Nat /\ SumOf(V, f) \in Nat
         /\ SumOf(U, h) \in Nat /\ SumOf(V, h) \in Nat
    BY <2>8, <2>9, SumNat
  <2>12. SumOf(U, f) <= P[x] /\ P[x] <= SumOf(U, h)
    BY <1>5, <2>1, <2>7
  <2>13. SumOf(V, f) <= SumOf(G, P) /\ SumOf(G, P) <= SumOf(V, h)
    BY <1>5, <2>1, <2>4, <2>7
  <2>14. SumOf(G, P) \in Nat /\ P[x] \in Nat
    <3>1. IsFiniteSet(G) /\ \A y \in G : P[y] \in Nat
      BY <1>2, <2>4
    <3>. QED BY <3>1, SumNat
  <2>15. SumOf(S, f) <= SumOf(F, P) /\ SumOf(F, P) <= SumOf(S, h)
    BY ONLY <2>6, <2>10, <2>11, <2>12, <2>13, <2>14
  <2>. QED BY <2>4, <2>7, <2>15
<1>6. Bad = {}
  <2>1. SUFFICES ASSUME Bad # {} PROVE FALSE
    OBVIOUS
  <2>2. IsFiniteSet(Bad) /\ Bad \subseteq Nat
    BY <1>1, FS_Subset
  <2>3. PICK m \in Bad : \A y \in Bad : y <= m
    <3>. HIDE DEF Bad
    <3>. QED BY <2>1, <2>2, Greatest
  <2>4. m \in B /\ ~Good(m)
    OBVIOUS
  <2>. HIDE DEF Good
  <2>5. m # e
    BY <1>4, <2>4
  <2>6. m < e /\ m \in Nat
    BY <1>1, <2>4, <2>5
  <2>7. PICK b : b = NextOf(B, m)
    OBVIOUS
  <2>8. b \in B /\ m < b
    BY <1>1, <2>4, <2>6, <2>7, NextIs
  <2>9. b \notin Bad
    BY <1>1, <2>3, <2>6, <2>8
  <2>10. Good(b)
    BY <2>8, <2>9
  <2>. QED BY <1>5, <2>4, <2>6, <2>7, <2>10
<1>7. Good(s)
  BY <1>6
<1>. QED BY <1>3, <1>7

\* Between two of these days the same tenants are in the room.
LEMMA SameNights ==
    ASSUME NEW rows \in Seq(Row), NEW ns \in Seq(NightType),
           NEW js, RowsTell(rows, ns, js),
           NEW s \in Nat, NEW e \in Nat, s <= e, e <= Len(ns),
           NEW B, B = Breaks(rows, s, e), NEW a \in B, a < e,
           NEW b, b = NextOf(B, a)
    PROVE  /\ b \in B /\ a \in Nat /\ b \in Nat /\ a < b /\ b <= e
           /\ (a + 1)..b \subseteq DOMAIN ns
           /\ \A n \in (a + 1)..b : ns[n].who = ns[a + 1].who
PROOF
<1>1. /\ Len(ns) \in Nat /\ DOMAIN ns = 1..Len(ns)
      /\ \A n \in DOMAIN ns : ns[n] \in NightType
  BY SeqParts
<1>2. B \subseteq s..e /\ B \subseteq Nat /\ s \in B /\ e \in B
  BY BreaksAre
<1>3. b \in B /\ a < b /\ \A x \in B : a < x => b <= x
  BY <1>2, NextIs
<1>4. a \in Nat /\ b \in Nat /\ s <= a /\ b <= e
  BY <1>2, <1>3
<1>5. (a + 1)..b \subseteq DOMAIN ns /\ a + 1 \in (a + 1)..b
  BY <1>1, <1>3, <1>4
<1>6. ASSUME NEW x \in Nat, a < x, x < b, NEW g \in DOMAIN rows,
             x = Day(rows[g].in)
                \/ (rows[g].out # None /\ x = Day(rows[g].out))
      PROVE  FALSE
  <2>1. x \in s..e
    BY <1>4, <1>6
  <2>2. x \in Breaks(rows, s, e)
    BY <1>6, <2>1 DEF Breaks
  <2>3. b <= x
    BY <1>3, <1>6, <2>2
  <2>. QED BY <1>4, <1>6, <2>3
<1>7. ASSUME NEW g \in DOMAIN rows, NEW n \in (a + 1)..b
      PROVE  Spent(rows[g], n) <=> Spent(rows[g], a + 1)
  <2>1. PICK i, o : i = Day(rows[g].in) /\ o = Day(rows[g].out)
    OBVIOUS
  <2>2. i \in Nat /\ (rows[g].out # None => o \in Nat)
    BY <2>1, RowsAre
  <2>3. ~(a < i /\ i < b)
    BY <1>6, <2>1, <2>2
  <2>4. rows[g].out # None => ~(a < o /\ o < b)
    BY <1>6, <2>1, <2>2
  <2>5. n \in Nat /\ a + 1 <= n /\ n <= b
    BY <1>4
  <2>6. i < n <=> i < a + 1
    BY ONLY <1>4, <2>2, <2>3, <2>5
  <2>7. rows[g].out # None => (n <= o <=> a + 1 <= o)
    BY ONLY <1>4, <2>2, <2>4, <2>5
  <2>. QED BY <2>1, <2>6, <2>7 DEF Spent
<1>8. ASSUME NEW n \in (a + 1)..b PROVE ns[n].who = ns[a + 1].who
  <2>1. n \in DOMAIN ns /\ a + 1 \in DOMAIN ns
    BY <1>5
  <2>2. ns[n].who \subseteq Tenants /\ ns[a + 1].who \subseteq Tenants
    BY <1>1, <2>1 DEF NightType
  <2>3. ASSUME NEW t \in Tenants
        PROVE  t \in ns[n].who <=> t \in ns[a + 1].who
    <3>1. \A m \in DOMAIN ns :
             t \in ns[m].who <=> \E g \in DOMAIN rows :
                                    rows[g].tenant = t /\ Spent(rows[g], m)
      BY DEF RowsTell
    <3>2. \A g \in DOMAIN rows : Spent(rows[g], n) <=> Spent(rows[g], a + 1)
      BY <1>7
    <3>. QED BY <2>1, <3>1, <3>2
  <2>. QED BY <2>2, <2>3
<1>. QED BY <1>3, <1>4, <1>5, <1>8

\* A portion is an equal part of each of its nights, to less than a cent each.
LEMMA PortionFair ==
    ASSUME NEW rows \in Seq(Row), NEW ns \in Seq(NightType),
           NEW js, RowsTell(rows, ns, js),
           NEW s \in Nat, NEW e \in Nat, s <= e, e <= Len(ns),
           NEW B, B = Breaks(rows, s, e), NEW a \in B, a < e, NEW t
    PROVE  /\ SumOf((a + 1)..NextOf(B, a), LeastOf(ns, t)) <= Portion(ns, B, a, t)
           /\ Portion(ns, B, a, t) <= SumOf((a + 1)..NextOf(B, a), MostOf(ns, t))
PROOF
<1>1. PICK b : b = NextOf(B, a)
  OBVIOUS
<1>2. /\ b \in B /\ a \in Nat /\ b \in Nat /\ a < b /\ b <= e
      /\ (a + 1)..b \subseteq DOMAIN ns
      /\ \A n \in (a + 1)..b : ns[n].who = ns[a + 1].who
  BY <1>1, SameNights
<1>3. PICK N, w, f, g, h : /\ N = (a + 1)..b /\ w = ns[a + 1].who
                           /\ f = LeastOf(ns, t) /\ g = UnitsOf(ns)
                           /\ h = MostOf(ns, t)
  OBVIOUS
<1>4. IsFiniteSet(N) /\ N \subseteq DOMAIN ns
  <2>1. a + 1 \in Int /\ b \in Int
    BY <1>2
  <2>2. IsFiniteSet((a + 1)..b)
    BY <2>1, FS_Interval
  <2>. QED BY <1>2, <1>3, <2>2
<1>5. \A n \in N : ns[n].who = w
  BY <1>2, <1>3
<1>6. CASE t \notin w
  <2>1. \A n \in N : f[n] = 0 /\ h[n] = 0
    BY <1>3, <1>4, <1>5, <1>6 DEF LeastOf, MostOf
  <2>2. SumOf(N, f) = 0 /\ SumOf(N, h) = 0
    BY <1>4, <2>1, SumZero
  <2>3. Portion(ns, B, a, t) = 0
    BY <1>3, <1>6 DEF Portion
  <2>. QED BY <1>1, <1>3, <2>2, <2>3
<1>7. CASE t \in w
  <2>1. PICK k : k = Cardinality(w)
    OBVIOUS
  <2>2. /\ Len(ns) \in Nat /\ DOMAIN ns = 1..Len(ns)
        /\ \A n \in DOMAIN ns : ns[n] \in NightType
    BY SeqParts
  <2>3. w \in SUBSET Tenants /\ a + 1 \in N
    <3>1. a + 1 \in N
      BY <1>2, <1>3
    <3>2. ns[a + 1] \in NightType
      BY <1>4, <2>2, <3>1
    <3>. QED BY <1>3, <3>1, <3>2 DEF NightType
  <2>4. k \in Nat \ {0}
    BY <1>7, <2>1, <2>3, TenantsAssumption, FS_Subset, FS_CardinalityType,
       FS_EmptySet
  <2>5. ASSUME NEW n \in N
        PROVE  /\ f[n] \in Nat /\ g[n] \in Nat /\ h[n] \in Nat
               /\ k * f[n] <= g[n] /\ g[n] <= k * h[n]
    <3>1. n \in DOMAIN ns /\ ns[n].who = w
      BY <1>4, <1>5
    <3>2. PICK u : u = ns[n].units
      OBVIOUS
    <3>3. u \in Nat
      BY <2>2, <3>1, <3>2 DEF NightType
    <3>4. /\ f[n] = u \div k /\ g[n] = u
          /\ h[n] = (u + k - 1) \div k
      BY <1>3, <1>7, <2>1, <3>1, <3>2 DEF LeastOf, MostOf, UnitsOf
    <3>5. /\ u \div k \in Nat /\ (u + k - 1) \div k \in Nat
          /\ k * (u \div k) <= u /\ u <= k * ((u + k - 1) \div k)
      BY <2>4, <3>3, Rounded
    <3>. QED BY <3>3, <3>4, <3>5
  <2>6. PICK l, v, m : l = SumOf(N, f) /\ v = SumOf(N, g) /\ m = SumOf(N, h)
    OBVIOUS
  <2>7. /\ l \in Nat /\ v \in Nat /\ m \in Nat
        /\ k * l <= v /\ v <= k * m
    BY <1>4, <2>4, <2>5, <2>6, SumScaled
  <2>8. Consumed(ns, b) - Consumed(ns, a) = v
    <3>1. b \in 0..Len(ns) /\ a \in 0..b /\ a \in 0..Len(ns)
      BY <1>2, <2>2
    <3>2. PICK x, y : x = Consumed(ns, a) /\ y = Consumed(ns, b)
      OBVIOUS
    <3>3. x \in Nat /\ y \in Nat
      BY <3>1, <3>2, ConsumedNat
    <3>4. y = x + v
      BY <1>3, <2>6, <3>1, <3>2, ConsumedBetween
    <3>5. y - x = v
      BY ONLY <2>7, <3>3, <3>4
    <3>. QED BY <3>2, <3>5
  <2>9. Portion(ns, B, a, t) = HamiltonShare(v, w, t)
    <3>1. \E y \in B : a < y
      BY <1>2
    <3>. QED BY <1>1, <1>3, <1>7, <2>8, <3>1 DEF Portion
  <2>10. l <= HamiltonShare(v, w, t) /\ HamiltonShare(v, w, t) <= m
    BY <1>7, <2>1, <2>3, <2>7, ShareWithin
  <2>. QED BY <1>1, <1>3, <2>6, <2>9, <2>10
<1>. QED BY <1>6, <1>7

\* So is what a tenant is due.
LEMMA DueFair ==
    ASSUME NEW rows \in Seq(Row), NEW ns \in Seq(NightType),
           NEW js, RowsTell(rows, ns, js),
           NEW s \in Nat, NEW e \in Nat, s <= e, e <= Len(ns), NEW t \in Tenants
    PROVE  /\ SumOf((s + 1)..e, LeastOf(ns, t)) <= Due(rows, ns, s, e, t)
           /\ Due(rows, ns, s, e, t) <= SumOf((s + 1)..e, MostOf(ns, t))
PROOF
<1>1. PICK B, P, f, h : /\ B = Breaks(rows, s, e) /\ P = Portions(ns, B, t)
                        /\ f = LeastOf(ns, t) /\ h = MostOf(ns, t)
  OBVIOUS
<1>2. B \subseteq s..e /\ B \subseteq Nat /\ s \in B /\ e \in B
  BY <1>1, BreaksAre
<1>3. /\ Len(ns) \in Nat /\ DOMAIN ns = 1..Len(ns)
      /\ \A n \in DOMAIN ns : ns[n] \in NightType
  BY SeqParts
<1>4. B \subseteq 0..Len(ns)
  BY <1>2, <1>3
<1>5. \A a \in B : P[a] = Portion(ns, B, a, t) /\ P[a] \in Nat
  BY <1>1, <1>4, PortionNat DEF Portions
<1>6. P[e] = 0
  <2>1. ~\E b \in B : e < b
    BY <1>2
  <2>. QED BY <1>2, <1>5, <2>1 DEF Portion
<1>7. ASSUME NEW n \in (s + 1)..e PROVE f[n] \in Nat /\ h[n] \in Nat
  <2>1. n \in DOMAIN ns
    BY <1>3
  <2>2. PICK u, w, k : u = ns[n].units /\ w = ns[n].who /\ k = Cardinality(w)
    OBVIOUS
  <2>3. u \in Nat /\ w \in SUBSET Tenants
    BY <1>3, <2>1, <2>2 DEF NightType
  <2>4. f[n] = (IF t \in w THEN u \div k ELSE 0)
        /\ h[n] = (IF t \in w THEN (u + k - 1) \div k ELSE 0)
    BY <1>1, <2>1, <2>2 DEF LeastOf, MostOf
  <2>5. t \in w => k \in Nat \ {0}
    BY <2>2, <2>3, TenantsAssumption, FS_Subset, FS_CardinalityType, FS_EmptySet
  <2>6. t \in w => u \div k \in Nat /\ (u + k - 1) \div k \in Nat
    BY <2>3, <2>5, Rounded
  <2>. QED BY <2>4, <2>6
<1>8. ASSUME NEW a \in B, a < e
      PROVE  /\ SumOf((a + 1)..NextOf(B, a), f) <= P[a]
             /\ P[a] <= SumOf((a + 1)..NextOf(B, a), h)
  BY <1>1, <1>5, <1>8, PortionFair
<1>9. SumOf((s + 1)..e, f) <= SumOf(B, P) /\ SumOf(B, P) <= SumOf((s + 1)..e, h)
  BY <1>2, <1>5, <1>6, <1>7, <1>8, GapsAddUp
<1>. QED BY <1>1, <1>9 DEF Due

LEMMA SharedFairly == IInv /\ ChargeInv /\ ShareInv => FairShare
PROOF
<1>1. SUFFICES ASSUME IInv, ChargeInv, ShareInv, NEW c \in DOMAIN cycles,
                      NEW t \in Tenants, cycles[c].computed, Plain(c),
                      NEW M, M = {n \in NightsIn(c) : t \in nights[n].who}
      PROVE  /\ MapThenSumSet(LAMBDA n : nights[n].units
                                         \div Cardinality(nights[n].who), M)
                <= cycles[c].lines[t]
             /\ cycles[c].lines[t]
                <= MapThenSumSet(LAMBDA n :
                     (nights[n].units + Cardinality(nights[n].who) - 1)
                     \div Cardinality(nights[n].who), M)
  BY Zenon DEF FairShare
<1>2. nights \in Seq(NightType) /\ stays \in Seq(Row) /\ Len(nights) = day
  BY <1>1 DEF IInv, Documents, ChargeInv
<1>3. cycles[c].end # None
  BY <1>1 DEF ChargeInv, Accounts, Account
<1>4. PICK s, e : s = Day(cycles[c].start) /\ e = Day(cycles[c].end)
  OBVIOUS
<1>5. /\ s \in Nat /\ e \in Nat /\ s <= e /\ e <= Len(nights)
      /\ cycles[c].end \in Nat
  BY <1>1, <1>2, <1>3, <1>4, CycleTimes
<1>6. Unreset(c, readings) /\ Single(stays)
  BY <1>1, PlainIs
<1>7. cycles[c].lines[t] = Due(stays, nights, s, e, t)
  BY <1>1, <1>4, <1>6 DEF ShareInv, ChargesDue
<1>8. RowsTell(stays, nights, joined)
  BY <1>1 DEF ShareInv
<1>9. PICK f, h : f = LeastOf(nights, t) /\ h = MostOf(nights, t)
  OBVIOUS
<1>10. /\ SumOf((s + 1)..e, f) <= cycles[c].lines[t]
       /\ cycles[c].lines[t] <= SumOf((s + 1)..e, h)
  BY <1>2, <1>5, <1>7, <1>8, <1>9, DueFair
<1>11. Len(nights) \in Nat /\ DOMAIN nights = 1..Len(nights)
       /\ \A n \in DOMAIN nights : nights[n] \in NightType
  BY <1>2, SeqParts
<1>12. PICK N : N = (s + 1)..e
  OBVIOUS
<1>13. NightsIn(c) = N
  <2>1. PICK l : l = Len(nights)
    OBVIOUS
  <2>2. NightsIn(c) = {n \in 1..l : n - 1 >= s /\ n - 1 < e}
    BY <1>4, <1>11, <2>1 DEF NightsIn
  <2>3. l \in Nat /\ e <= l /\ s \in Nat /\ e \in Nat
    BY <1>5, <1>11, <2>1
  <2>4. {n \in 1..l : n - 1 >= s /\ n - 1 < e} = (s + 1)..e
    BY ONLY <2>3
  <2>. QED BY <1>12, <2>2, <2>4
<1>14. IsFiniteSet(N) /\ N \subseteq DOMAIN nights
  <2>1. s + 1 \in Int /\ e \in Int
    BY <1>5
  <2>2. IsFiniteSet((s + 1)..e)
    BY <2>1, FS_Interval
  <2>3. (s + 1)..e \subseteq DOMAIN nights
    BY <1>5, <1>11
  <2>. QED BY <1>12, <2>2, <2>3
<1>15. M = {n \in N : t \in nights[n].who}
  BY <1>1, <1>13
<1>16. \A n \in N : f[n] \in Nat /\ h[n] \in Nat
  <2>1. ASSUME NEW n \in N PROVE f[n] \in Nat /\ h[n] \in Nat
    <3>1. n \in DOMAIN nights
      BY <1>14
    <3>2. PICK u, w, k : /\ u = nights[n].units /\ w = nights[n].who
                         /\ k = Cardinality(w)
      OBVIOUS
    <3>3. u \in Nat /\ w \in SUBSET Tenants
      BY <1>11, <3>1, <3>2 DEF NightType
    <3>4. /\ f[n] = (IF t \in w THEN u \div k ELSE 0)
          /\ h[n] = (IF t \in w THEN (u + k - 1) \div k ELSE 0)
      BY <1>9, <3>1, <3>2 DEF LeastOf, MostOf
    <3>5. t \in w => k \in Nat \ {0}
      BY <3>2, <3>3, TenantsAssumption, FS_Subset, FS_CardinalityType,
         FS_EmptySet
    <3>6. t \in w => u \div k \in Nat /\ (u + k - 1) \div k \in Nat
      BY <3>3, <3>5, Rounded
    <3>. QED BY <3>4, <3>6
  <2>. QED BY <2>1
<1>17. \A n \in N : n \notin M => f[n] = 0 /\ h[n] = 0
  BY <1>9, <1>14, <1>15 DEF LeastOf, MostOf
<1>18. SumOf(N, f) = SumOf(M, f) /\ SumOf(N, h) = SumOf(M, h)
  <2>1. M \in SUBSET N
    BY <1>15
  <2>. QED BY <1>14, <1>16, <1>17, <2>1, SumSupport
<1>19. \A n \in M :
          /\ f[n] = nights[n].units \div Cardinality(nights[n].who)
          /\ h[n] = (nights[n].units + Cardinality(nights[n].who) - 1)
                    \div Cardinality(nights[n].who)
  BY <1>9, <1>14, <1>15 DEF LeastOf, MostOf
<1>20. MapThenSumSet(LAMBDA n : nights[n].units
                                \div Cardinality(nights[n].who), M)
       = SumOf(M, f)
  <2>1. \A F : Adds(SUBSET M, f, F) <=>
           (F = [q \in SUBSET M |->
                   IF q = {} THEN 0
                   ELSE LET x == CHOOSE x \in q : TRUE
                        IN  (nights[x].units \div Cardinality(nights[x].who))
                            + F[q \ {x}]])
    BY <1>19 DEF Adds
  <2>. QED BY ONLY <2>1, ZenonT(60) DEF SumOf, MapThenSumSet, MapThenFoldSet
<1>21. MapThenSumSet(LAMBDA n :
           (nights[n].units + Cardinality(nights[n].who) - 1)
           \div Cardinality(nights[n].who), M)
       = SumOf(M, h)
  <2>1. \A F : Adds(SUBSET M, h, F) <=>
           (F = [q \in SUBSET M |->
                   IF q = {} THEN 0
                   ELSE LET x == CHOOSE x \in q : TRUE
                        IN  ((nights[x].units + Cardinality(nights[x].who) - 1)
                             \div Cardinality(nights[x].who))
                            + F[q \ {x}]])
    BY <1>19 DEF Adds
  <2>. QED BY ONLY <2>1, ZenonT(60) DEF SumOf, MapThenSumSet, MapThenFoldSet
<1>. QED BY <1>10, <1>12, <1>18, <1>20, <1>21

\* What a tenant is charged for a computed cycle is an equal part of each
\* night spent in the room, to less than a cent a night, and nothing for the
\* others: occupancy, which the engine reads off the meter values, agrees with
\* who was there, unless the meter was replaced in the cycle or somebody came
\* back to the room.
THEOREM FairlyShared == Spec => []FairShare
PROOF
<1>1. IInv /\ ChargeInv /\ ShareInv => FairShare
  BY SharedFairly
<1>. QED BY <1>1, Always, AlwaysCharged, AlwaysShared, PTL
=============================================================================
