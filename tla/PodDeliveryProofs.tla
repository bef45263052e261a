------------------------- MODULE PodDeliveryProofs -------------------------
(***************************************************************************)
(* The safety properties of a pod's deliveries, for every set of messages, *)
(* rows and claim requests and every size of the gate.                     *)
(***************************************************************************)
EXTENDS PodDelivery, FiniteSetTheorems, SequenceTheorems, TLAPS

-----------------------------------------------------------------------------
(* The inductive invariant: the gate's books.  They are stated of a gate g, *)
(* the abandoned grants n, the places p, the seats s and the requests a, so *)
(* that a step can be followed through the gate as it stands between giving *)
(* a slot back and waking somebody.                                         *)

\* Who is at work must hold a slot; who may hold one.
Seated == {"check", "run", "parked", "resume"}
MayHold == Seated \cup {"failing", "settle", "release"}

\* A member of S has at most one place in the sequence s.
Distinct(s, S) == \A i, j \in 1 .. Len(s) : s[i] = s[j] /\ s[i] \in S => i = j

GateType == [active : Nat, parked : Nat, waiters : Seq(Fat \cup {Abandoned}), resuming : Seq(Jobs)]

\* InSlot of the places p, the seats s, and those in the two queues of a gate.
Taken(p, s, waiting, back) ==
    {j \in s : p[j] # "parked" /\ ~(p[j] = "resume" /\ j \in back)}
        \cup {f \in Fat : p[f] = "wait" /\ f \notin waiting}

ParkedOf(p) == {j \in Jobs : p[j] = "parked"}

\* The gate's queues hold who waits there, once; seats are where they should be.
InPlace(g, p, s) ==
    /\ g \in GateType /\ p \in [Jobs -> Places] /\ s \subseteq Jobs
    /\ Distinct(g.waiters, Fat) /\ Distinct(g.resuming, Jobs)
    /\ \A f \in Fat : f \in ToSet(g.waiters) => p[f] = "wait"
    /\ \A j \in ToSet(g.resuming) : p[j] = "resume"
    /\ \A j \in s : p[j] \in MayHold
    /\ \A j \in Jobs : p[j] \in Seated => j \in s

Books(g, n, p, s, a) ==
    /\ InPlace(g, p, s) /\ n \in Nat /\ a \subseteq Askers
    /\ g.active = Cardinality(Taken(p, s, ToSet(g.waiters), ToSet(g.resuming)))
                    + Cardinality(a) + n
    /\ g.parked = Cardinality(ParkedOf(p))

\* CapacityIsKeptAndUsed of a gate, and as much of it as holds before a wake.
Full(g) ==
    /\ g.active <= MAX
    /\ g.active + g.parked + Len(g.resuming) <= RESIDENT
    /\ g.resuming # << >> => g.active = MAX
    /\ g.waiters # << >> => ~Admissible(g)

NearlyFull(g) ==
    /\ g.active <= MAX
    /\ g.active + g.parked + Len(g.resuming) <= RESIDENT
    /\ g.resuming # << >> => g.active + 1 >= MAX
    /\ g.waiters # << >> => g.active + 1 >= MAX \/ g.active + g.parked + 1 >= RESIDENT

GateInv == Books(gate, ghosts, pc, slots, asking) /\ Full(gate)

-----------------------------------------------------------------------------
(* The inductive invariant: messages, claims and the shutdown.             *)

\* A message on the stream has a delivery left; a stop is raised before the slot, and
\* one that ended the lease left none; a naked message has no lease.
LeaseKept ==
    \A f \in Fat :
        /\ pc[f] = "stream" => count[f] < MAX_DELIVER
        /\ raised[f] # "none" => pc[f] \in {"wait", "settle"}
        /\ raised[f] \in {"gone", "superseded"} => lease[f] # "held"
        /\ pc[f] \in {"stream", "dropped", "accept"} => lease[f] # "held"
        /\ f \in Plain => lease[f] # "held" /\ pc[f] # "accept"

\* Whoever may nak a message without room being the reason is on record.
HeardFirst ==
    \A f \in Fat : pc[f] \in {"dropped", "release", "check", "run", "parked", "resume"} => f \in heard

\* A claim is answered once, to one asker, and only afterwards has a delivery.
ClaimsAreNumbered ==
    /\ \A g, h \in granted : g[1] = h[1] \/ g[2] = h[2] => g = h
    /\ \A g \in granted : pc[g[2]] = "none" /\ g[2][2] <= generation[g[2][1]]
    /\ \A c \in Claims : pc[c] # "none" => c[2] <= generation[c[1]]

RegistryBacksOff ==
    \A r \in Rows : registry[r] # 0 => pc[<<r, registry[r]>>] = "backoff"

\* An awaited claim runs on, or is over and handed back or about to be, unless its
\* run stood down.
GivenBack(c) == HandedBack(c) \/ <<c, "release">> \in wire

ShutdownKept ==
    /\ stage = "up" => awaited = {}
    /\ \A c \in Claims \cap awaited :
          /\ pc[c] \in Running \cup {"done"}
          /\ pc[c] = "done" => GivenBack(c) \/ c \in standing
          /\ stage \in {"flushing", "settling", "exited"} => pc[c] = "done"
          /\ stage = "settling" /\ <<c, "release">> \in wire => <<c, "release">> \in flush
          /\ stage = "exited" => <<c, "release">> \notin wire

IInv ==
    /\ TypeOK /\ GateInv
    /\ LeaseKept /\ HeardFirst
    /\ ClaimsAreNumbered /\ RegistryBacksOff /\ ShutdownKept

-----------------------------------------------------------------------------
(* Sequences without repetition.                                           *)

\* The head leaves a queue: the others keep their places and are all there.
LEMMA HeadLeaves ==
    ASSUME NEW S, NEW T, NEW s \in Seq(T), s # << >>, Distinct(s, S)
    PROVE  /\ Head(s) \in T /\ Head(s) \in ToSet(s)
           /\ Tail(s) \in Seq(T) /\ Len(Tail(s)) = Len(s) - 1
           /\ Len(s) \in Nat /\ Len(s) > 0
           /\ Distinct(Tail(s), S)
           /\ \A x \in S : x \in ToSet(Tail(s)) <=> x \in ToSet(s) /\ x # Head(s)
           /\ ToSet(Tail(s)) \subseteq ToSet(s)
<1>1. Len(s) \in Nat /\ Len(s) > 0 /\ Len(Tail(s)) = Len(s) - 1 /\ Tail(s) \in Seq(T) /\ Head(s) \in T
  BY HeadTailProperties, EmptySeq, LenProperties
<1>2. Head(s) = s[1]
  OBVIOUS
<1>3. \A i \in 1 .. Len(s) - 1 : Tail(s)[i] = s[i + 1]
  BY <1>1, HeadTailProperties
<1>4. Distinct(Tail(s), S)
  <2> SUFFICES ASSUME NEW i \in 1 .. Len(Tail(s)), NEW j \in 1 .. Len(Tail(s)),
                      Tail(s)[i] = Tail(s)[j], Tail(s)[i] \in S
               PROVE  i = j
    BY DEF Distinct
  <2>1. i + 1 \in 1 .. Len(s) /\ j + 1 \in 1 .. Len(s)
    BY <1>1
  <2>2. s[i + 1] = s[j + 1] /\ s[i + 1] \in S
    BY <1>1, <1>3
  <2>3. i + 1 = j + 1
    BY <2>1, <2>2 DEF Distinct
  <2> QED
    BY <1>1, <2>3
<1>5. ToSet(Tail(s)) \subseteq ToSet(s)
  <2> SUFFICES ASSUME NEW i \in 1 .. Len(s) - 1 PROVE Tail(s)[i] \in ToSet(s)
    BY <1>1 DEF ToSet
  <2>1. i + 1 \in 1 .. Len(s)
    BY <1>1
  <2> QED
    BY <2>1, <1>3 DEF ToSet
<1>6. ASSUME NEW x \in S, x \in ToSet(Tail(s)) PROVE x # Head(s)
  <2>1. PICK i \in 1 .. Len(s) - 1 : x = s[i + 1]
    BY <1>1, <1>3, <1>6 DEF ToSet
  <2>2. i + 1 \in 1 .. Len(s) /\ 1 \in 1 .. Len(s) /\ i + 1 # 1
    BY <1>1
  <2> QED
    BY <2>1, <2>2, <1>2 DEF Distinct
<1>7. ASSUME NEW x \in S, x \in ToSet(s), x # Head(s) PROVE x \in ToSet(Tail(s))
  <2>1. PICK i \in 1 .. Len(s) : x = s[i]
    BY <1>7 DEF ToSet
  <2>2. i # 1 /\ i - 1 \in 1 .. Len(s) - 1
    BY <1>1, <1>2, <1>7, <2>1
  <2>3. i - 1 \in 1 .. Len(Tail(s)) /\ x = Tail(s)[i - 1]
    BY <1>1, <1>3, <2>1, <2>2
  <2>4. \E k \in 1 .. Len(Tail(s)) : x = Tail(s)[k]
    BY <2>3
  <2>5. DOMAIN Tail(s) = 1 .. Len(Tail(s))
    BY <1>1, LenProperties
  <2> QED
    BY <2>4, <2>5 DEF ToSet
<1>8. Head(s) \in ToSet(s)
  BY <1>1, <1>2 DEF ToSet
<1> QED
  BY <1>1, <1>4, <1>5, <1>6, <1>7, <1>8

\* A newcomer joins the end of a queue.
LEMMA NewcomerJoins ==
    ASSUME NEW S, NEW T, NEW s \in Seq(T), NEW x \in T, Distinct(s, S), x \notin ToSet(s)
    PROVE  /\ Append(s, x) \in Seq(T) /\ Len(Append(s, x)) = Len(s) + 1 /\ Len(s) \in Nat
           /\ Append(s, x) # << >>
           /\ Distinct(Append(s, x), S)
           /\ ToSet(Append(s, x)) = ToSet(s) \cup {x}
<1> DEFINE t == Append(s, x)
<1>1. /\ t \in Seq(T) /\ Len(t) = Len(s) + 1 /\ Len(s) \in Nat /\ t # << >>
      /\ \A i \in 1 .. Len(s) : t[i] = s[i] /\ t[i] # x
      /\ t[Len(s) + 1] = x
  BY AppendProperties, LenProperties DEF ToSet
<1> HIDE DEF t
<1>2. Distinct(t, S)
  <2> SUFFICES ASSUME NEW i \in 1 .. Len(t), NEW j \in 1 .. Len(t), t[i] = t[j], t[i] \in S
               PROVE  i = j
    BY DEF Distinct
  <2>1. CASE i \in 1 .. Len(s) /\ j \in 1 .. Len(s)
    BY <1>1, <2>1 DEF Distinct
  <2>2. CASE i = Len(s) + 1 \/ j = Len(s) + 1
    BY <1>1, <2>2
  <2> QED
    BY <1>1, <2>1, <2>2
<1>3. ToSet(t) = ToSet(s) \cup {x}
  <2>1. 1 .. Len(t) = (1 .. Len(s)) \cup {Len(s) + 1}
    BY <1>1
  <2> QED
    BY <1>1, <2>1 DEF ToSet
<1> QED
  BY <1>1, <1>2, <1>3 DEF t

-----------------------------------------------------------------------------
(* Counting.                                                               *)

\* What a pod handles is finite.
LEMMA JobsAreFinite == IsFiniteSet(Jobs) /\ IsFiniteSet(Askers) /\ IsFiniteSet(Fat)
<1>1. IsFiniteSet(1 .. MaxClaims)
  BY DeliveryAssumption, FS_Interval
<1>2. IsFiniteSet(Claims)
  BY <1>1, DeliveryAssumption, FS_Product DEF Claims
<1> QED
  BY <1>2, DeliveryAssumption, FS_Union DEF Jobs

\* One element more, one element less.
LEMMA OneMore ==
    ASSUME NEW S, NEW x, IsFiniteSet(S), x \notin S
    PROVE  Cardinality(S \cup {x}) = Cardinality(S) + 1 /\ Cardinality(S) \in Nat
  BY FS_AddElement, FS_CardinalityType

LEMMA OneLess ==
    ASSUME NEW S, NEW x, IsFiniteSet(S), x \in S
    PROVE  /\ Cardinality(S \ {x}) = Cardinality(S) - 1
           /\ Cardinality(S) \in Nat /\ Cardinality(S) > 0
  BY FS_RemoveElement, FS_CardinalityType, FS_EmptySet

\* What the books count is finite.
LEMMA CountsAreFinite ==
    ASSUME NEW p, NEW s \in SUBSET Jobs, NEW w, NEW b, NEW a \in SUBSET Askers
    PROVE  /\ IsFiniteSet(Taken(p, s, w, b)) /\ Cardinality(Taken(p, s, w, b)) \in Nat
           /\ IsFiniteSet(ParkedOf(p)) /\ Cardinality(ParkedOf(p)) \in Nat
           /\ IsFiniteSet(a) /\ Cardinality(a) \in Nat
<1>1. Taken(p, s, w, b) \subseteq Jobs /\ ParkedOf(p) \subseteq Jobs
  BY DEF Taken, ParkedOf, Jobs
<1> QED
  BY <1>1, JobsAreFinite, FS_Subset, FS_CardinalityType

-----------------------------------------------------------------------------
(* The gate's methods.                                                     *)

\* What wake does to a gate that is in order.
LEMMA WakeCases ==
    ASSUME NEW g \in GateType
    PROVE  \/ /\ g.active < MAX /\ g.resuming # << >>
              /\ Wake(g) = [g EXCEPT !.active = @ + 1, !.resuming = Tail(@)]
           \/ /\ ~(g.active < MAX /\ g.resuming # << >>)
              /\ Admissible(g) /\ g.waiters # << >>
              /\ Wake(g) = [g EXCEPT !.active = @ + 1, !.waiters = Tail(@)]
           \/ /\ ~(g.active < MAX /\ g.resuming # << >>)
              /\ ~(Admissible(g) /\ g.waiters # << >>)
              /\ Wake(g) = g
  BY DEF Wake

\* One grant is enough: a gate one step from its capacity is at its capacity after wake.
LEMMA WakeFills ==
    ASSUME NEW g \in GateType, NearlyFull(g)
    PROVE  Full(Wake(g))
<1> USE GateAssumption DEF GateType
<1>1. CASE /\ g.active < MAX /\ g.resuming # << >>
           /\ Wake(g) = [g EXCEPT !.active = @ + 1, !.resuming = Tail(@)]
  <2>1. Len(Tail(g.resuming)) = Len(g.resuming) - 1 /\ Len(g.resuming) \in Nat
    BY <1>1, HeadTailProperties, LenProperties
  <2> QED
    BY <1>1, <2>1 DEF Full, NearlyFull, Admissible
<1>2. CASE /\ ~(g.active < MAX /\ g.resuming # << >>)
           /\ Admissible(g) /\ g.waiters # << >>
           /\ Wake(g) = [g EXCEPT !.active = @ + 1, !.waiters = Tail(@)]
  <2>1. g.resuming = << >> /\ Len(g.resuming) = 0
    BY <1>2 DEF Admissible
  <2> QED
    BY <1>2, <2>1 DEF Full, NearlyFull, Admissible
<1>3. CASE /\ ~(g.active < MAX /\ g.resuming # << >>)
           /\ ~(Admissible(g) /\ g.waiters # << >>)
           /\ Wake(g) = g
  BY <1>3 DEF Full, NearlyFull, Admissible
<1> QED
  BY <1>1, <1>2, <1>3, WakeCases
\* The abandoned grants after the gate has gone from w to g.
GhostsOf(g, w, n) == IF Len(g.waiters) < Len(w) /\ Head(w) = Abandoned THEN n + 1 ELSE n

\* A wake keeps the books: who it lets in is counted from then on.
LEMMA WakeKeepsBooks ==
    ASSUME NEW g, NEW n, NEW p, NEW s, NEW a, Books(g, n, p, s, a)
    PROVE  Books(Wake(g), GhostsOf(Wake(g), g.waiters, n), p, s, a)
<1> DEFINE W == ToSet(g.waiters)
           R == ToSet(g.resuming)
           K == Taken(p, s, W, R)
           h == Wake(g)
<1>1. /\ g \in GateType /\ n \in Nat /\ s \subseteq Jobs /\ a \subseteq Askers
      /\ g.active \in Nat /\ g.parked \in Nat
      /\ g.waiters \in Seq(Fat \cup {Abandoned}) /\ g.resuming \in Seq(Jobs)
      /\ Len(g.waiters) \in Nat
  <2>1. g \in GateType /\ n \in Nat /\ s \subseteq Jobs /\ a \subseteq Askers
    BY DEF Books, InPlace
  <2>2. g.waiters \in Seq(Fat \cup {Abandoned})
    BY <2>1 DEF GateType
  <2> QED
    BY <2>1, <2>2, LenProperties DEF GateType
<1>2. IsFiniteSet(K) /\ Cardinality(K) \in Nat /\ Cardinality(a) \in Nat
  BY <1>1, CountsAreFinite
<1>3. g.active = Cardinality(K) + Cardinality(a) + n
  BY DEF Books
<1>4. CASE /\ g.active < MAX /\ g.resuming # << >>
           /\ h = [g EXCEPT !.active = @ + 1, !.resuming = Tail(@)]
  <2> DEFINE x == Head(g.resuming)
             B == ToSet(Tail(g.resuming))
  <2>1. /\ h \in GateType /\ h.waiters = g.waiters /\ h.resuming = Tail(g.resuming)
        /\ h.active = g.active + 1 /\ h.parked = g.parked
    <3>1. Tail(g.resuming) \in Seq(Jobs)
      BY <1>1, <1>4, HeadTailProperties
    <3>2. g.active + 1 \in Nat
      BY <1>1
    <3>3. h \in GateType
      BY <1>1, <1>4, <3>1, <3>2 DEF GateType
    <3> QED
      BY <1>1, <1>4, <3>3 DEF GateType
  <2>2. /\ x \in Jobs /\ x \in R /\ Distinct(Tail(g.resuming), Jobs)
        /\ \A y \in Jobs : y \in B <=> y \in R /\ y # x
        /\ B \subseteq R
    <3>1. Distinct(g.resuming, Jobs)
      BY DEF Books, InPlace
    <3> QED
      BY <1>1, <1>4, <3>1, HeadLeaves
  <2>3. p[x] = "resume" /\ x \in s
    BY <2>2 DEF Books, InPlace, Seated
  <2>4. Taken(p, s, W, B) = K \cup {x} /\ x \notin K
    BY <1>1, <2>2, <2>3 DEF Taken
  <2>5. Cardinality(Taken(p, s, W, B)) = Cardinality(K) + 1
    BY <1>2, <2>4, OneMore
  <2>6. GhostsOf(h, g.waiters, n) = n
    BY <1>1, <2>1 DEF GhostsOf
  <2>7. InPlace(h, p, s)
    BY <2>1, <2>2 DEF Books, InPlace
  <2>8. h.active = Cardinality(Taken(p, s, ToSet(h.waiters), ToSet(h.resuming))) + Cardinality(a) + n
    BY <1>1, <1>2, <1>3, <2>1, <2>5
  <2> QED
    BY <1>1, <2>1, <2>6, <2>7, <2>8 DEF Books
<1>5. CASE /\ Admissible(g) /\ g.waiters # << >>
           /\ h = [g EXCEPT !.active = @ + 1, !.waiters = Tail(@)]
  <2> DEFINE x == Head(g.waiters)
             V == ToSet(Tail(g.waiters))
  <2>1. /\ h \in GateType /\ h.waiters = Tail(g.waiters) /\ h.resuming = g.resuming
        /\ h.active = g.active + 1 /\ h.parked = g.parked
    <3>1. Tail(g.waiters) \in Seq(Fat \cup {Abandoned})
      BY <1>1, <1>5, HeadTailProperties
    <3>2. g.active + 1 \in Nat
      BY <1>1
    <3>3. h \in GateType
      BY <1>1, <1>5, <3>1, <3>2 DEF GateType
    <3> QED
      BY <1>1, <1>5, <3>3 DEF GateType
  <2>2. /\ x \in Fat \cup {Abandoned} /\ x \in W /\ Distinct(Tail(g.waiters), Fat)
        /\ \A y \in Fat : y \in V <=> y \in W /\ y # x
        /\ V \subseteq W /\ Len(h.waiters) < Len(g.waiters)
    <3>1. Distinct(g.waiters, Fat)
      BY DEF Books, InPlace
    <3> QED
      BY <1>1, <1>5, <2>1, <3>1, HeadLeaves
  <2>3. InPlace(h, p, s)
    BY <2>1, <2>2 DEF Books, InPlace
  <2>4. CASE x = Abandoned
    <3>1. Taken(p, s, V, R) = K
      BY <2>2, <2>4, DeliveryAssumption DEF Taken
    <3>2. GhostsOf(h, g.waiters, n) = n + 1
      BY <2>2, <2>4 DEF GhostsOf
    <3>3. h.active = Cardinality(Taken(p, s, ToSet(h.waiters), ToSet(h.resuming))) + Cardinality(a) + (n + 1)
      BY <1>1, <1>2, <1>3, <2>1, <3>1
    <3> QED
      BY <1>1, <2>1, <2>3, <3>2, <3>3 DEF Books
  <2>5. CASE x # Abandoned
    <3>1. x \in Fat /\ p[x] = "wait"
      BY <2>2, <2>5 DEF Books, InPlace
    <3>2. x \notin s
      BY <3>1 DEF Books, InPlace, MayHold, Seated
    <3>3. Taken(p, s, V, R) = K \cup {x} /\ x \notin K
      BY <2>2, <3>1, <3>2 DEF Taken
    <3>4. Cardinality(Taken(p, s, V, R)) = Cardinality(K) + 1
      BY <1>2, <3>3, OneMore
    <3>5. GhostsOf(h, g.waiters, n) = n
      BY <2>5 DEF GhostsOf
    <3>6. h.active = Cardinality(Taken(p, s, ToSet(h.waiters), ToSet(h.resuming))) + Cardinality(a) + n
      BY <1>1, <1>2, <1>3, <2>1, <3>4
    <3> QED
      BY <1>1, <2>1, <2>3, <3>5, <3>6 DEF Books
  <2> QED
    BY <2>4, <2>5
<1>6. CASE h = g
  BY <1>1, <1>6 DEF GhostsOf
<1> QED
  BY <1>1, <1>4, <1>5, <1>6, WakeCases
-----------------------------------------------------------------------------
(* What the deliveries do to the books.                                    *)

\* The types the books imply.
LEMMA BooksTyped ==
    ASSUME NEW g, NEW n, NEW p, NEW s, NEW a, Books(g, n, p, s, a)
    PROVE  /\ g \in GateType /\ p \in [Jobs -> Places] /\ s \subseteq Jobs
           /\ n \in Nat /\ a \subseteq Askers
           /\ g.active \in Nat /\ g.parked \in Nat
           /\ g.waiters \in Seq(Fat \cup {Abandoned}) /\ g.resuming \in Seq(Jobs)
           /\ IsFiniteSet(Taken(p, s, ToSet(g.waiters), ToSet(g.resuming)))
           /\ Cardinality(Taken(p, s, ToSet(g.waiters), ToSet(g.resuming))) \in Nat
           /\ IsFiniteSet(ParkedOf(p)) /\ Cardinality(ParkedOf(p)) \in Nat
           /\ IsFiniteSet(a) /\ Cardinality(a) \in Nat
           /\ Fat \subseteq Jobs /\ ToSet(g.resuming) \subseteq Jobs
<1>1. g \in GateType /\ p \in [Jobs -> Places] /\ s \subseteq Jobs /\ n \in Nat /\ a \subseteq Askers
  BY DEF Books, InPlace
<1>2. g.resuming \in Seq(Jobs)
  BY <1>1 DEF GateType
<1>3. ToSet(g.resuming) \subseteq Jobs
  BY <1>2, LenProperties DEF ToSet
<1> QED
  BY <1>1, <1>3, CountsAreFinite DEF GateType, Jobs

\* A gate with one slot less taken.
SlotBack(g) == [g EXCEPT !.active = @ - 1]

LEMMA SlotBackTyped ==
    ASSUME NEW g \in GateType, g.active > 0
    PROVE  /\ SlotBack(g) \in GateType
           /\ SlotBack(g).active = g.active - 1 /\ SlotBack(g).parked = g.parked
           /\ SlotBack(g).waiters = g.waiters /\ SlotBack(g).resuming = g.resuming
<1>1. g.active - 1 \in Nat
  BY DEF GateType
<1> QED
  BY <1>1 DEF GateType, SlotBack

\* A delivery goes from place to place and its slot with it, if it has one.
LEMMA Moves ==
    ASSUME NEW g, NEW n, NEW p, NEW s, NEW a, Books(g, n, p, s, a),
           NEW j \in Jobs, NEW x \in Places \ {"wait", "parked", "resume"},
           p[j] \notin {"wait", "parked"}, j \notin ToSet(g.resuming),
           j \in s => x \in MayHold, x \in Seated => j \in s
    PROVE  Books(g, n, [p EXCEPT ![j] = x], s, a)
<1> DEFINE q == [p EXCEPT ![j] = x]
<1>1. q \in [Jobs -> Places] /\ \A i \in Jobs : q[i] = IF i = j THEN x ELSE p[i]
  BY BooksTyped
<1> HIDE DEF q
<1>2. Fat \subseteq Jobs /\ ToSet(g.resuming) \subseteq Jobs /\ s \subseteq Jobs
  BY BooksTyped
<1>3. Taken(q, s, ToSet(g.waiters), ToSet(g.resuming)) = Taken(p, s, ToSet(g.waiters), ToSet(g.resuming))
  BY <1>1, <1>2 DEF Taken
<1>4. ParkedOf(q) = ParkedOf(p)
  BY <1>1 DEF ParkedOf
<1>5. InPlace(g, q, s)
  BY <1>1, <1>2 DEF Books, InPlace
<1> QED
  BY <1>3, <1>4, <1>5 DEF Books, q

\* A delivery with a slot leaves and gives it back.
LEMMA GivesBack ==
    ASSUME NEW g, NEW n, NEW p, NEW s, NEW a, Books(g, n, p, s, a),
           NEW j \in s, NEW x \in Places \ (MayHold \cup {"wait"}),
           p[j] \notin {"wait", "parked", "resume"}
    PROVE  g.active > 0 /\ Books(SlotBack(g), n, [p EXCEPT ![j] = x], s \ {j}, a)
<1> DEFINE q == [p EXCEPT ![j] = x]
           K == Taken(p, s, ToSet(g.waiters), ToSet(g.resuming))
           h == SlotBack(g)
<1>1. q \in [Jobs -> Places] /\ \A i \in Jobs : q[i] = IF i = j THEN x ELSE p[i]
  BY BooksTyped
<1> HIDE DEF q
<1>2. Fat \subseteq Jobs /\ ToSet(g.resuming) \subseteq Jobs /\ s \subseteq Jobs /\ j \in Jobs
  BY BooksTyped
<1>3. j \in K
  BY DEF Taken
<1>4. Cardinality(K \ {j}) = Cardinality(K) - 1 /\ Cardinality(K) \in Nat /\ Cardinality(K) > 0
  BY <1>3, BooksTyped, OneLess
<1>5. g.active > 0
  BY <1>4, BooksTyped DEF Books
<1>6. /\ h \in GateType /\ h.active = g.active - 1 /\ h.parked = g.parked
      /\ h.waiters = g.waiters /\ h.resuming = g.resuming
  BY <1>5, BooksTyped, SlotBackTyped
<1>7. Taken(q, s \ {j}, ToSet(h.waiters), ToSet(h.resuming)) = K \ {j}
  BY <1>1, <1>2, <1>6 DEF Taken, MayHold
<1>8. ParkedOf(q) = ParkedOf(p)
  BY <1>1 DEF ParkedOf, MayHold, Seated
<1>9. InPlace(h, q, s \ {j})
  BY <1>1, <1>2, <1>6 DEF Books, InPlace, MayHold
<1>10. h.active = Cardinality(K \ {j}) + Cardinality(a) + n
  BY <1>4, <1>6, BooksTyped DEF Books
<1> QED
  BY <1>5, <1>6, <1>7, <1>8, <1>9, <1>10 DEF Books, q

\* A delivery that was granted a slot in the queue takes it.
LEMMA Sits ==
    ASSUME NEW g, NEW n, NEW p, NEW s, NEW a, Books(g, n, p, s, a),
           NEW f \in Fat, p[f] = "wait", f \notin ToSet(g.waiters),
           NEW x \in MayHold \ {"parked", "resume"}
    PROVE  Books(g, n, [p EXCEPT ![f] = x], s \cup {f}, a)
<1> DEFINE q == [p EXCEPT ![f] = x]
<1>1. q \in [Jobs -> Places] /\ \A i \in Jobs : q[i] = IF i = f THEN x ELSE p[i]
  BY BooksTyped DEF MayHold, Seated, Places
<1> HIDE DEF q
<1>2. Fat \subseteq Jobs /\ ToSet(g.resuming) \subseteq Jobs /\ s \subseteq Jobs
  BY BooksTyped
<1>3. Taken(q, s \cup {f}, ToSet(g.waiters), ToSet(g.resuming))
        = Taken(p, s, ToSet(g.waiters), ToSet(g.resuming))
  BY <1>1, <1>2 DEF Taken, MayHold, Seated
<1>4. ParkedOf(q) = ParkedOf(p)
  BY <1>1 DEF ParkedOf
<1>5. InPlace(g, q, s \cup {f})
  BY <1>1, <1>2 DEF Books, InPlace
<1> QED
  BY <1>3, <1>4, <1>5 DEF Books, q

\* ... or gives it back at once.
LEMMA Declines ==
    ASSUME NEW g, NEW n, NEW p, NEW s, NEW a, Books(g, n, p, s, a),
           NEW f \in Fat, p[f] = "wait", f \notin ToSet(g.waiters),
           NEW x \in Places \ (MayHold \cup {"wait"})
    PROVE  g.active > 0 /\ Books(SlotBack(g), n, [p EXCEPT ![f] = x], s, a)
<1> DEFINE q == [p EXCEPT ![f] = x]
           K == Taken(p, s, ToSet(g.waiters), ToSet(g.resuming))
           h == SlotBack(g)
<1>1. q \in [Jobs -> Places] /\ \A i \in Jobs : q[i] = IF i = f THEN x ELSE p[i]
  BY BooksTyped
<1> HIDE DEF q
<1>2. Fat \subseteq Jobs /\ ToSet(g.resuming) \subseteq Jobs /\ s \subseteq Jobs /\ f \notin s
  BY BooksTyped DEF Books, InPlace, MayHold, Seated
<1>3. f \in K
  BY DEF Taken
<1>4. Cardinality(K \ {f}) = Cardinality(K) - 1 /\ Cardinality(K) \in Nat /\ Cardinality(K) > 0
  BY <1>3, BooksTyped, OneLess
<1>5. /\ g.active = Cardinality(K) + Cardinality(a) + n /\ g.active > 0
      /\ Cardinality(a) \in Nat /\ n \in Nat /\ g.active \in Nat
  <2>1. g.active = Cardinality(K) + Cardinality(a) + n
    BY DEF Books
  <2>2. Cardinality(a) \in Nat /\ n \in Nat /\ g.active \in Nat
    BY BooksTyped
  <2> QED
    BY <1>4, <2>1, <2>2
<1>6. /\ h \in GateType /\ h.active = g.active - 1 /\ h.parked = g.parked
      /\ h.waiters = g.waiters /\ h.resuming = g.resuming
  BY <1>5, BooksTyped, SlotBackTyped
<1>7. Taken(q, s, ToSet(h.waiters), ToSet(h.resuming)) = K \ {f}
  BY <1>1, <1>2, <1>6 DEF Taken, MayHold
<1>8. ParkedOf(q) = ParkedOf(p)
  BY <1>1 DEF ParkedOf, MayHold, Seated
<1>9. InPlace(h, q, s)
  BY <1>1, <1>2, <1>6 DEF Books, InPlace, MayHold
<1>10. h.active = Cardinality(K \ {f}) + Cardinality(a) + n
  BY <1>4, <1>5, <1>6
<1> QED
  BY <1>5, <1>6, <1>7, <1>8, <1>9, <1>10 DEF Books, q
\* The gate with one slot more taken.
SlotTaken(g) == [g EXCEPT !.active = @ + 1]

LEMMA SlotTakenTyped ==
    ASSUME NEW g \in GateType
    PROVE  /\ SlotTaken(g) \in GateType
           /\ SlotTaken(g).active = g.active + 1 /\ SlotTaken(g).parked = g.parked
           /\ SlotTaken(g).waiters = g.waiters /\ SlotTaken(g).resuming = g.resuming
<1>1. g.active + 1 \in Nat
  BY DEF GateType
<1> QED
  BY <1>1 DEF GateType, SlotTaken

\* A delivery comes to the gate and is let in, or queues.
LEMMA ComesIn ==
    ASSUME NEW g, NEW n, NEW p, NEW s, NEW a, Books(g, n, p, s, a),
           NEW f \in Fat, p[f] \in {"stream", "accept"}
    PROVE  Books(Acquire(g, f), n, [p EXCEPT ![f] = "wait"], s, a)
<1> DEFINE q == [p EXCEPT ![f] = "wait"]
           K == Taken(p, s, ToSet(g.waiters), ToSet(g.resuming))
           h == Acquire(g, f)
<1>1. q \in [Jobs -> Places] /\ \A i \in Jobs : q[i] = IF i = f THEN "wait" ELSE p[i]
  BY BooksTyped DEF Places
<1> HIDE DEF q
<1>2. /\ Fat \subseteq Jobs /\ ToSet(g.resuming) \subseteq Jobs /\ s \subseteq Jobs
      /\ f \notin s /\ f \notin ToSet(g.waiters) /\ f \notin ToSet(g.resuming)
  BY BooksTyped DEF Books, InPlace, MayHold, Seated
<1>3. /\ g.active = Cardinality(K) + Cardinality(a) + n /\ Cardinality(K) \in Nat
      /\ Cardinality(a) \in Nat /\ n \in Nat /\ g.active \in Nat /\ IsFiniteSet(K)
  <2>1. g.active = Cardinality(K) + Cardinality(a) + n
    BY DEF Books
  <2> QED
    BY <2>1, BooksTyped
<1>4. ParkedOf(q) = ParkedOf(p)
  BY <1>1, <1>2 DEF ParkedOf
<1>5. CASE Admissible(g)
  <2>1. /\ h \in GateType /\ h.active = g.active + 1 /\ h.parked = g.parked
        /\ h.waiters = g.waiters /\ h.resuming = g.resuming
    <3>1. h = SlotTaken(g) /\ g \in GateType
      BY <1>5, BooksTyped DEF Acquire, SlotTaken
    <3> QED
      BY <3>1, SlotTakenTyped
  <2>2. Taken(q, s, ToSet(h.waiters), ToSet(h.resuming)) = K \cup {f} /\ f \notin K
    BY <1>1, <1>2, <2>1 DEF Taken
  <2>3. Cardinality(K \cup {f}) = Cardinality(K) + 1
    BY <1>3, <2>2, OneMore
  <2>4. InPlace(h, q, s)
    BY <1>1, <1>2, <2>1 DEF Books, InPlace, MayHold, Seated
  <2>5. h.active = Cardinality(K \cup {f}) + Cardinality(a) + n
    BY <1>3, <2>1, <2>3
  <2> QED
    BY <1>4, <2>1, <2>2, <2>4, <2>5 DEF Books, q
<1>6. CASE ~Admissible(g)
  <2> DEFINE v == Append(g.waiters, f)
  <2>1. v \in Seq(Fat \cup {Abandoned}) /\ Distinct(v, Fat) /\ ToSet(v) = ToSet(g.waiters) \cup {f}
    <3>1. Distinct(g.waiters, Fat) /\ g.waiters \in Seq(Fat \cup {Abandoned})
      BY BooksTyped DEF Books, InPlace
    <3> QED
      BY <1>2, <3>1, NewcomerJoins
  <2>2. h = [g EXCEPT !.waiters = v]
    BY <1>6 DEF Acquire
  <2> HIDE DEF v
  <2>3. /\ h \in GateType /\ h.active = g.active /\ h.parked = g.parked
        /\ h.waiters = v /\ h.resuming = g.resuming
    BY <2>1, <2>2, BooksTyped DEF GateType
  <2>4. Taken(q, s, ToSet(h.waiters), ToSet(h.resuming)) = K
    BY <1>1, <1>2, <2>1, <2>3 DEF Taken
  <2>5. InPlace(h, q, s)
    BY <1>1, <1>2, <2>1, <2>3 DEF Books, InPlace, MayHold, Seated
  <2>6. h.active = Cardinality(K) + Cardinality(a) + n
    BY <1>3, <2>3
  <2> QED
    BY <1>4, <2>3, <2>4, <2>5, <2>6 DEF Books, q
<1> QED
  BY <1>5, <1>6

\* A claim request takes a slot, gives it back, or hands it on to its claim.
LEMMA Asks ==
    ASSUME NEW g, NEW n, NEW p, NEW s, NEW a, Books(g, n, p, s, a),
           NEW k \in Askers, k \notin a, Admissible(g)
    PROVE  Books(Acquire(g, k), n, p, s, a \cup {k})
<1> DEFINE K == Taken(p, s, ToSet(g.waiters), ToSet(g.resuming))
           h == SlotTaken(g)
<1>1. Acquire(g, k) = h /\ g \in GateType
  BY BooksTyped DEF Acquire, SlotTaken
<1>2. /\ h \in GateType /\ h.active = g.active + 1 /\ h.parked = g.parked
      /\ h.waiters = g.waiters /\ h.resuming = g.resuming
  BY <1>1, SlotTakenTyped
<1>3. Cardinality(a \cup {k}) = Cardinality(a) + 1
  BY BooksTyped, OneMore
<1>4. InPlace(h, p, s)
  BY <1>2 DEF Books, InPlace
<1>5. /\ g.active = Cardinality(K) + Cardinality(a) + n /\ Cardinality(K) \in Nat
      /\ Cardinality(a) \in Nat /\ n \in Nat /\ a \cup {k} \subseteq Askers
  <2>1. g.active = Cardinality(K) + Cardinality(a) + n
    BY DEF Books
  <2> QED
    BY <2>1, BooksTyped
<1>6. h.active = Cardinality(K) + Cardinality(a \cup {k}) + n
  BY <1>2, <1>3, <1>5
<1> QED
  BY <1>1, <1>2, <1>4, <1>5, <1>6 DEF Books

\* The request is answered with nothing, or not at all.
LEMMA Misses ==
    ASSUME NEW g, NEW n, NEW p, NEW s, NEW a, Books(g, n, p, s, a), NEW k \in a
    PROVE  g.active > 0 /\ Books(SlotBack(g), n, p, s, a \ {k})
<1> DEFINE K == Taken(p, s, ToSet(g.waiters), ToSet(g.resuming))
           h == SlotBack(g)
<1>1. Cardinality(a \ {k}) = Cardinality(a) - 1 /\ Cardinality(a) > 0
  BY BooksTyped, OneLess
<1>2. /\ g.active = Cardinality(K) + Cardinality(a) + n /\ Cardinality(K) \in Nat
      /\ Cardinality(a) \in Nat /\ n \in Nat /\ a \ {k} \subseteq Askers
  <2>1. g.active = Cardinality(K) + Cardinality(a) + n
    BY DEF Books
  <2> QED
    BY <2>1, BooksTyped
<1>3. g.active > 0
  BY <1>1, <1>2
<1>4. /\ h \in GateType /\ h.active = g.active - 1 /\ h.parked = g.parked
      /\ h.waiters = g.waiters /\ h.resuming = g.resuming
  BY <1>3, BooksTyped, SlotBackTyped
<1>5. InPlace(h, p, s)
  BY <1>4 DEF Books, InPlace
<1>6. h.active = Cardinality(K) + Cardinality(a \ {k}) + n
  BY <1>1, <1>2, <1>4
<1> QED
  BY <1>2, <1>3, <1>4, <1>5, <1>6 DEF Books

\* The claim goes on under the slot of its request.
LEMMA Arrives ==
    ASSUME NEW g, NEW n, NEW p, NEW s, NEW a, Books(g, n, p, s, a), NEW k \in a,
           NEW c \in Claims, p[c] = "none"
    PROVE  Books(g, n, [p EXCEPT ![c] = "check"], s \cup {c}, a \ {k})
<1> DEFINE q == [p EXCEPT ![c] = "check"]
           K == Taken(p, s, ToSet(g.waiters), ToSet(g.resuming))
<1>1. q \in [Jobs -> Places] /\ \A i \in Jobs : q[i] = IF i = c THEN "check" ELSE p[i]
  BY BooksTyped DEF Places
<1> HIDE DEF q
<1>2. /\ Fat \subseteq Jobs /\ ToSet(g.resuming) \subseteq Jobs /\ s \subseteq Jobs
      /\ c \in Jobs /\ c \notin Fat /\ c \notin s
  BY BooksTyped, DeliveryAssumption DEF Books, InPlace, MayHold, Seated, Jobs
<1>3. /\ g.active = Cardinality(K) + Cardinality(a) + n /\ Cardinality(K) \in Nat
      /\ n \in Nat /\ IsFiniteSet(K)
  <2>1. g.active = Cardinality(K) + Cardinality(a) + n
    BY DEF Books
  <2> QED
    BY <2>1, BooksTyped
<1>4. ParkedOf(q) = ParkedOf(p)
  BY <1>1, <1>2 DEF ParkedOf
<1>5. Taken(q, s \cup {c}, ToSet(g.waiters), ToSet(g.resuming)) = K \cup {c} /\ c \notin K
  BY <1>1, <1>2 DEF Taken
<1>6. Cardinality(K \cup {c}) = Cardinality(K) + 1
  BY <1>3, <1>5, OneMore
<1>7. Cardinality(a \ {k}) = Cardinality(a) - 1 /\ Cardinality(a) \in Nat
  BY BooksTyped, OneLess
<1>8. InPlace(g, q, s \cup {c})
  BY <1>1, <1>2 DEF Books, InPlace, MayHold, Seated
<1>9. g.active = Cardinality(K \cup {c}) + Cardinality(a \ {k}) + n
  BY <1>3, <1>6, <1>7
<1> QED
  BY <1>4, <1>5, <1>8, <1>9 DEF Books, q
\* The gate while a run that parks has given its slot back and nobody is woken yet.
SlotParked(g) == [g EXCEPT !.active = @ - 1, !.parked = @ + 1]

LEMMA SlotParkedTyped ==
    ASSUME NEW g \in GateType, g.active > 0
    PROVE  /\ SlotParked(g) \in GateType
           /\ SlotParked(g).active = g.active - 1 /\ SlotParked(g).parked = g.parked + 1
           /\ SlotParked(g).waiters = g.waiters /\ SlotParked(g).resuming = g.resuming
<1>1. g.active - 1 \in Nat /\ g.parked + 1 \in Nat
  BY DEF GateType
<1> QED
  BY <1>1 DEF GateType, SlotParked

\* A run parks.
LEMMA Parks ==
    ASSUME NEW g, NEW n, NEW p, NEW s, NEW a, Books(g, n, p, s, a),
           NEW j \in Jobs, p[j] = "run"
    PROVE  g.active > 0 /\ Books(SlotParked(g), n, [p EXCEPT ![j] = "parked"], s, a)
<1> DEFINE q == [p EXCEPT ![j] = "parked"]
           K == Taken(p, s, ToSet(g.waiters), ToSet(g.resuming))
           P == ParkedOf(p)
           h == SlotParked(g)
<1>1. q \in [Jobs -> Places] /\ \A i \in Jobs : q[i] = IF i = j THEN "parked" ELSE p[i]
  BY BooksTyped DEF Places
<1> HIDE DEF q
<1>2. Fat \subseteq Jobs /\ ToSet(g.resuming) \subseteq Jobs /\ s \subseteq Jobs /\ j \in s
  BY BooksTyped DEF Books, InPlace, Seated
<1>3. /\ g.active = Cardinality(K) + Cardinality(a) + n /\ Cardinality(K) \in Nat
      /\ Cardinality(a) \in Nat /\ n \in Nat /\ g.active \in Nat /\ IsFiniteSet(K)
      /\ g.parked = Cardinality(P) /\ IsFiniteSet(P)
  <2>1. g.active = Cardinality(K) + Cardinality(a) + n /\ g.parked = Cardinality(P)
    BY DEF Books
  <2> QED
    BY <2>1, BooksTyped
<1>4. j \in K /\ j \notin P
  BY <1>2 DEF Taken, ParkedOf
<1>5. Cardinality(K \ {j}) = Cardinality(K) - 1 /\ Cardinality(K) > 0
  BY <1>3, <1>4, OneLess
<1>6. Cardinality(P \cup {j}) = Cardinality(P) + 1
  BY <1>3, <1>4, OneMore
<1>7. g.active > 0
  BY <1>3, <1>5
<1>8. /\ h \in GateType /\ h.active = g.active - 1 /\ h.parked = g.parked + 1
      /\ h.waiters = g.waiters /\ h.resuming = g.resuming
  BY <1>7, BooksTyped, SlotParkedTyped
<1>9. Taken(q, s, ToSet(h.waiters), ToSet(h.resuming)) = K \ {j}
  BY <1>1, <1>2, <1>8 DEF Taken
<1>10. ParkedOf(q) = P \cup {j}
  BY <1>1 DEF ParkedOf
<1>11. InPlace(h, q, s)
  BY <1>1, <1>2, <1>8 DEF Books, InPlace, MayHold, Seated
<1>12. h.active = Cardinality(K \ {j}) + Cardinality(a) + n /\ h.parked = Cardinality(P \cup {j})
  BY <1>3, <1>5, <1>6, <1>8
<1> QED
  BY <1>3, <1>7, <1>9, <1>10, <1>11, <1>12 DEF Books, q

\* A parked run comes back, into a slot or ahead of the waiters.
LEMMA ComesBack ==
    ASSUME NEW g, NEW n, NEW p, NEW s, NEW a, Books(g, n, p, s, a),
           NEW j \in Jobs, p[j] = "parked"
    PROVE  g.parked > 0 /\ Books(Unpark(g, j), n, [p EXCEPT ![j] = "resume"], s, a)
<1> DEFINE q == [p EXCEPT ![j] = "resume"]
           K == Taken(p, s, ToSet(g.waiters), ToSet(g.resuming))
           P == ParkedOf(p)
           h == Unpark(g, j)
<1>1. q \in [Jobs -> Places] /\ \A i \in Jobs : q[i] = IF i = j THEN "resume" ELSE p[i]
  BY BooksTyped DEF Places
<1> HIDE DEF q
<1>2. /\ Fat \subseteq Jobs /\ ToSet(g.resuming) \subseteq Jobs /\ s \subseteq Jobs
      /\ j \in s /\ j \notin ToSet(g.resuming)
  BY BooksTyped DEF Books, InPlace, Seated
<1>3. /\ g.active = Cardinality(K) + Cardinality(a) + n /\ Cardinality(K) \in Nat
      /\ Cardinality(a) \in Nat /\ n \in Nat /\ g.active \in Nat /\ IsFiniteSet(K)
      /\ g.parked = Cardinality(P) /\ IsFiniteSet(P)
  <2>1. g.active = Cardinality(K) + Cardinality(a) + n /\ g.parked = Cardinality(P)
    BY DEF Books
  <2> QED
    BY <2>1, BooksTyped
<1>4. j \in P
  BY DEF ParkedOf
<1>5. Cardinality(P \ {j}) = Cardinality(P) - 1 /\ Cardinality(P) > 0 /\ Cardinality(P) \in Nat
  BY <1>3, <1>4, OneLess
<1>6. ParkedOf(q) = P \ {j}
  BY <1>1 DEF ParkedOf
<1>7. g.parked > 0 /\ g.parked - 1 \in Nat /\ g.active + 1 \in Nat
  BY <1>3, <1>5
<1>8. CASE g.active < MAX
  <2>0. h = [g EXCEPT !.parked = g.parked - 1, !.active = g.active + 1]
    BY <1>8 DEF Unpark
  <2>1. /\ h \in GateType /\ h.active = g.active + 1 /\ h.parked = g.parked - 1
        /\ h.waiters = g.waiters /\ h.resuming = g.resuming
    <3>1. g \in GateType
      BY BooksTyped
    <3>2. h \in GateType
      BY <1>7, <2>0, <3>1 DEF GateType
    <3> QED
      BY <1>7, <2>0, <3>1, <3>2 DEF GateType
  <2>2. Taken(q, s, ToSet(h.waiters), ToSet(h.resuming)) = K \cup {j} /\ j \notin K
    BY <1>1, <1>2, <2>1 DEF Taken
  <2>3. Cardinality(K \cup {j}) = Cardinality(K) + 1
    BY <1>3, <2>2, OneMore
  <2>4. InPlace(h, q, s)
    BY <1>1, <1>2, <2>1 DEF Books, InPlace, MayHold, Seated
  <2>5. h.active = Cardinality(K \cup {j}) + Cardinality(a) + n /\ h.parked = Cardinality(P \ {j})
    BY <1>3, <1>5, <2>1, <2>3
  <2> QED
    BY <1>3, <1>6, <1>7, <2>1, <2>2, <2>4, <2>5 DEF Books, q
<1>9. CASE ~(g.active < MAX)
  <2> DEFINE v == Append(g.resuming, j)
  <2>1. v \in Seq(Jobs) /\ Distinct(v, Jobs) /\ ToSet(v) = ToSet(g.resuming) \cup {j}
    <3>1. Distinct(g.resuming, Jobs) /\ g.resuming \in Seq(Jobs)
      BY BooksTyped DEF Books, InPlace
    <3> QED
      BY <1>2, <3>1, NewcomerJoins
  <2>2. h = [g EXCEPT !.parked = g.parked - 1, !.resuming = v]
    BY <1>9 DEF Unpark
  <2> HIDE DEF v
  <2>3. /\ h \in GateType /\ h.active = g.active /\ h.parked = g.parked - 1
        /\ h.waiters = g.waiters /\ h.resuming = v
    <3>1. g \in GateType
      BY BooksTyped
    <3>2. h \in GateType
      BY <1>7, <2>1, <2>2, <3>1 DEF GateType
    <3> QED
      BY <1>7, <2>1, <2>2, <3>1, <3>2 DEF GateType
  <2>4. Taken(q, s, ToSet(h.waiters), ToSet(h.resuming)) = K
    BY <1>1, <1>2, <2>1, <2>3 DEF Taken
  <2>5. InPlace(h, q, s)
    BY <1>1, <1>2, <2>1, <2>3 DEF Books, InPlace, MayHold, Seated
  <2>6. h.active = Cardinality(K) + Cardinality(a) + n /\ h.parked = Cardinality(P \ {j})
    BY <1>3, <1>5, <2>3
  <2> QED
    BY <1>3, <1>6, <1>7, <2>3, <2>4, <2>5, <2>6 DEF Books, q
<1> QED
  BY <1>7, <1>8, <1>9

\* A delivery that is told to stop leaves the queue and its place there to nobody.
Forsaken(w, f) == [i \in 1 .. Len(w) |-> IF w[i] = f THEN Abandoned ELSE w[i]]

LEMMA Forsakes ==
    ASSUME NEW g, NEW n, NEW p, NEW s, NEW a, Books(g, n, p, s, a),
           NEW f \in Fat, p[f] = "wait", f \in ToSet(g.waiters)
    PROVE  LET h == [g EXCEPT !.waiters = Forsaken(g.waiters, f)]
           IN  /\ Books(h, n, [p EXCEPT ![f] = "settle"], s, a)
               /\ h.active = g.active /\ h.parked = g.parked /\ h.resuming = g.resuming
               /\ h.waiters # << >> => g.waiters # << >>
<1> DEFINE q == [p EXCEPT ![f] = "settle"]
           K == Taken(p, s, ToSet(g.waiters), ToSet(g.resuming))
           w == g.waiters
           v == Forsaken(w, f)
           h == [g EXCEPT !.waiters = v]
<1>1. q \in [Jobs -> Places] /\ \A i \in Jobs : q[i] = IF i = f THEN "settle" ELSE p[i]
  BY BooksTyped DEF Places
<1> HIDE DEF q
<1>2. /\ Fat \subseteq Jobs /\ ToSet(g.resuming) \subseteq Jobs /\ s \subseteq Jobs
      /\ f \notin s /\ f \notin ToSet(g.resuming)
  BY BooksTyped DEF Books, InPlace, MayHold, Seated
<1>3. /\ w \in Seq(Fat \cup {Abandoned}) /\ Len(w) \in Nat /\ Distinct(w, Fat)
      /\ DOMAIN w = 1 .. Len(w)
  BY BooksTyped, LenProperties DEF Books, InPlace
<1>4. /\ v \in Seq(Fat \cup {Abandoned}) /\ Len(v) = Len(w) /\ DOMAIN v = 1 .. Len(w)
      /\ \A i \in 1 .. Len(w) : v[i] = IF w[i] = f THEN Abandoned ELSE w[i]
  <2>1. \A i \in 1 .. Len(w) : w[i] \in Fat \cup {Abandoned}
    BY <1>3, ElementOfSeq
  <2>2. v \in [1 .. Len(w) -> Fat \cup {Abandoned}]
    BY <1>3, <2>1 DEF Forsaken
  <2> QED
    BY <1>3, <2>2 DEF Forsaken
<1> HIDE DEF v
<1>5. Distinct(v, Fat)
  BY <1>3, <1>4, DeliveryAssumption DEF Distinct
<1>6. \A x \in Fat : x \in ToSet(v) <=> x \in ToSet(w) /\ x # f
  <2>1. ASSUME NEW x \in Fat, x \in ToSet(v) PROVE x \in ToSet(w) /\ x # f
    BY <1>3, <1>4, <2>1, DeliveryAssumption DEF ToSet
  <2>2. ASSUME NEW x \in Fat, x \in ToSet(w), x # f PROVE x \in ToSet(v)
    BY <1>3, <1>4, <2>2 DEF ToSet
  <2> QED
    BY <2>1, <2>2
<1>7. /\ h \in GateType /\ h.active = g.active /\ h.parked = g.parked
      /\ h.waiters = v /\ h.resuming = g.resuming
  BY <1>4, BooksTyped DEF GateType
<1>8. Taken(q, s, ToSet(h.waiters), ToSet(h.resuming)) = K
  BY <1>1, <1>2, <1>6, <1>7 DEF Taken
<1>9. ParkedOf(q) = ParkedOf(p)
  BY <1>1, <1>2 DEF ParkedOf
<1>10. InPlace(h, q, s)
  BY <1>1, <1>2, <1>5, <1>6, <1>7 DEF Books, InPlace, MayHold, Seated
<1>11. w # << >>
  BY DEF ToSet
<1> QED
  BY <1>7, <1>8, <1>9, <1>10, <1>11 DEF Books, q, v
-----------------------------------------------------------------------------
(* Every step keeps the gate's books and its capacity.                     *)

\* A slot goes back while the books, without it, are those of the next state.
LEMMA Released ==
    ASSUME gate \in GateType, Full(gate), gate.active > 0, GateIs(Release(gate)),
           Books(SlotBack(gate), ghosts, pc', slots', asking')
    PROVE  GateInv'
<1> DEFINE h == SlotBack(gate)
<1>1. gate' = Wake(h) /\ h.waiters = gate.waiters
  BY SlotBackTyped DEF GateIs, Release, SlotBack, GateType
<1>2. NearlyFull(h) /\ h \in GateType
  BY SlotBackTyped, GateAssumption DEF Full, NearlyFull, Admissible, GateType
<1>3. Full(gate')
  BY <1>1, <1>2, WakeFills
<1>4. ghosts' = GhostsOf(Wake(h), h.waiters, ghosts)
  BY <1>1 DEF GateIs, GhostsOf
<1>5. Books(gate', ghosts', pc', slots', asking')
  BY <1>1, <1>4, WakeKeepsBooks
<1> QED
  BY <1>3, <1>5 DEF GateInv, Full, Admissible, Books, InPlace

\* A delivery moves on with the gate as it is.
LEMMA Moved ==
    ASSUME GateInv, UNCHANGED <<gateVars, asking>>,
           NEW j \in Jobs, NEW x \in Places \ {"wait", "parked", "resume"},
           pc' = [pc EXCEPT ![j] = x],
           pc[j] \notin {"wait", "parked"}, pc[j] = "resume" => j \notin ToSet(gate.resuming),
           j \in slots => x \in MayHold, x \in Seated => j \in slots
    PROVE  GateInv'
<1>1. Books(gate, ghosts, pc, slots, asking) /\ Full(gate)
  BY DEF GateInv
<1>2. j \notin ToSet(gate.resuming)
  BY <1>1 DEF Books, InPlace
<1>3. Books(gate, ghosts, pc', slots, asking)
  BY <1>1, <1>2, Moves
<1>4. gate' = gate /\ ghosts' = ghosts /\ slots' = slots /\ asking' = asking
  BY DEF gateVars
<1> QED
  BY <1>1, <1>3, <1>4 DEF GateInv, Books, InPlace, Full, Admissible

\* A delivery is over here, and its finally gives back the slot it has.
LEMMA Left ==
    ASSUME GateInv, NEW j \in Jobs, Leave(j), asking' = asking,
           NEW x \in Places \ (MayHold \cup {"wait"}), pc' = [pc EXCEPT ![j] = x],
           pc[j] \notin {"wait", "parked", "resume"}
    PROVE  GateInv'
<1>1. Books(gate, ghosts, pc, slots, asking) /\ Full(gate)
  BY DEF GateInv
<1>2. CASE j \in slots
  <2>1. gate.active > 0 /\ Books(SlotBack(gate), ghosts, pc', slots', asking')
    <3>1. gate.active > 0 /\ Books(SlotBack(gate), ghosts, [pc EXCEPT ![j] = x], slots \ {j}, asking)
      BY <1>1, <1>2, GivesBack
    <3>2. slots' = slots \ {j}
      BY <1>2 DEF Leave
    <3> QED
      BY <3>1, <3>2
  <2>2. gate \in GateType
    BY <1>1, BooksTyped
  <2> QED
    BY <1>1, <1>2, <2>1, <2>2, Released DEF Leave
<1>3. CASE j \notin slots
  BY <1>3, Moved DEF Leave, MayHold, Seated
<1> QED
  BY <1>2, <1>3

\* Nothing the books are about has changed.
LEMMA Untouched ==
    ASSUME GateInv, UNCHANGED <<gateVars, asking, pc>>
    PROVE  GateInv'
  BY DEF GateInv, Books, InPlace, Full, Admissible, gateVars

\* A nak ends on the stream or drops the message.
LEMMA NakPlaces == \A n : AfterNak(n) \in {"stream", "dropped"}
  BY DEF AfterNak

\* The steps of a fat message before its slot.
LEMMA GateFatStep ==
    ASSUME IInv, NEW f \in Fat,
           RefuseDraining(f) \/ RefuseSurplus(f) \/ Admit(f) \/ RaiseStop(f) \/ FatProgress(f)
    PROVE  GateInv'
<1> USE NakPlaces
<1>0. /\ GateInv /\ Books(gate, ghosts, pc, slots, asking) /\ Full(gate) /\ f \in Jobs /\ gate \in GateType
      /\ f \in slots => pc[f] \in MayHold
      /\ pc[f] \in Seated => f \in slots
  BY BooksTyped DEF IInv, GateInv, Jobs, Books, InPlace
<1>1. CASE RefuseDraining(f)
  BY <1>0, <1>1, Moved DEF RefuseDraining, Deliver, rowVars, Places, MayHold, Seated
<1>2. CASE RefuseSurplus(f)
  BY <1>0, <1>2, Moved DEF RefuseSurplus, Deliver, rowVars, Places, MayHold, Seated
<1>3. ASSUME GateIs(Acquire(gate, f)), pc' = [pc EXCEPT ![f] = "wait"], UNCHANGED <<slots, asking>>,
             pc[f] \in {"stream", "accept"}
      PROVE  GateInv'
  <2>1. Books(gate', ghosts, pc', slots', asking')
    BY <1>0, <1>3, ComesIn DEF GateIs
  <2>2. Full(gate') /\ ghosts' = ghosts
    <3>1. CASE Admissible(gate)
      <4>1. gate' = SlotTaken(gate)
        BY <1>3, <3>1 DEF GateIs, Acquire, SlotTaken
      <4> QED
        BY <1>0, <1>3, <3>1, <4>1, SlotTakenTyped, GateAssumption
           DEF Full, Admissible, GateIs, Acquire, SlotTaken, GateType
    <3>2. CASE ~Admissible(gate)
      <4>1. gate' = [gate EXCEPT !.waiters = Append(gate.waiters, f)]
        BY <1>3, <3>2 DEF GateIs, Acquire
      <4>2. gate.waiters \in Seq(Fat \cup {Abandoned}) /\ f \in Fat \cup {Abandoned}
        BY <1>0 DEF GateType
      <4>3. Len(Append(gate.waiters, f)) = Len(gate.waiters) + 1 /\ Len(gate.waiters) \in Nat
        BY <4>2, AppendProperties, LenProperties
      <4>4. /\ gate'.active = gate.active /\ gate'.parked = gate.parked
            /\ gate'.waiters = Append(gate.waiters, f) /\ gate'.resuming = gate.resuming
        BY <1>0, <4>1 DEF GateType
      <4>5. ghosts' = ghosts
        BY <1>3, <4>3, <4>4 DEF GateIs
      <4> QED
        BY <1>0, <3>2, <4>4, <4>5 DEF Full, Admissible
    <3> QED
      BY <3>1, <3>2
  <2> QED
    BY <2>1, <2>2 DEF GateInv, Books, InPlace, Full, Admissible
<1>4. CASE Admit(f)
  <2>1. CASE f \in Leased
    BY <1>0, <1>4, <2>1, Moved DEF Admit, Deliver, rowVars, Places, MayHold, Seated
  <2>2. CASE f \notin Leased
    BY <1>3, <1>4, <2>2 DEF Admit, Deliver, rowVars
  <2> QED
    BY <2>1, <2>2
<1>5. CASE Accepted(f)
  <2>1. CASE pc' = [pc EXCEPT ![f] = "wait"] /\ GateIs(Acquire(gate, f)) /\ UNCHANGED <<slots, raised>>
    BY <1>3, <1>5, <2>1 DEF Accepted, rowVars
  <2>2. CASE pc' = [pc EXCEPT ![f] = "settle"] /\ UNCHANGED gateVars
    BY <1>0, <1>5, <2>2, Moved DEF Accepted, rowVars, Places, MayHold, Seated
  <2> QED
    BY <1>5, <2>1, <2>2 DEF Accepted
<1>6. CASE NotAccepted(f)
  BY <1>0, <1>6, Moved DEF NotAccepted, rowVars, Places, MayHold, Seated
<1>7. CASE RaiseStop(f)
  <2>1. CASE Waits(f)
    <3> DEFINE h == [gate EXCEPT !.waiters = Forsaken(gate.waiters, f)]
    <3>1. gate' = h /\ pc' = [pc EXCEPT ![f] = "settle"] /\ UNCHANGED <<ghosts, slots, asking>>
      BY <1>7, <2>1 DEF RaiseStop, rowVars, Forsaken
    <3>2. /\ Books(h, ghosts, [pc EXCEPT ![f] = "settle"], slots, asking)
          /\ h.active = gate.active /\ h.parked = gate.parked /\ h.resuming = gate.resuming
          /\ h.waiters # << >> => gate.waiters # << >>
      BY <1>0, <2>1, Forsakes DEF Waits
    <3> HIDE DEF h
    <3>3. Full(gate')
      BY <1>0, <3>1, <3>2 DEF Full, Admissible
    <3>4. Books(gate', ghosts', pc', slots', asking')
      BY <3>1, <3>2
    <3> QED
      BY <3>3, <3>4 DEF GateInv, Books, InPlace, Full, Admissible
  <2>2. CASE ~Waits(f)
    BY <1>0, <1>7, <2>2, Untouched DEF RaiseStop, rowVars, gateVars
  <2> QED
    BY <2>1, <2>2
<1>8. ASSUME NEW x \in MayHold \ {"parked", "resume"}, pc' = [pc EXCEPT ![f] = x],
             slots' = slots \cup {f}, UNCHANGED <<gate, ghosts, asking>>, Granted(f)
      PROVE  GateInv'
  <2>1. Books(gate', ghosts', pc', slots', asking')
    BY <1>0, <1>8, Sits DEF Granted
  <2>2. Full(gate')
    BY <1>0, <1>8
  <2> QED
    BY <2>1, <2>2 DEF GateInv, Books, InPlace, Full, Admissible
<1>9. CASE Proceed(f)
  <2>1. CASE Draining /\ raised[f] = "none" /\ f \in Leased
    BY <1>8, <1>9, <2>1 DEF Proceed, rowVars, MayHold
  <2>2. CASE Draining /\ raised[f] = "none" /\ f \notin Leased
    <3>1. gate.active > 0 /\ Books(SlotBack(gate), ghosts, pc', slots', asking')
      BY <1>0, <1>9, <2>2, Declines DEF Proceed, Granted, rowVars, Places, MayHold, Seated
    <3> QED
      BY <1>0, <1>9, <2>2, <3>1, Released DEF Proceed
  <2>3. CASE ~(Draining /\ raised[f] = "none")
    BY <1>8, <1>9, <2>3 DEF Proceed, rowVars, MayHold, Seated
  <2> QED
    BY <2>1, <2>2, <2>3
<1>10. CASE SettleStopped(f)
  <2>1. CASE pc' = [pc EXCEPT ![f] = "done"] /\ Leave(f)
    BY <1>0, <1>10, <2>1, Left DEF SettleStopped, rowVars, Places, MayHold, Seated
  <2>2. CASE pc' = [pc EXCEPT ![f] = "release"] /\ UNCHANGED gateVars
    BY <1>0, <1>10, <2>2, Moved DEF SettleStopped, rowVars, Places, MayHold, Seated
  <2>3. CASE pc' = [pc EXCEPT ![f] = AfterNak(count[f])] /\ Leave(f)
    BY <1>0, <1>10, <2>3, Left DEF SettleStopped, rowVars, Places, MayHold, Seated
  <2> QED
    BY <1>10, <2>1, <2>2, <2>3 DEF SettleStopped
<1>11. CASE ReleaseThenNak(f)
  BY <1>0, <1>11, Left DEF ReleaseThenNak, rowVars, Places, MayHold, Seated
<1>12. CASE FinishAtGuard(f)
  BY <1>0, <1>12, Left DEF FinishAtGuard, rowVars, Places, MayHold, Seated
<1>13. CASE NotResolved(f)
  BY <1>0, <1>13, Left DEF NotResolved, rowVars, Places, MayHold, Seated
<1>14. CASE DeferForLock(f)
  BY <1>0, <1>14, Moved DEF DeferForLock, rowVars, Places, MayHold, Seated
<1>15. CASE StartFat(f)
  BY <1>0, <1>15, Moved DEF StartFat, rowVars, Places, MayHold, Seated
<1>16. CASE FinishFat(f)
  BY <1>0, <1>16, Left DEF FinishFat, rowVars, Places, MayHold, Seated
<1>17. CASE RetryFat(f)
  BY <1>0, <1>17, Moved DEF RetryFat, rowVars, Places, MayHold, Seated
<1>18. CASE ReplayUnread(f)
  BY <1>0, <1>18, Left DEF ReplayUnread, rowVars, Places, MayHold, Seated
<1>19. CASE StandDown(f)
  BY <1>0, <1>19, Left DEF StandDown, rowVars, Places, MayHold, Seated
<1> QED
  BY <1>1, <1>2, <1>4, <1>5, <1>6, <1>7, <1>9, <1>10, <1>11, <1>12, <1>13, <1>14, <1>15,
     <1>16, <1>17, <1>18, <1>19
     DEF FatProgress
\* The steps of a claim.
LEMMA GateClaimStep ==
    ASSUME IInv, NEW c \in Claims, ClaimProgress(c)
    PROVE  GateInv'
<1>0. /\ GateInv /\ c \in Jobs
      /\ c \in slots => pc[c] \in MayHold
      /\ pc[c] \in Seated => c \in slots
  BY DEF IInv, GateInv, Jobs, Books, InPlace
<1>1. CASE FailDeleted(c)
  BY <1>0, <1>1, Moved DEF FailDeleted, Places, MayHold, Seated
<1>2. CASE FailAnswered(c)
  BY <1>0, <1>2, Left DEF FailAnswered, rowVars, Places, MayHold, Seated
<1>3. CASE StartClaimed(c)
  BY <1>0, <1>3, Moved DEF StartClaimed, rowVars, Places, MayHold, Seated
<1>4. CASE BackOff(c)
  BY <1>0, <1>4, Left DEF BackOff, Places, MayHold, Seated
<1>5. CASE TimerFires(c)
  BY <1>0, <1>5, Moved DEF TimerFires, Places, MayHold, Seated
<1>6. CASE HandBackNow(c)
  BY <1>0, <1>6, Left DEF HandBackNow, Places, MayHold, Seated
<1>7. CASE FinishClaimed(c)
  BY <1>0, <1>7, Left DEF FinishClaimed, Places, MayHold, Seated
<1>8. CASE TermClaimed(c)
  BY <1>0, <1>8, Left DEF TermClaimed, Places, MayHold, Seated
<1>9. CASE StandDown(c)
  <2>1. c \notin Fat
    BY DeliveryAssumption
  <2> QED
    BY <1>0, <1>9, <2>1, Left DEF StandDown, rowVars, Places, MayHold, Seated
<1> QED
  BY <1>1, <1>2, <1>3, <1>4, <1>5, <1>6, <1>7, <1>8, <1>9 DEF ClaimProgress

\* The steps of a claim request.
LEMMA GateAskStep ==
    ASSUME IInv, NEW k \in Askers, Ask(k) \/ ClaimRequestProgress(k)
    PROVE  GateInv'
<1>0. GateInv /\ Books(gate, ghosts, pc, slots, asking) /\ Full(gate) /\ gate \in GateType
  BY BooksTyped DEF IInv, GateInv
<1>1. CASE Ask(k)
  <2>1. Admissible(gate) /\ k \notin asking /\ gate' = Acquire(gate, k) /\ gate' = SlotTaken(gate)
    BY <1>1 DEF Ask, GateIs, Acquire, SlotTaken
  <2>2. Books(gate', ghosts, pc, slots, asking')
    <3>1. Books(Acquire(gate, k), ghosts, pc, slots, asking \cup {k})
      BY <1>0, <2>1, Asks
    <3>2. asking' = asking \cup {k}
      BY <1>1 DEF Ask
    <3> QED
      BY <2>1, <3>1, <3>2
  <2>3. Full(gate')
    <3>1. /\ gate'.active = gate.active + 1 /\ gate'.parked = gate.parked
          /\ gate'.waiters = gate.waiters /\ gate'.resuming = gate.resuming
      BY <1>0, <2>1, SlotTakenTyped
    <3>2. gate.active \in Nat /\ gate.parked \in Nat /\ gate.resuming \in Seq(Jobs)
      BY <1>0 DEF GateType
    <3>3. Len(<< >>) = 0 /\ Len(gate.resuming) \in Nat
      BY <3>2, LenProperties, EmptySeq
    <3>4. gate.resuming = << >> /\ gate.waiters = << >>
      BY <1>0, <2>1, <3>2, GateAssumption DEF Full, Admissible
    <3> QED
      BY <1>0, <2>1, <3>1, <3>2, <3>3, <3>4, GateAssumption DEF Full, Admissible
  <2>4. ghosts' = ghosts
    <3>1. gate'.waiters = gate.waiters /\ Len(gate.waiters) \in Nat
      BY <1>0, <2>1, SlotTakenTyped, LenProperties DEF GateType
    <3> QED
      BY <1>1, <2>1, <3>1 DEF Ask, GateIs
  <2>5. Books(gate', ghosts', pc', slots', asking')
    BY <1>1, <2>2, <2>4 DEF Ask
  <2> QED
    BY <2>3, <2>5 DEF GateInv, Books, InPlace, Full, Admissible
<1>2. ASSUME NEW r \in Rows, ClaimServed(k, r) PROVE GateInv'
  BY <1>0, <1>2, Untouched DEF ClaimServed
<1>3. ASSUME NEW c \in Claims, ClaimArrives(k, c) PROVE GateInv'
  <2>1. k \in asking /\ pc[c] = "none"
    BY <1>3 DEF ClaimArrives, IInv, TypeOK, ClaimsAreNumbered
  <2>2. Books(gate, ghosts, [pc EXCEPT ![c] = "check"], slots \cup {c}, asking \ {k})
    BY <1>0, <2>1, Arrives
  <2>3. Books(gate', ghosts', pc', slots', asking')
    BY <1>3, <2>2 DEF ClaimArrives
  <2>4. Full(gate')
    BY <1>0, <1>3 DEF ClaimArrives
  <2> QED
    BY <2>3, <2>4 DEF GateInv, Books, InPlace, Full, Admissible
<1>4. CASE ClaimMissed(k)
  <2>1. gate.active > 0 /\ Books(SlotBack(gate), ghosts, pc, slots, asking \ {k})
    BY <1>0, <1>4, Misses DEF ClaimMissed
  <2>2. Books(SlotBack(gate), ghosts, pc', slots', asking')
    BY <1>4, <2>1 DEF ClaimMissed
  <2> QED
    BY <1>0, <1>4, <2>1, <2>2, Released DEF ClaimMissed
<1> QED
  BY <1>1, <1>2, <1>3, <1>4 DEF ClaimRequestProgress

\* The steps of a run that waits for something outside.
LEMMA GateRunStep ==
    ASSUME IInv, NEW j \in Jobs, ParkRun(j) \/ UnparkRun(j) \/ ResumeRun(j) \/ LoseLock(j)
    PROVE  GateInv'
<1>0. /\ GateInv /\ Books(gate, ghosts, pc, slots, asking) /\ Full(gate) /\ gate \in GateType
      /\ pc[j] \in Seated => j \in slots
  BY BooksTyped DEF IInv, GateInv, Books, InPlace
<1>1. CASE ParkRun(j)
  <2> DEFINE h == SlotParked(gate)
  <2>1. gate.active > 0 /\ Books(h, ghosts, [pc EXCEPT ![j] = "parked"], slots, asking)
    BY <1>0, <1>1, Parks DEF ParkRun
  <2>2. /\ gate' = Wake(h) /\ h.waiters = gate.waiters
        /\ ghosts' = GhostsOf(Wake(h), h.waiters, ghosts)
    BY <1>0, <1>1, <2>1, SlotParkedTyped DEF ParkRun, GateIs, Park, SlotParked, GhostsOf
  <2>3. NearlyFull(h) /\ h \in GateType
    <3>1. /\ h \in GateType /\ h.active = gate.active - 1 /\ h.parked = gate.parked + 1
          /\ h.waiters = gate.waiters /\ h.resuming = gate.resuming
      BY <1>0, <2>1, SlotParkedTyped
    <3>2. gate.active \in Nat /\ gate.parked \in Nat /\ gate.resuming \in Seq(Jobs)
      BY <1>0 DEF GateType
    <3>3. Len(gate.resuming) \in Nat
      BY <3>2, LenProperties
    <3> QED
      BY <1>0, <2>1, <3>1, <3>2, <3>3, GateAssumption DEF Full, NearlyFull, Admissible
  <2>4. Full(gate')
    BY <2>2, <2>3, WakeFills
  <2>5. Books(Wake(h), GhostsOf(Wake(h), h.waiters, ghosts), [pc EXCEPT ![j] = "parked"], slots, asking)
    BY <2>1, WakeKeepsBooks
  <2>6. Books(gate', ghosts', pc', slots', asking')
    BY <1>1, <2>2, <2>5 DEF ParkRun, rowVars
  <2> QED
    BY <2>4, <2>6 DEF GateInv, Books, InPlace, Full, Admissible
<1>2. CASE UnparkRun(j)
  <2>1. gate.parked > 0 /\ Books(gate', ghosts, pc', slots', asking')
    BY <1>0, <1>2, ComesBack DEF UnparkRun, GateIs, rowVars
  <2>2. /\ gate.active \in Nat /\ gate.parked \in Nat
        /\ gate.resuming \in Seq(Jobs) /\ gate.waiters \in Seq(Fat \cup {Abandoned})
    BY <1>0 DEF GateType
  <2>3. Len(gate.resuming) \in Nat /\ Len(gate.waiters) \in Nat
    BY <2>2, LenProperties
  <2>4. Full(gate') /\ gate'.waiters = gate.waiters
    <3>1. CASE gate.active < MAX
      <4>1. gate' = [gate EXCEPT !.parked = @ - 1, !.active = @ + 1]
        BY <1>2, <3>1 DEF UnparkRun, GateIs, Unpark
      <4>2. /\ gate'.active = gate.active + 1 /\ gate'.parked = gate.parked - 1
            /\ gate'.waiters = gate.waiters /\ gate'.resuming = gate.resuming
        BY <1>0, <4>1 DEF GateType
      <4> QED
        BY <1>0, <2>1, <2>2, <2>3, <3>1, <4>2, GateAssumption DEF Full, Admissible
    <3>2. CASE ~(gate.active < MAX)
      <4>1. gate' = [gate EXCEPT !.parked = @ - 1, !.resuming = Append(@, j)]
        BY <1>2, <3>2 DEF UnparkRun, GateIs, Unpark
      <4>2. /\ gate'.active = gate.active /\ gate'.parked = gate.parked - 1
            /\ gate'.waiters = gate.waiters /\ gate'.resuming = Append(gate.resuming, j)
        BY <1>0, <4>1 DEF GateType
      <4>3. Len(Append(gate.resuming, j)) = Len(gate.resuming) + 1
        BY <2>2, AppendProperties
      <4> QED
        BY <1>0, <2>1, <2>2, <2>3, <3>2, <4>2, <4>3, GateAssumption DEF Full, Admissible
    <3> QED
      BY <3>1, <3>2
  <2>5. ghosts' = ghosts
    BY <1>2, <2>3, <2>4 DEF UnparkRun, GateIs
  <2> QED
    BY <2>1, <2>4, <2>5 DEF GateInv, Books, InPlace, Full, Admissible
<1>3. CASE ResumeRun(j)
  BY <1>0, <1>3, Moved DEF ResumeRun, rowVars, Places, MayHold, Seated
<1>4. CASE LoseLock(j)
  BY <1>0, <1>4, Untouched DEF LoseLock, rowVars
<1> QED
  BY <1>1, <1>2, <1>3, <1>4

\* The registry's flush moves deliveries that hold no slot.
LEMMA GateFlushStep ==
    ASSUME IInv, FlushPendingRetries
    PROVE  GateInv'
<1> DEFINE waiting == {<<r, registry[r]>> : r \in {r \in Rows : registry[r] # 0}}
           T(p) == Taken(p, slots, ToSet(gate.waiters), ToSet(gate.resuming))
<1>0. /\ Books(gate, ghosts, pc, slots, asking) /\ Full(gate)
      /\ pc \in [Jobs -> Places] /\ slots \subseteq Jobs /\ Fat \subseteq Jobs
      /\ ToSet(gate.resuming) \subseteq Jobs
  BY BooksTyped DEF IInv, GateInv
<1>1. \A j \in waiting : pc[j] = "backoff"
  BY DEF IInv, RegistryBacksOff
<1>2. /\ pc' = [j \in Jobs |-> IF j \in waiting THEN "done" ELSE pc[j]]
      /\ gate' = gate /\ ghosts' = ghosts /\ slots' = slots /\ asking' = asking
  BY DEF FlushPendingRetries, gateVars
<1> HIDE DEF waiting
<1>3. \A j \in Jobs : pc'[j] = pc[j] \/ (pc[j] = "backoff" /\ pc'[j] = "done")
  BY <1>0, <1>1, <1>2
<1>4. pc' \in [Jobs -> Places]
  BY <1>0, <1>2 DEF Places
<1>5. T(pc') = T(pc)
  BY <1>0, <1>3 DEF Taken
<1>6. ParkedOf(pc') = ParkedOf(pc)
  BY <1>3 DEF ParkedOf
<1>7. InPlace(gate, pc', slots)
  BY <1>0, <1>3, <1>4 DEF Books, InPlace, MayHold, Seated
<1>8. Books(gate, ghosts, pc', slots, asking)
  BY <1>0, <1>5, <1>6, <1>7 DEF Books
<1>9. Books(gate', ghosts', pc', slots', asking') /\ Full(gate')
  BY <1>0, <1>2, <1>8
<1> QED
  BY <1>9 DEF GateInv, Books, InPlace, Full, Admissible

\* Every step keeps the gate's books and its capacity.
LEMMA GateStep ==
    ASSUME IInv, [Next]_vars
    PROVE  GateInv'
<1>0. GateInv /\ Books(gate, ghosts, pc, slots, asking) /\ Full(gate) /\ gate \in GateType
  BY BooksTyped DEF IInv, GateInv
<1>1. CASE ReleaseAbandoned
  <2> DEFINE h == SlotBack(gate)
  <2>1. gate.active > 0 /\ ghosts - 1 \in Nat
    <3>1. ghosts \in Nat /\ ghosts > 0
      BY <1>0, <1>1 DEF ReleaseAbandoned, Books
    <3>2. PICK taken, asked : gate.active = taken + asked + ghosts /\ taken \in Nat /\ asked \in Nat
      <4>1. gate.active = Cardinality(Taken(pc, slots, ToSet(gate.waiters), ToSet(gate.resuming)))
                            + Cardinality(asking) + ghosts
        BY <1>0 DEF Books
      <4> QED
        BY <1>0, <4>1, BooksTyped
    <3> QED
      BY <3>1, <3>2
  <2>2. h \in GateType /\ h.active = gate.active - 1 /\ h.parked = gate.parked
        /\ h.waiters = gate.waiters /\ h.resuming = gate.resuming
    BY <1>0, <2>1, SlotBackTyped
  <2>3. Books(h, ghosts - 1, pc, slots, asking)
    <3> DEFINE K == Taken(pc, slots, ToSet(gate.waiters), ToSet(gate.resuming))
    <3>1. InPlace(h, pc, slots)
      BY <1>0, <2>2 DEF Books, InPlace
    <3>2. gate.active = Cardinality(K) + Cardinality(asking) + ghosts
      BY <1>0 DEF Books
    <3>3. Cardinality(K) \in Nat /\ Cardinality(asking) \in Nat /\ ghosts \in Nat
      BY <1>0, BooksTyped
    <3>4. h.active = Cardinality(K) + Cardinality(asking) + (ghosts - 1)
      BY <2>2, <3>2, <3>3
    <3> QED
      BY <1>0, <2>1, <2>2, <3>1, <3>4 DEF Books
  <2>4. Books(Wake(h), GhostsOf(Wake(h), h.waiters, ghosts - 1), pc, slots, asking)
    BY <2>3, WakeKeepsBooks
  <2>5. gate' = Wake(h)
    BY <1>0, <1>1, <2>1 DEF ReleaseAbandoned, Release, SlotBack, GateType
  <2>6. ghosts' = GhostsOf(Wake(h), h.waiters, ghosts - 1)
    <3>1. ghosts \in Nat
      BY <1>0 DEF Books
    <3>2. Release(gate) = gate'
      BY <1>1 DEF ReleaseAbandoned
    <3> QED
      BY <1>1, <2>2, <2>5, <3>1, <3>2 DEF ReleaseAbandoned, GhostsOf
  <2>7. NearlyFull(h)
    BY <1>0, <2>2, GateAssumption DEF Full, NearlyFull, Admissible, GateType
  <2>8. Full(gate')
    BY <2>2, <2>5, <2>7, WakeFills
  <2>9. Books(gate', ghosts', pc', slots', asking')
    BY <1>1, <2>4, <2>5, <2>6 DEF ReleaseAbandoned, rowVars
  <2> QED
    BY <2>8, <2>9 DEF GateInv, Books, InPlace, Full, Admissible
<1>2. ASSUME NEW m \in wire, Answer(m) \/ GiveUp(m) PROVE GateInv'
  BY <1>0, <1>2, Untouched DEF Answer, GiveUp
<1>3. ASSUME NEW r \in Rows, Lapse(r) \/ CloseRow(r) PROVE GateInv'
  BY <1>0, <1>3, Untouched DEF Lapse, CloseRow
<1>4. CASE VersionDrain \/ BeginShutdown \/ AwaitReleases \/ Exit
  BY <1>0, <1>4, Untouched DEF VersionDrain, BeginShutdown, AwaitReleases, Exit, rowVars
<1>5. CASE UNCHANGED vars
  BY <1>0, <1>5, Untouched DEF vars, rowVars
<1> QED
  BY <1>1, <1>2, <1>3, <1>4, <1>5, GateFatStep, GateClaimStep, GateAskStep, GateRunStep,
     GateFlushStep
     DEF Next, Shutdown
-----------------------------------------------------------------------------
(* Messages, claims and the shutdown.                                      *)

\* The budget and the lease of a message: its lease is gone or given up at every nak.
LEMMA LeaseStep ==
    ASSUME IInv, [Next]_vars
    PROVE  (LeaseKept /\ HeardFirst)' /\ count' \in [Fat -> 0 .. MAX_DELIVER]
<1> DEFINE Goal == (LeaseKept /\ HeardFirst)' /\ count' \in [Fat -> 0 .. MAX_DELIVER]
<1>0. /\ pc \in [Jobs -> Places] /\ count \in [Fat -> 0 .. MAX_DELIVER] /\ raised \in [Fat -> Stops]
      /\ lease \in [Fat -> {"none", "held", "forgotten"}]
      /\ LeaseKept /\ HeardFirst /\ RegistryBacksOff /\ Fat \subseteq Jobs /\ Claims \subseteq Jobs
      /\ registry \in [Rows -> 0 .. MaxClaims]
  BY DEF IInv, TypeOK, Jobs
<1> USE <1>0, DeliveryAssumption DEF LeaseKept, HeardFirst, AfterNak, POISON, Stops, fatVars
<1>1. ASSUME NEW f \in Fat, RefuseDraining(f) PROVE Goal
  BY <1>1 DEF RefuseDraining, Deliver
<1>2. ASSUME NEW f \in Fat, RefuseSurplus(f) PROVE Goal
  BY <1>2 DEF RefuseSurplus, Deliver, canRefuse
<1>3. ASSUME NEW f \in Fat, Admit(f) PROVE Goal
  BY <1>3 DEF Admit, Deliver
<1>4. ASSUME NEW f \in Fat, Accepted(f) PROVE Goal
  BY <1>4 DEF Accepted
<1>5. ASSUME NEW f \in Fat, NotAccepted(f) PROVE Goal
  BY <1>5 DEF NotAccepted
<1>6. ASSUME NEW f \in Fat, RaiseStop(f) PROVE Goal
  BY <1>6 DEF RaiseStop, Waits
<1>7. ASSUME NEW f \in Fat, Proceed(f) PROVE Goal
  <2>1. CASE Draining /\ raised[f] = "none" /\ f \in Leased
    BY <1>7, <2>1 DEF Proceed, Granted
  <2>2. CASE Draining /\ raised[f] = "none" /\ f \notin Leased
    <3>1. f \in Plain
      BY <2>2 DEF Fat
    <3> QED
      BY <1>7, <2>2, <3>1 DEF Proceed, Granted
  <2>3. CASE ~(Draining /\ raised[f] = "none")
    BY <1>7, <2>3 DEF Proceed, Granted
  <2> QED
    BY <2>1, <2>2, <2>3
<1>8. ASSUME NEW f \in Fat, SettleStopped(f) PROVE Goal
  BY <1>8 DEF SettleStopped
<1>9. ASSUME NEW f \in Fat, ReleaseThenNak(f) PROVE Goal
  BY <1>9 DEF ReleaseThenNak
<1>10. ASSUME NEW f \in Fat, FinishAtGuard(f) PROVE Goal
  BY <1>10 DEF FinishAtGuard
<1>11. ASSUME NEW f \in Fat, NotResolved(f) PROVE Goal
  BY <1>11 DEF NotResolved
<1>12. ASSUME NEW f \in Fat, DeferForLock(f) PROVE Goal
  BY <1>12 DEF DeferForLock
<1>13. ASSUME NEW f \in Fat, StartFat(f) PROVE Goal
  BY <1>13 DEF StartFat
<1>14. ASSUME NEW f \in Fat, FinishFat(f) PROVE Goal
  BY <1>14 DEF FinishFat
<1>15. ASSUME NEW f \in Fat, RetryFat(f) PROVE Goal
  BY <1>15 DEF RetryFat
<1>16. ASSUME NEW c \in Claims, FailDeleted(c) PROVE Goal
  BY <1>16 DEF FailDeleted
<1>17. ASSUME NEW c \in Claims, FailAnswered(c) PROVE Goal
  BY <1>17 DEF FailAnswered
<1>18. ASSUME NEW c \in Claims, StartClaimed(c) PROVE Goal
  BY <1>18 DEF StartClaimed
<1>19. ASSUME NEW c \in Claims, BackOff(c) PROVE Goal
  BY <1>19 DEF BackOff
<1>20. ASSUME NEW c \in Claims, TimerFires(c) PROVE Goal
  BY <1>20 DEF TimerFires
<1>21. ASSUME NEW c \in Claims, HandBackNow(c) PROVE Goal
  BY <1>21 DEF HandBackNow
<1>22. ASSUME NEW c \in Claims, FinishClaimed(c) PROVE Goal
  BY <1>22 DEF FinishClaimed
<1>23. ASSUME NEW c \in Claims, TermClaimed(c) PROVE Goal
  BY <1>23 DEF TermClaimed
<1>24. ASSUME NEW j \in Jobs, ParkRun(j) PROVE Goal
  BY <1>24 DEF ParkRun
<1>25. ASSUME NEW j \in Jobs, UnparkRun(j) PROVE Goal
  BY <1>25 DEF UnparkRun
<1>26. ASSUME NEW j \in Jobs, ResumeRun(j) PROVE Goal
  BY <1>26 DEF ResumeRun
<1>27. ASSUME NEW k \in Askers, Ask(k) PROVE Goal
  BY <1>27 DEF Ask
<1>28. ASSUME NEW k \in Askers, NEW r \in Rows, ClaimServed(k, r) PROVE Goal
  BY <1>28 DEF ClaimServed
<1>29. ASSUME NEW k \in Askers, NEW c \in Claims, ClaimArrives(k, c) PROVE Goal
  BY <1>29 DEF ClaimArrives
<1>30. ASSUME NEW k \in Askers, ClaimMissed(k) PROVE Goal
  BY <1>30 DEF ClaimMissed
<1>31. ASSUME NEW m \in wire, Answer(m) PROVE Goal
  BY <1>31 DEF Answer
<1>32. ASSUME NEW m \in wire, GiveUp(m) PROVE Goal
  BY <1>32 DEF GiveUp
<1>33. ASSUME NEW r \in Rows, Lapse(r) PROVE Goal
  BY <1>33 DEF Lapse
<1>34. ASSUME NEW r \in Rows, CloseRow(r) PROVE Goal
  BY <1>34 DEF CloseRow
<1>35. CASE ReleaseAbandoned
  BY <1>35 DEF ReleaseAbandoned
<1>36. CASE VersionDrain
  BY <1>36 DEF VersionDrain
<1>37. CASE BeginShutdown
  BY <1>37 DEF BeginShutdown
<1>38. CASE FlushPendingRetries
  <2>1. \A f \in Fat : pc'[f] = pc[f]
    BY <1>38 DEF FlushPendingRetries, Claims
  <2> QED
    BY <1>38, <2>1 DEF FlushPendingRetries
<1>39. CASE AwaitReleases
  BY <1>39 DEF AwaitReleases
<1>40. CASE Exit
  BY <1>40 DEF Exit
<1>41. CASE UNCHANGED vars
  BY <1>41 DEF vars
<1>42. ASSUME NEW f \in Fat, ReplayUnread(f) PROVE Goal
  BY <1>42 DEF ReplayUnread
<1>43. ASSUME NEW j \in Jobs, LoseLock(j) PROVE Goal
  BY <1>43 DEF LoseLock
<1>44. ASSUME NEW j \in Jobs, StandDown(j) PROVE Goal
  BY <1>44 DEF StandDown
<1> QED
  BY <1>1, <1>2, <1>3, <1>4, <1>5, <1>6, <1>7, <1>8, <1>9, <1>10, <1>11, <1>12, <1>13,
     <1>14, <1>15, <1>16, <1>17, <1>18, <1>19, <1>20, <1>21, <1>22, <1>23, <1>24, <1>25,
     <1>26, <1>27, <1>28, <1>29, <1>30, <1>31, <1>32, <1>33, <1>34, <1>35, <1>36, <1>37,
     <1>38, <1>39, <1>40, <1>41, <1>42, <1>43, <1>44
     DEF Next, Jobs, FatProgress, ClaimProgress, ClaimRequestProgress, Shutdown

\* Claims are numbered, granted once, and in the registry only while they back off.
LEMMA ClaimStep ==
    ASSUME IInv, [Next]_vars
    PROVE  (ClaimsAreNumbered /\ RegistryBacksOff)'
<1> DEFINE Goal == (ClaimsAreNumbered /\ RegistryBacksOff)'
<1>0. /\ pc \in [Jobs -> Places] /\ registry \in [Rows -> 0 .. MaxClaims]
      /\ generation \in [Rows -> 0 .. MaxClaims] /\ granted \subseteq asking \X Claims
      /\ ClaimsAreNumbered /\ RegistryBacksOff /\ Jobs = Fat \cup Claims /\ Fat \cap Claims = {}
      /\ Claims = Rows \X (1 .. MaxClaims)
  BY DeliveryAssumption DEF IInv, TypeOK, Jobs, Claims
<1> USE <1>0 DEF ClaimsAreNumbered, RegistryBacksOff, rowVars
<1>1. ASSUME NEW f \in Fat, RefuseDraining(f) PROVE Goal
  BY <1>1 DEF RefuseDraining, Deliver
<1>2. ASSUME NEW f \in Fat, RefuseSurplus(f) PROVE Goal
  BY <1>2 DEF RefuseSurplus, Deliver, canRefuse
<1>3. ASSUME NEW f \in Fat, Admit(f) PROVE Goal
  BY <1>3 DEF Admit, Deliver
<1>4. ASSUME NEW f \in Fat, Accepted(f) PROVE Goal
  BY <1>4 DEF Accepted
<1>5. ASSUME NEW f \in Fat, NotAccepted(f) PROVE Goal
  BY <1>5 DEF NotAccepted
<1>6. ASSUME NEW f \in Fat, RaiseStop(f) PROVE Goal
  BY <1>6 DEF RaiseStop, Waits
<1>7. ASSUME NEW f \in Fat, Proceed(f) PROVE Goal
  BY <1>7 DEF Proceed, Granted
<1>8. ASSUME NEW f \in Fat, SettleStopped(f) PROVE Goal
  BY <1>8 DEF SettleStopped
<1>9. ASSUME NEW f \in Fat, ReleaseThenNak(f) PROVE Goal
  BY <1>9 DEF ReleaseThenNak
<1>10. ASSUME NEW f \in Fat, FinishAtGuard(f) PROVE Goal
  BY <1>10 DEF FinishAtGuard
<1>11. ASSUME NEW f \in Fat, NotResolved(f) PROVE Goal
  BY <1>11 DEF NotResolved
<1>12. ASSUME NEW f \in Fat, DeferForLock(f) PROVE Goal
  BY <1>12 DEF DeferForLock
<1>13. ASSUME NEW f \in Fat, StartFat(f) PROVE Goal
  BY <1>13 DEF StartFat
<1>14. ASSUME NEW f \in Fat, FinishFat(f) PROVE Goal
  BY <1>14 DEF FinishFat
<1>15. ASSUME NEW f \in Fat, RetryFat(f) PROVE Goal
  BY <1>15 DEF RetryFat
<1>16. ASSUME NEW c \in Claims, FailDeleted(c) PROVE Goal
  BY <1>16 DEF FailDeleted
<1>17. ASSUME NEW c \in Claims, FailAnswered(c) PROVE Goal
  BY <1>17 DEF FailAnswered
<1>18. ASSUME NEW c \in Claims, StartClaimed(c) PROVE Goal
  BY <1>18 DEF StartClaimed
<1>19. ASSUME NEW c \in Claims, BackOff(c) PROVE Goal
  BY <1>19 DEF BackOff
<1>20. ASSUME NEW c \in Claims, TimerFires(c) PROVE Goal
  BY <1>20 DEF TimerFires
<1>21. ASSUME NEW c \in Claims, HandBackNow(c) PROVE Goal
  BY <1>21 DEF HandBackNow
<1>22. ASSUME NEW c \in Claims, FinishClaimed(c) PROVE Goal
  BY <1>22 DEF FinishClaimed
<1>23. ASSUME NEW c \in Claims, TermClaimed(c) PROVE Goal
  BY <1>23 DEF TermClaimed
<1>24. ASSUME NEW j \in Jobs, ParkRun(j) PROVE Goal
  BY <1>24 DEF ParkRun
<1>25. ASSUME NEW j \in Jobs, UnparkRun(j) PROVE Goal
  BY <1>25 DEF UnparkRun
<1>26. ASSUME NEW j \in Jobs, ResumeRun(j) PROVE Goal
  BY <1>26 DEF ResumeRun
<1>27. ASSUME NEW k \in Askers, Ask(k) PROVE Goal
  BY <1>27 DEF Ask
<1>28. ASSUME NEW k \in Askers, NEW r \in Rows, ClaimServed(k, r) PROVE Goal
  <2> DEFINE d == <<r, generation[r] + 1>>
  <2>1. /\ d \in Claims /\ d[1] = r /\ d[2] = generation[r] + 1 /\ granted' = granted \cup {<<k, d>>}
        /\ generation' = [generation EXCEPT ![r] = generation[r] + 1] /\ pc' = pc /\ registry' = registry
    <3>1. generation[r] \in Nat /\ generation[r] + 1 \in 1 .. MaxClaims
      BY <1>28, DeliveryAssumption DEF ClaimServed
    <3>2. generation' = [generation EXCEPT ![r] = generation[r] + 1] /\ generation'[r] = generation[r] + 1
      BY <1>28 DEF ClaimServed
    <3> QED
      BY <1>28, <3>1, <3>2 DEF ClaimServed
  <2>2. \A i \in Rows : generation'[i] = IF i = r THEN generation[r] + 1 ELSE generation[i]
    BY <2>1
  <2>3. pc[d] = "none"
    BY <2>1
  <2>4. \A g \in granted : g[1] # k /\ g[2] # d /\ g[2] \in Claims /\ g[2][1] \in Rows
    <3> SUFFICES ASSUME NEW g \in granted PROVE g[1] # k /\ g[2] # d /\ g[2] \in Claims /\ g[2][1] \in Rows
      OBVIOUS
    <3>1. g[1] # k /\ g[2] \in Claims /\ g[2][1] \in Rows
      BY <1>28 DEF ClaimServed
    <3>2. g[2][2] <= generation[g[2][1]] /\ generation[r] \in Nat
      OBVIOUS
    <3> QED
      BY <2>1, <3>1, <3>2
  <2> HIDE DEF d
  <2>5. \A g, h \in granted' : g[1] = h[1] \/ g[2] = h[2] => g = h
    BY <2>1, <2>4
  <2>6. \A g \in granted' : pc'[g[2]] = "none" /\ g[2][2] <= generation'[g[2][1]]
    <3>1. ASSUME NEW g \in granted PROVE pc'[g[2]] = "none" /\ g[2][2] <= generation'[g[2][1]]
      <4>1. pc'[g[2]] = "none" /\ g[2] \in Claims /\ g[2][2] <= generation[g[2][1]] /\ g[2][1] \in Rows
        BY <2>1, <2>4
      <4>2. generation[g[2][1]] \in Nat /\ g[2][2] \in Nat
        BY <4>1
      <4> QED
        BY <2>2, <4>1, <4>2
    <3>2. pc'[d] = "none" /\ d[2] <= generation'[d[1]]
      BY <2>1, <2>2, <2>3
    <3> QED
      BY <2>1, <3>1, <3>2
  <2>7. \A c \in Claims : pc'[c] # "none" => c[2] <= generation'[c[1]]
    <3> SUFFICES ASSUME NEW c \in Claims, pc[c] # "none" PROVE c[2] <= generation'[c[1]]
      BY <2>1
    <3>1. c[2] <= generation[c[1]] /\ c[1] \in Rows /\ generation[c[1]] \in Nat /\ c[2] \in Nat
      OBVIOUS
    <3> QED
      BY <2>2, <3>1
  <2> QED
    BY <2>1, <2>5, <2>6, <2>7
<1>29. ASSUME NEW k \in Askers, NEW c \in Claims, ClaimArrives(k, c) PROVE Goal
  BY <1>29 DEF ClaimArrives
<1>30. ASSUME NEW k \in Askers, ClaimMissed(k) PROVE Goal
  BY <1>30 DEF ClaimMissed
<1>31. ASSUME NEW m \in wire, Answer(m) PROVE Goal
  BY <1>31 DEF Answer
<1>32. ASSUME NEW m \in wire, GiveUp(m) PROVE Goal
  BY <1>32 DEF GiveUp
<1>33. ASSUME NEW r \in Rows, Lapse(r) PROVE Goal
  BY <1>33 DEF Lapse
<1>34. ASSUME NEW r \in Rows, CloseRow(r) PROVE Goal
  BY <1>34 DEF CloseRow
<1>35. CASE ReleaseAbandoned
  BY <1>35 DEF ReleaseAbandoned
<1>36. CASE VersionDrain
  BY <1>36 DEF VersionDrain
<1>37. CASE BeginShutdown
  BY <1>37 DEF BeginShutdown
<1>38. CASE FlushPendingRetries
  BY <1>38 DEF FlushPendingRetries
<1>39. CASE AwaitReleases
  BY <1>39 DEF AwaitReleases
<1>40. CASE Exit
  BY <1>40 DEF Exit
<1>41. CASE UNCHANGED vars
  BY <1>41 DEF vars
<1>42. ASSUME NEW f \in Fat, ReplayUnread(f) PROVE Goal
  BY <1>42 DEF ReplayUnread
<1>43. ASSUME NEW j \in Jobs, LoseLock(j) PROVE Goal
  BY <1>43 DEF LoseLock
<1>44. ASSUME NEW j \in Jobs, StandDown(j) PROVE Goal
  BY <1>44 DEF StandDown
<1> QED
  BY <1>1, <1>2, <1>3, <1>4, <1>5, <1>6, <1>7, <1>8, <1>9, <1>10, <1>11, <1>12, <1>13,
     <1>14, <1>15, <1>16, <1>17, <1>18, <1>19, <1>20, <1>21, <1>22, <1>23, <1>24, <1>25,
     <1>26, <1>27, <1>28, <1>29, <1>30, <1>31, <1>32, <1>33, <1>34, <1>35, <1>36, <1>37,
     <1>38, <1>39, <1>40, <1>41, <1>42, <1>43, <1>44
     DEF Next, Jobs, FatProgress, ClaimProgress, ClaimRequestProgress, Shutdown

\* An awaited claim is never forgotten between the shutdown's waits.
LEMMA ShutdownStep ==
    ASSUME IInv, [Next]_vars
    PROVE  ShutdownKept'
<1>0. /\ pc \in [Jobs -> Places] /\ registry \in [Rows -> 0 .. MaxClaims]
      /\ row \in [Rows -> {"queued", "held", "ended"}]
      /\ generation \in [Rows -> 0 .. MaxClaims] /\ granted \subseteq asking \X Claims
      /\ wire \subseteq Claims \X {"release", "settle", "fail"}
      /\ awaited \subseteq Jobs
      /\ ClaimsAreNumbered /\ RegistryBacksOff /\ ShutdownKept
      /\ Jobs = Fat \cup Claims /\ Fat \cap Claims = {}
      /\ Claims = Rows \X (1 .. MaxClaims)
  BY DeliveryAssumption DEF IInv, TypeOK, Jobs, Claims
<1> USE <1>0 DEF ShutdownKept, GivenBack, HandedBack, Running, Alive, rowVars, podVars
<1>1. ASSUME NEW f \in Fat, RefuseDraining(f) PROVE ShutdownKept'
  BY <1>1 DEF RefuseDraining, Deliver
<1>2. ASSUME NEW f \in Fat, RefuseSurplus(f) PROVE ShutdownKept'
  BY <1>2 DEF RefuseSurplus, Deliver, canRefuse
<1>3. ASSUME NEW f \in Fat, Admit(f) PROVE ShutdownKept'
  BY <1>3 DEF Admit, Deliver
<1>4. ASSUME NEW f \in Fat, Accepted(f) PROVE ShutdownKept'
  BY <1>4 DEF Accepted
<1>5. ASSUME NEW f \in Fat, NotAccepted(f) PROVE ShutdownKept'
  BY <1>5 DEF NotAccepted
<1>6. ASSUME NEW f \in Fat, RaiseStop(f) PROVE ShutdownKept'
  BY <1>6 DEF RaiseStop, Waits
<1>7. ASSUME NEW f \in Fat, Proceed(f) PROVE ShutdownKept'
  BY <1>7 DEF Proceed, Granted
<1>8. ASSUME NEW f \in Fat, SettleStopped(f) PROVE ShutdownKept'
  BY <1>8 DEF SettleStopped
<1>9. ASSUME NEW f \in Fat, ReleaseThenNak(f) PROVE ShutdownKept'
  BY <1>9 DEF ReleaseThenNak
<1>10. ASSUME NEW f \in Fat, FinishAtGuard(f) PROVE ShutdownKept'
  BY <1>10 DEF FinishAtGuard
<1>11. ASSUME NEW f \in Fat, NotResolved(f) PROVE ShutdownKept'
  BY <1>11 DEF NotResolved
<1>12. ASSUME NEW f \in Fat, DeferForLock(f) PROVE ShutdownKept'
  BY <1>12 DEF DeferForLock
<1>13. ASSUME NEW f \in Fat, StartFat(f) PROVE ShutdownKept'
  BY <1>13 DEF StartFat
<1>14. ASSUME NEW f \in Fat, FinishFat(f) PROVE ShutdownKept'
  BY <1>14 DEF FinishFat
<1>15. ASSUME NEW f \in Fat, RetryFat(f) PROVE ShutdownKept'
  BY <1>15 DEF RetryFat
<1>16. ASSUME NEW c \in Claims, FailDeleted(c) PROVE ShutdownKept'
  BY <1>16 DEF FailDeleted
<1>17. ASSUME NEW c \in Claims, FailAnswered(c) PROVE ShutdownKept'
  BY <1>17 DEF FailAnswered
<1>18. ASSUME NEW c \in Claims, StartClaimed(c) PROVE ShutdownKept'
  BY <1>18 DEF StartClaimed
<1>19. ASSUME NEW c \in Claims, BackOff(c) PROVE ShutdownKept'
  BY <1>19 DEF BackOff
<1>20. ASSUME NEW c \in Claims, TimerFires(c) PROVE ShutdownKept'
  BY <1>20 DEF TimerFires
<1>21. ASSUME NEW c \in Claims, HandBackNow(c) PROVE ShutdownKept'
  BY <1>21 DEF HandBackNow
<1>22. ASSUME NEW c \in Claims, FinishClaimed(c) PROVE ShutdownKept'
  BY <1>22 DEF FinishClaimed
<1>23. ASSUME NEW c \in Claims, TermClaimed(c) PROVE ShutdownKept'
  BY <1>23 DEF TermClaimed
<1>24. ASSUME NEW j \in Jobs, ParkRun(j) PROVE ShutdownKept'
  BY <1>24 DEF ParkRun
<1>25. ASSUME NEW j \in Jobs, UnparkRun(j) PROVE ShutdownKept'
  BY <1>25 DEF UnparkRun
<1>26. ASSUME NEW j \in Jobs, ResumeRun(j) PROVE ShutdownKept'
  BY <1>26 DEF ResumeRun
<1>27. ASSUME NEW k \in Askers, Ask(k) PROVE ShutdownKept'
  BY <1>27 DEF Ask
<1>28. ASSUME NEW k \in Askers, NEW r \in Rows, ClaimServed(k, r) PROVE ShutdownKept'
  <2>1. \A c \in Claims \cap awaited : /\ c[2] <= generation[c[1]] /\ c[1] \in Rows
                                       /\ c[2] \in Nat /\ generation[c[1]] \in Nat
    <3> SUFFICES ASSUME NEW c \in Claims \cap awaited
                 PROVE  /\ c[2] <= generation[c[1]] /\ c[1] \in Rows
                        /\ c[2] \in Nat /\ generation[c[1]] \in Nat
      OBVIOUS
    <3>1. pc[c] # "none"
      OBVIOUS
    <3>2. c[1] \in Rows /\ c[2] \in Nat
      OBVIOUS
    <3>3. c[2] <= generation[c[1]]
      BY <3>1 DEF ClaimsAreNumbered
    <3> QED
      BY <3>2, <3>3
  <2>2. \A i \in Rows : /\ generation'[i] = IF i = r THEN generation[r] + 1 ELSE generation[i]
                        /\ row'[i] = IF i = r THEN "held" ELSE row[i]
    BY <1>28 DEF ClaimServed
  <2>3. \A c \in Claims \cap awaited : HandedBack(c) => HandedBack(c)'
    BY <1>28, <2>1, <2>2 DEF ClaimServed
  <2> QED
    BY <1>28, <2>3 DEF ClaimServed
<1>29. ASSUME NEW k \in Askers, NEW c \in Claims, ClaimArrives(k, c) PROVE ShutdownKept'
  <2>1. pc[c] = "none"
    BY <1>29 DEF ClaimArrives, ClaimsAreNumbered
  <2>2. c \notin awaited
    BY <2>1
  <2> QED
    BY <1>29, <2>2 DEF ClaimArrives
<1>30. ASSUME NEW k \in Askers, ClaimMissed(k) PROVE ShutdownKept'
  BY <1>30 DEF ClaimMissed
<1>31. ASSUME NEW m \in wire, Answer(m) PROVE ShutdownKept'
  BY <1>31 DEF Answer
<1>32. ASSUME NEW m \in wire, GiveUp(m) PROVE ShutdownKept'
  BY <1>32 DEF GiveUp
<1>33. ASSUME NEW r \in Rows, Lapse(r) PROVE ShutdownKept'
  BY <1>33 DEF Lapse
<1>34. ASSUME NEW r \in Rows, CloseRow(r) PROVE ShutdownKept'
  BY <1>34 DEF CloseRow
<1>35. CASE ReleaseAbandoned
  BY <1>35 DEF ReleaseAbandoned
<1>36. CASE VersionDrain
  BY <1>36 DEF VersionDrain
<1>37. CASE BeginShutdown
  BY <1>37 DEF BeginShutdown
<1>38. CASE FlushPendingRetries
  BY <1>38 DEF FlushPendingRetries
<1>39. CASE AwaitReleases
  BY <1>39 DEF AwaitReleases
<1>40. CASE Exit
  BY <1>40 DEF Exit
<1>41. CASE UNCHANGED vars
  BY <1>41 DEF vars
<1>42. ASSUME NEW f \in Fat, ReplayUnread(f) PROVE ShutdownKept'
  BY <1>42 DEF ReplayUnread
<1>43. ASSUME NEW j \in Jobs, LoseLock(j) PROVE ShutdownKept'
  BY <1>43 DEF LoseLock
<1>44. ASSUME NEW j \in Jobs, StandDown(j) PROVE ShutdownKept'
  BY <1>44 DEF StandDown
<1> QED
  BY <1>1, <1>2, <1>3, <1>4, <1>5, <1>6, <1>7, <1>8, <1>9, <1>10, <1>11, <1>12, <1>13,
     <1>14, <1>15, <1>16, <1>17, <1>18, <1>19, <1>20, <1>21, <1>22, <1>23, <1>24, <1>25,
     <1>26, <1>27, <1>28, <1>29, <1>30, <1>31, <1>32, <1>33, <1>34, <1>35, <1>36, <1>37,
     <1>38, <1>39, <1>40, <1>41, <1>42, <1>43, <1>44
     DEF Next, Jobs, FatProgress, ClaimProgress, ClaimRequestProgress, Shutdown

\* What TypeOK says of everything but the gate.
RestTyped ==
    /\ raised \in [Fat -> Stops]
    /\ lease \in [Fat -> {"none", "held", "forgotten"}]
    /\ heard \subseteq Fat /\ detours \in 0 .. MaxDetours
    /\ row \in [Rows -> {"queued", "held", "ended"}]
    /\ generation \in [Rows -> 0 .. MaxClaims]
    /\ granted \subseteq asking \X Claims
    /\ registry \in [Rows -> 0 .. MaxClaims]
    /\ wire \subseteq Claims \X {"release", "settle", "fail"}
    /\ lost \subseteq Claims
    /\ version \in BOOLEAN
    /\ stage \in {"up", "awaiting", "flushing", "settling", "exited"}
    /\ awaited \subseteq Jobs /\ standing \subseteq Jobs
    /\ flush \subseteq Claims \X {"release", "settle", "fail"}

\* Every step keeps the other types.
LEMMA RestStep ==
    ASSUME IInv, [Next]_vars
    PROVE  RestTyped'
<1>0. RestTyped /\ ClaimsAreNumbered /\ Claims = Rows \X (1 .. MaxClaims)
  BY DEF IInv, TypeOK, RestTyped, Claims
<1> USE <1>0, DeliveryAssumption DEF RestTyped, Stops, fatVars, rowVars, podVars
<1>1. ASSUME NEW f \in Fat, RefuseDraining(f) PROVE RestTyped'
  BY <1>1 DEF RefuseDraining, Deliver
<1>2. ASSUME NEW f \in Fat, RefuseSurplus(f) PROVE RestTyped'
  BY <1>2 DEF RefuseSurplus, Deliver, canRefuse
<1>3. ASSUME NEW f \in Fat, Admit(f) PROVE RestTyped'
  BY <1>3 DEF Admit, Deliver
<1>4. ASSUME NEW f \in Fat, Accepted(f) PROVE RestTyped'
  BY <1>4 DEF Accepted
<1>5. ASSUME NEW f \in Fat, NotAccepted(f) PROVE RestTyped'
  BY <1>5 DEF NotAccepted
<1>6. ASSUME NEW f \in Fat, RaiseStop(f) PROVE RestTyped'
  BY <1>6 DEF RaiseStop, Waits
<1>7. ASSUME NEW f \in Fat, Proceed(f) PROVE RestTyped'
  BY <1>7 DEF Proceed, Granted
<1>8. ASSUME NEW f \in Fat, SettleStopped(f) PROVE RestTyped'
  BY <1>8 DEF SettleStopped
<1>9. ASSUME NEW f \in Fat, ReleaseThenNak(f) PROVE RestTyped'
  BY <1>9 DEF ReleaseThenNak
<1>10. ASSUME NEW f \in Fat, FinishAtGuard(f) PROVE RestTyped'
  BY <1>10 DEF FinishAtGuard
<1>11. ASSUME NEW f \in Fat, NotResolved(f) PROVE RestTyped'
  BY <1>11 DEF NotResolved
<1>12. ASSUME NEW f \in Fat, DeferForLock(f) PROVE RestTyped'
  BY <1>12 DEF DeferForLock
<1>13. ASSUME NEW f \in Fat, StartFat(f) PROVE RestTyped'
  BY <1>13 DEF StartFat
<1>14. ASSUME NEW f \in Fat, FinishFat(f) PROVE RestTyped'
  BY <1>14 DEF FinishFat
<1>15. ASSUME NEW f \in Fat, RetryFat(f) PROVE RestTyped'
  BY <1>15 DEF RetryFat
<1>16. ASSUME NEW c \in Claims, FailDeleted(c) PROVE RestTyped'
  BY <1>16 DEF FailDeleted
<1>17. ASSUME NEW c \in Claims, FailAnswered(c) PROVE RestTyped'
  BY <1>17 DEF FailAnswered
<1>18. ASSUME NEW c \in Claims, StartClaimed(c) PROVE RestTyped'
  BY <1>18 DEF StartClaimed
<1>19. ASSUME NEW c \in Claims, BackOff(c) PROVE RestTyped'
  BY <1>19 DEF BackOff
<1>20. ASSUME NEW c \in Claims, TimerFires(c) PROVE RestTyped'
  BY <1>20 DEF TimerFires
<1>21. ASSUME NEW c \in Claims, HandBackNow(c) PROVE RestTyped'
  BY <1>21 DEF HandBackNow
<1>22. ASSUME NEW c \in Claims, FinishClaimed(c) PROVE RestTyped'
  BY <1>22 DEF FinishClaimed
<1>23. ASSUME NEW c \in Claims, TermClaimed(c) PROVE RestTyped'
  BY <1>23 DEF TermClaimed
<1>24. ASSUME NEW j \in Jobs, ParkRun(j) PROVE RestTyped'
  BY <1>24 DEF ParkRun
<1>25. ASSUME NEW j \in Jobs, UnparkRun(j) PROVE RestTyped'
  BY <1>25 DEF UnparkRun
<1>26. ASSUME NEW j \in Jobs, ResumeRun(j) PROVE RestTyped'
  BY <1>26 DEF ResumeRun
<1>27. ASSUME NEW k \in Askers, Ask(k) PROVE RestTyped'
  BY <1>27 DEF Ask
<1>28. ASSUME NEW k \in Askers, NEW r \in Rows, ClaimServed(k, r) PROVE RestTyped'
  BY <1>28 DEF ClaimServed
<1>29. ASSUME NEW k \in Askers, NEW c \in Claims, ClaimArrives(k, c) PROVE RestTyped'
  <2>1. \A g \in granted' : g[1] # k
    BY <1>29 DEF ClaimArrives, ClaimsAreNumbered
  <2>2. granted' \subseteq asking' \X Claims
    BY <1>29, <2>1 DEF ClaimArrives
  <2> QED
    BY <1>29, <2>2 DEF ClaimArrives
<1>30. ASSUME NEW k \in Askers, ClaimMissed(k) PROVE RestTyped'
  BY <1>30 DEF ClaimMissed
<1>31. ASSUME NEW m \in wire, Answer(m) PROVE RestTyped'
  BY <1>31 DEF Answer
<1>32. ASSUME NEW m \in wire, GiveUp(m) PROVE RestTyped'
  BY <1>32 DEF GiveUp
<1>33. ASSUME NEW r \in Rows, Lapse(r) PROVE RestTyped'
  BY <1>33 DEF Lapse
<1>34. ASSUME NEW r \in Rows, CloseRow(r) PROVE RestTyped'
  BY <1>34 DEF CloseRow
<1>35. CASE ReleaseAbandoned
  BY <1>35 DEF ReleaseAbandoned
<1>36. CASE VersionDrain
  BY <1>36 DEF VersionDrain
<1>37. CASE BeginShutdown
  BY <1>37 DEF BeginShutdown
<1>38. CASE FlushPendingRetries
  BY <1>38 DEF FlushPendingRetries
<1>39. CASE AwaitReleases
  BY <1>39 DEF AwaitReleases
<1>40. CASE Exit
  BY <1>40 DEF Exit
<1>41. CASE UNCHANGED vars
  BY <1>41 DEF vars
<1>42. ASSUME NEW f \in Fat, ReplayUnread(f) PROVE RestTyped'
  BY <1>42 DEF ReplayUnread
<1>43. ASSUME NEW j \in Jobs, LoseLock(j) PROVE RestTyped'
  BY <1>43 DEF LoseLock
<1>44. ASSUME NEW j \in Jobs, StandDown(j) PROVE RestTyped'
  BY <1>44 DEF StandDown
<1> QED
  BY <1>1, <1>2, <1>3, <1>4, <1>5, <1>6, <1>7, <1>8, <1>9, <1>10, <1>11, <1>12, <1>13,
     <1>14, <1>15, <1>16, <1>17, <1>18, <1>19, <1>20, <1>21, <1>22, <1>23, <1>24, <1>25,
     <1>26, <1>27, <1>28, <1>29, <1>30, <1>31, <1>32, <1>33, <1>34, <1>35, <1>36, <1>37,
     <1>38, <1>39, <1>40, <1>41, <1>42, <1>43, <1>44
     DEF Next, Jobs, FatProgress, ClaimProgress, ClaimRequestProgress, Shutdown

-----------------------------------------------------------------------------
(* The theorems.                                                           *)

\* The invariant holds at the start, is kept by every step, and so always holds.
LEMMA InitIInv == Init => IInv
<1> SUFFICES ASSUME Init PROVE IInv
  OBVIOUS
<1>1. TypeOK
  <2>1. gate \in GateType
    BY EmptySeq DEF Init, NewGate, GateType
  <2>2. pc \in [Jobs -> Places]
    BY DEF Init, Places
  <2>3. RestTyped /\ asking \subseteq Askers
    <3>1. raised \in [Fat -> Stops] /\ lease \in [Fat -> {"none", "held", "forgotten"}]
      BY DEF Init, Stops
    <3>2. row \in [Rows -> {"queued", "held", "ended"}]
      BY DEF Init
    <3>3. generation \in [Rows -> 0 .. MaxClaims] /\ registry \in [Rows -> 0 .. MaxClaims]
      BY DeliveryAssumption DEF Init
    <3>4. detours \in 0 .. MaxDetours
      BY DeliveryAssumption DEF Init
    <3>5. version \in BOOLEAN
      BY Zenon DEF Init
    <3> QED
      BY <3>1, <3>2, <3>3, <3>4, <3>5 DEF Init, RestTyped
  <2>4. ghosts \in Nat /\ slots \subseteq Jobs /\ count \in [Fat -> 0 .. MAX_DELIVER]
    BY DeliveryAssumption DEF Init
  <2> QED
    BY <2>1, <2>2, <2>3, <2>4 DEF TypeOK, RestTyped, GateType
<1>2. GateInv
  <2>1. /\ gate \in GateType /\ gate.active = 0 /\ gate.parked = 0
        /\ gate.waiters = << >> /\ gate.resuming = << >>
    BY EmptySeq DEF Init, NewGate, GateType
  <2>2. \A S : ToSet(<< >>) = {} /\ Distinct(<< >>, S)
    BY DEF ToSet, Distinct
  <2>3. pc \in [Jobs -> Places] /\ \A j \in Jobs : pc[j] \in {"stream", "none"}
    BY DEF Init, Places
  <2>4. InPlace(gate, pc, slots)
    BY <2>1, <2>2, <2>3 DEF Init, InPlace, Seated, Jobs
  <2>5. Taken(pc, slots, ToSet(gate.waiters), ToSet(gate.resuming)) = {} /\ ParkedOf(pc) = {}
    BY <2>3 DEF Init, Taken, ParkedOf, Jobs
  <2>6. Books(gate, ghosts, pc, slots, asking)
    <3>1. ghosts = 0 /\ asking = {} /\ Cardinality({}) = 0
      BY FS_EmptySet DEF Init
    <3> QED
      BY <2>1, <2>4, <2>5, <3>1 DEF Books
  <2>7. Full(gate)
    BY <2>1, GateAssumption, EmptySeq DEF Full
  <2> QED
    BY <2>6, <2>7 DEF GateInv
<1>3. LeaseKept /\ HeardFirst
  BY DeliveryAssumption DEF Init, LeaseKept, HeardFirst, Jobs
<1>4. ClaimsAreNumbered /\ RegistryBacksOff /\ ShutdownKept
  BY DeliveryAssumption DEF Init, ClaimsAreNumbered, RegistryBacksOff, ShutdownKept, Jobs, Claims
<1> QED
  BY <1>1, <1>2, <1>3, <1>4 DEF IInv

LEMMA NextIInv == IInv /\ [Next]_vars => IInv'
<1> SUFFICES ASSUME IInv, [Next]_vars PROVE IInv'
  OBVIOUS
<1>1. GateInv'
  BY GateStep
<1>2. (LeaseKept /\ HeardFirst)' /\ count' \in [Fat -> 0 .. MAX_DELIVER]
  BY LeaseStep
<1>3. (ClaimsAreNumbered /\ RegistryBacksOff)' /\ ShutdownKept' /\ RestTyped'
  BY ClaimStep, ShutdownStep, RestStep
<1>4. TypeOK'
  BY <1>1, <1>2, <1>3 DEF TypeOK, GateInv, Books, InPlace, GateType, RestTyped
<1> QED
  BY <1>1, <1>2, <1>3, <1>4 DEF IInv

LEMMA Invariance == Spec => []IInv
  BY InitIInv, NextIInv, PTL DEF Spec

(***************************************************************************)
(* TypeOK on every pod: every delivery is at an await of the code, and no  *)
(* message is delivered more often than its budget allows                  *)
(* (fat-task-delivery.ts, doorbell-delivery.ts).                           *)
(***************************************************************************)
THEOREM TypesHold == Spec => []TypeOK
  BY Invariance, PTL DEF IInv

(***************************************************************************)
(* SlotsAreAccountedFor on every pod: whatever stops, drains, parks and    *)
(* lost claims come together, no slot of the execution gate is leaked and  *)
(* none is given back twice.                                               *)
(***************************************************************************)
THEOREM NoSlotIsLeaked == Spec => []SlotsAreAccountedFor
<1>1. IInv => SlotsAreAccountedFor
  <2> SUFFICES ASSUME IInv PROVE SlotsAreAccountedFor
    OBVIOUS
  <2>1. InSlot = Taken(pc, slots, ToSet(gate.waiters), ToSet(gate.resuming))
    BY DEF InSlot, Taken, Granted
  <2> QED
    BY <2>1 DEF IInv, GateInv, Books, SlotsAreAccountedFor, ParkedOf
<1> QED
  BY <1>1, Invariance, PTL

(***************************************************************************)
(* CapacityIsKeptAndUsed for every MAX_CONCURRENT and MAX_RESIDENT: one    *)
(* grant per wake is enough, because the gate is never more than one grant *)
(* away from being full or empty of waiters (ExecutionGate.wake).          *)
(***************************************************************************)
THEOREM OneWakeIsEnough == Spec => []CapacityIsKeptAndUsed
<1>1. IInv => CapacityIsKeptAndUsed
  BY DEF IInv, GateInv, Full, CapacityIsKeptAndUsed
<1> QED
  BY <1>1, Invariance, PTL

(***************************************************************************)
(* NakedMessageIsUnleased for every set of messages: a drain, a stop, a    *)
(* held lock and a failed attempt give the message back after its lease    *)
(* and never before.  The three paths that leave the lease to lapse are    *)
(* not covered: they make it a forgotten one (NotResolved, ReplayUnread,   *)
(* StandDown).                                                             *)
(***************************************************************************)
THEOREM LeaseGoesFirst == Spec => []NakedMessageIsUnleased
<1>1. IInv => NakedMessageIsUnleased
  BY DEF IInv, LeaseKept, NakedMessageIsUnleased
<1> QED
  BY <1>1, Invariance, PTL

(***************************************************************************)
(* RefusalsNeverDropAMessage for every TASK_MAX_DELIVER from 3 and every   *)
(* SURPLUS_REFUSALS.                                                       *)
(***************************************************************************)
THEOREM RefusalsAreRationed == Spec => []RefusalsNeverDropAMessage
<1>1. IInv => RefusalsNeverDropAMessage
  BY DEF IInv, HeardFirst, RefusalsNeverDropAMessage
<1> QED
  BY <1>1, Invariance, PTL

(***************************************************************************)
(* ExitHandsBackRuns for every set of rows and claims: a run beginShutdown *)
(* aborted is handed back before the process exits, or the API did not     *)
(* answer, unless it had lost its lock or had failed before the signal.    *)
(***************************************************************************)
THEOREM ShutdownLeavesNoClaim == Spec => []ExitHandsBackRuns
<1>1. IInv => ExitHandsBackRuns
  BY DEF IInv, ShutdownKept, GivenBack, ExitHandsBackRuns
<1> QED
  BY <1>1, Invariance, PTL
=============================================================================
