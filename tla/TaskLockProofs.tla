--------------------------- MODULE TaskLockProofs ---------------------------
(***************************************************************************)
(* The task lock, for every number of attempts and processes and every     *)
(* timing LockAssumption allows.  First type correctness and INV-13, with  *)
(* any number of late writes, forced releases and lost answers; then       *)
(* mutual exclusion, as long as no lock is released by force, no single    *)
(* answer is lost and the times fit; then that no run stands down while    *)
(* the lock is its own, as long as no write is stored late.                *)
(***************************************************************************)
EXTENDS TaskLockProperties, FiniteSetTheorems, FunctionTheorems, TLAPS

-----------------------------------------------------------------------------
(* The inductive invariant.                                                *)

\* An attempt that has begun is somewhere.
Placed == \A a \in Attempts : phase[a] # "idle" => at[a] \in Procs

\* Whoever holds the entry or runs an attempt has been started.
Started ==
    /\ entry # Free => entry.proc \in Procs
    /\ entry.proc \in Procs => proc[entry.proc] # "new"
    /\ \A a \in Attempts : at[a] \in Procs => proc[at[a]] # "new"

\* What is known of the entry when its revision is the one o names or was
\* answered with.
KnowsEntry(o) ==
    /\ o.kind \in {"renew", "adopt"} => entry.acq = o.acq /\ entry.proc = o.proc
    /\ o.kind \in {"create", "take"} /\ o.res # "sent"
           => entry.acq = o.acq /\ entry.proc = o.proc
    /\ o.res = "sent" =>
           /\ o.kind # "create"
           /\ o.kind = "take" => entry.age + Skew >= DEAD
           /\ o.kind = "delete" => entry.proc = o.proc
           /\ o.kind = "reclaim" => entry.proc \in Procs /\ proc[entry.proc] = "dead"

\* Attempts that the answer to o may move on.
Concerns(o) == {o.by} \cup IF o.kind \in {"create", "take"} THEN {o.acq} ELSE {}

Sound(o) ==
    /\ proc[o.proc] # "new"
    /\ \A a \in Attempts : a \in Concerns(o) => at[a] \in Procs
    /\ o.current => KnowsEntry(o)

SoundWrites(S) == S \subseteq Ops /\ IsFiniteSet(S) /\ \A o \in S : Sound(o)

MemoryKnowsTheEntry ==
    \A p \in Procs :
        local[p].current => entry.acq = local[p].acq /\ entry.proc = p

IInv ==
    /\ TypeOK
    /\ Placed
    /\ Started
    /\ SoundWrites(ops)
    /\ MemoryKnowsTheEntry

-----------------------------------------------------------------------------
(* Sets of writes.                                                         *)

\* The image of a finite set under a function is finite.
LEMMA ImageFinite ==
    ASSUME NEW S, IsFiniteSet(S), NEW f
    PROVE  IsFiniteSet({f[x] : x \in S})
<1> DEFINE T == {f[x] : x \in S}
           g == [x \in S |-> f[x]]
<1>1. g \in Surjection(S, T)
  BY DEF Surjection
<1> QED BY <1>1, FS_Surjection

\* Two writes that differ at most in who waits for them and since when.
Like(y, x) ==
    /\ y.kind = x.kind /\ y.proc = x.proc /\ y.acq = x.acq
    /\ y.current = x.current /\ y.res = x.res
    /\ y.by \in {x.by, NoAttempt}

\* What makes a write sound does not depend on who waits for it.
LEMMA LikeSound ==
    ASSUME NEW x, NEW y, Like(y, x), Sound(x)
    PROVE  Sound(y)
BY LockAssumption DEF Like, Sound, KnowsEntry, Concerns

\* A write is well formed.
LEMMA WriteTyped ==
    ASSUME NEW kind \in {"create", "take", "renew", "adopt", "delete", "reclaim"},
           NEW p \in Procs, NEW acq \in Acqs, NEW by \in Acqs, NEW age \in Ages
    PROVE  Write(kind, p, acq, by, age) \in Ops
BY DEF Write, Ops

\* Sending adds one write, like the one that is sent.
LEMMA SendingAdds ==
    ASSUME NEW S, S \subseteq Ops, IsFiniteSet(S), NEW o \in Ops
    PROVE  \E w \in Ops : Like(w, o) /\ Sending(S, o) = S \cup {w}
<1> DEFINE n == Cardinality(Awaited(S, o.proc))
           w == [o EXCEPT !.turn = n]
<1>1. n \in Nat
  <2>1. Awaited(S, o.proc) \in SUBSET S BY DEF Awaited
  <2> QED BY <2>1, FS_Subset, FS_CardinalityType
<1>2. w \in Ops /\ Like(w, o) BY <1>1 DEF Ops, Like
<1>3. Sending(S, o) = S \cup {w} BY DEF Sending
<1> QED BY <1>2, <1>3

\* Sending a sound write leaves the writes sound.
LEMMA SendingSound ==
    ASSUME NEW S, SoundWrites(S), NEW o \in Ops, Sound(o)
    PROVE  SoundWrites(Sending(S, o))
<1>1. PICK w \in Ops : Like(w, o) /\ Sending(S, o) = S \cup {w}
  BY SendingAdds DEF SoundWrites
<1>2. Sound(w) BY <1>1, LikeSound
<1> QED BY <1>1, <1>2, FS_AddElement DEF SoundWrites

\* Once nobody waits for a write, the others are as sound as before.
LEMMA WithoutSound ==
    ASSUME SoundWrites(ops), NEW o \in ops
    PROVE  SoundWrites(Without(o))
<1> DEFINE f == [x \in ops \ {o} |->
                   IF x \in Awaited(ops, o.proc) /\ x.turn > o.turn
                   THEN [x EXCEPT !.turn = @ - 1] ELSE x]
<1>1. Without(o) = {f[x] : x \in ops \ {o}} BY DEF Without
<1>2. ASSUME NEW x \in ops \ {o} PROVE f[x] \in Ops /\ Like(f[x], x)
  <2>1. x \in Ops /\ o \in Ops BY DEF SoundWrites
  <2>2. CASE f[x] = x BY <2>1, <2>2 DEF Like
  <2>3. CASE x.turn > o.turn /\ f[x] = [x EXCEPT !.turn = @ - 1]
    <3>1. x.turn - 1 \in Nat BY <2>1, <2>3 DEF Ops
    <3> QED BY <2>1, <2>3, <3>1 DEF Ops, Like
  <2> QED BY <2>2, <2>3
<1>3. \A x \in ops \ {o} : Sound(f[x])
  BY <1>2, LikeSound DEF SoundWrites
<1> HIDE DEF f
<1>4. IsFiniteSet({f[x] : x \in ops \ {o}})
  <2>1. IsFiniteSet(ops \ {o}) BY FS_RemoveElement DEF SoundWrites
  <2> QED BY <2>1, ImageFinite
<1> QED BY <1>1, <1>2, <1>3, <1>4 DEF SoundWrites

\* So are they when the write may still be stored, with nobody waiting for it.
LEMMA AbandonSound ==
    ASSUME SoundWrites(ops), NEW o \in ops, NEW rest \in Abandon(o)
    PROVE  SoundWrites(rest)
<1>1. SoundWrites(Without(o)) BY WithoutSound
<1>2. Ownerless(o) \in Ops /\ Like(Ownerless(o), o)
  <2>1. o \in Ops /\ NoAttempt \in Acqs /\ 0 \in Ages
    BY LockAssumption DEF SoundWrites, Acqs, Ages
  <2> QED BY <2>1 DEF Ops, Like, Ownerless
<1>3. Sound(Ownerless(o)) BY <1>2, LikeSound DEF SoundWrites
<1>4. SoundWrites(Without(o) \cup {Ownerless(o)})
  BY <1>1, <1>2, <1>3, FS_AddElement DEF SoundWrites
<1>5. rest = Without(o) \/ rest = Without(o) \cup {Ownerless(o)}
  BY DEF Abandon
<1> QED BY <1>1, <1>4, <1>5

-----------------------------------------------------------------------------
(* Steps that leave the entry alone.                                       *)

\* Processes that have started have started, a dead one stays dead, and an
\* attempt that is somewhere stays somewhere.
ProcsAdvance ==
    /\ proc' \in [Procs -> {"new", "starting", "up", "dead"}]
    /\ \A p \in Procs : /\ proc[p] # "new" => proc'[p] # "new"
                        /\ proc[p] = "dead" => proc'[p] = "dead"
    /\ \A a \in Attempts : at[a] \in Procs => at'[a] \in Procs

\* A write stays sound while the entry stays and processes advance.
LEMMA SoundFrame ==
    ASSUME NEW o \in Ops, Sound(o), entry' = entry, ProcsAdvance
    PROVE  Sound(o)'
BY DEF Ops, Sound, KnowsEntry, Concerns, ProcsAdvance

MemoryKept ==
    /\ local' \in [Procs -> Memories]
    /\ \A p \in Procs :
          local'[p].current => entry.acq = local'[p].acq /\ entry.proc = p

PhasesKept ==
    /\ phase' \in [Attempts -> Phases]
    /\ \A a \in Attempts :
          phase'[a] # "idle" => phase[a] # "idle" \/ at[a] \in Procs

\* A step of the runs and their answers keeps the invariant.
LEMMA QuietStep ==
    ASSUME IInv, entry' = entry, at' = at, ProcsAdvance, SoundWrites(ops'),
           MemoryKept, PhasesKept, active' \in [Procs -> Acqs],
           forced' \in 0 .. MaxForced, lost' \in 0 .. MaxLost
    PROVE  IInv'
<1>1. TypeOK'
  BY DEF IInv, TypeOK, ProcsAdvance, SoundWrites, MemoryKept, PhasesKept
<1>2. Placed' BY DEF IInv, Placed, PhasesKept
<1>3. Started' BY DEF IInv, TypeOK, Started, ProcsAdvance
<1>4. SoundWrites(ops)' BY SoundFrame DEF SoundWrites
<1>5. MemoryKnowsTheEntry' BY DEF MemoryKept, MemoryKnowsTheEntry
<1> QED BY <1>1, <1>2, <1>3, <1>4, <1>5 DEF IInv

\* Processes that do not change advance.
LEMMA ProcsStay ==
    ASSUME IInv, proc' = proc, at' = at
    PROVE  ProcsAdvance
BY DEF IInv, TypeOK, ProcsAdvance

\* Neither remembering what was remembered nor forgetting it is wrong.
LEMMA MemoryStays ==
    ASSUME IInv, local' = local \/ \E p : forgetLock(p)
    PROVE  MemoryKept
<1>1. CASE local' = local
  BY <1>1 DEF IInv, TypeOK, MemoryKnowsTheEntry, MemoryKept
<1>2. CASE \E p : forgetLock(p)
  <2>1. PICK p : local' = [local EXCEPT ![p] = Forgotten] BY <1>2 DEF forgetLock
  <2>2. Forgotten \in Memories /\ Forgotten.current = FALSE
    BY LockAssumption DEF Forgotten, Memories, Acqs, Ages
  <2> QED BY <2>1, <2>2 DEF IInv, TypeOK, MemoryKnowsTheEntry, MemoryKept
<1> QED BY <1>1, <1>2

\* Remembering what is so is not wrong either.
LEMMA MemoryMoves ==
    ASSUME IInv, NEW q, NEW m \in Memories, local' = [local EXCEPT ![q] = m],
           m.current => entry.acq = m.acq /\ entry.proc = q
    PROVE  MemoryKept
<1>1. \A p \in Procs : local'[p] = IF p = q THEN m ELSE local[p]
  BY DEF IInv, TypeOK
<1>2. local' \in [Procs -> Memories] BY DEF IInv, TypeOK
<1> QED BY <1>1, <1>2 DEF IInv, MemoryKnowsTheEntry, MemoryKept

\* Telling a run to stop starts none.
LEMMA PhasesStay ==
    ASSUME IInv, phase' = phase \/ \E a : Abort(a)
    PROVE  PhasesKept
BY DEF IInv, TypeOK, PhasesKept, Abort, Phases

\* An answer moves on only an attempt the write concerns.
LEMMA PhaseMoves ==
    ASSUME IInv, NEW a, NEW new \in Phases, phase' = [phase EXCEPT ![a] = new],
           a \in Attempts => phase[a] # "idle" \/ at[a] \in Procs
    PROVE  PhasesKept
BY DEF IInv, TypeOK, PhasesKept

-----------------------------------------------------------------------------
(* Acquiring.                                                              *)

\* Asking for the lock.
LEMMA BeginAcquireKeeps ==
    ASSUME IInv, NEW a \in Attempts, NEW p \in Procs, BeginAcquire(a, p)
    PROVE  IInv'
<1> DEFINE o == Write("create", p, a, a, 0)
<1>1. o \in Ops BY LockAssumption, WriteTyped DEF Acqs, Ages
<1>2. PICK w \in Ops : Like(w, o) /\ ops' = ops \cup {w}
  BY <1>1, SendingAdds DEF BeginAcquire, IInv, SoundWrites
<1>3. TypeOK'
  <2>1. phase' \in [Attempts -> Phases] BY DEF IInv, TypeOK, BeginAcquire, Phases
  <2>2. at' \in [Attempts -> Holders] BY DEF IInv, TypeOK, BeginAcquire, Holders
  <2> QED BY <1>2, <2>1, <2>2 DEF IInv, TypeOK, BeginAcquire
<1>4. Placed' BY DEF IInv, TypeOK, Placed, BeginAcquire
<1>5. Started' BY DEF IInv, TypeOK, Started, BeginAcquire
<1>6. ProcsAdvance BY DEF IInv, TypeOK, ProcsAdvance, BeginAcquire
<1>7. SoundWrites(ops)'
  <2>1. w.proc = p /\ w.kind = "create" /\ w.acq = a /\ w.by \in {a, NoAttempt}
        /\ w.current = FALSE
    BY <1>2 DEF Like, Write
  <2>2. Sound(w)'
    BY <2>1, LockAssumption DEF BeginAcquire, IInv, TypeOK, Sound, Concerns
  <2>3. \A x \in ops : Sound(x)'
    BY <1>6, SoundFrame DEF BeginAcquire, IInv, SoundWrites
  <2> QED BY <1>2, <2>2, <2>3, FS_AddElement DEF IInv, SoundWrites
<1>8. MemoryKnowsTheEntry' BY DEF IInv, MemoryKnowsTheEntry, BeginAcquire
<1> QED BY <1>3, <1>4, <1>5, <1>7, <1>8 DEF IInv

\* Finding the lock held, and taking over a dead holder's.
LEMMA CreateRefusedKeeps ==
    ASSUME IInv, NEW o \in ops, CreateRefused(o)
    PROVE  IInv'
<1> USE DEF CreateRefused
<1>0. o \in Ops /\ Sound(o) /\ SoundWrites(ops) BY DEF IInv, SoundWrites
<1>1. CASE /\ deadHolderTakeover(o.acq, o.proc)
           /\ \E rest \in Abandon(o) :
                 ops' = Sending(rest, Write("take", o.proc, o.acq, o.by, o.age))
           /\ UNCHANGED phase
  <2> DEFINE t == Write("take", o.proc, o.acq, o.by, o.age)
  <2>1. PICK rest \in Abandon(o) : ops' = Sending(rest, t) BY <1>1
  <2>2. t \in Ops BY <1>0, WriteTyped DEF Ops
  <2>3. Sound(t)
    BY <1>0, <1>1 DEF Sound, KnowsEntry, Concerns, Write, deadHolderTakeover
  <2>4. SoundWrites(ops') BY <1>0, <2>1, <2>2, <2>3, AbandonSound, SendingSound
  <2> QED BY <1>1, <2>4, QuietStep, ProcsStay, MemoryStays, PhasesStay DEF IInv, TypeOK
<1>2. CASE /\ ops' \in Abandon(o)
           /\ phase' = [phase EXCEPT ![o.acq] = "done"]
  <2>1. SoundWrites(ops') BY <1>0, <1>2, AbandonSound
  <2>2. PhasesKept
    BY <1>0, <1>2, PhaseMoves DEF Sound, Concerns, Phases
  <2> QED BY <1>2, <2>1, <2>2, QuietStep, ProcsStay, MemoryStays DEF IInv, TypeOK
<1> QED BY <1>1, <1>2 DEF Inspect

\* A takeover that did not come off.
LEMMA TakeRefusedKeeps ==
    ASSUME IInv, NEW o \in ops, TakeRefused(o)
    PROVE  IInv'
<1> USE DEF TakeRefused
<1>0. o \in Ops /\ Sound(o) /\ SoundWrites(ops) BY DEF IInv, SoundWrites
<1>1. SoundWrites(ops') BY <1>0, AbandonSound DEF TimedOut
<1>2. PhasesKept BY <1>0, PhaseMoves DEF Sound, Concerns, Phases
<1> QED BY <1>1, <1>2, QuietStep, ProcsStay, MemoryStays DEF IInv, TypeOK

\* The lock is acquired: what is remembered is what the store answered.
LEMMA AcquiredKeeps ==
    ASSUME IInv, NEW o \in ops, Acquired(o)
    PROVE  IInv'
<1> USE DEF Acquired
<1>0. o \in Ops /\ Sound(o) /\ SoundWrites(ops) BY DEF IInv, SoundWrites
<1>1. SoundWrites(ops') BY <1>0, WithoutSound DEF Answered
<1>2. PhasesKept
  <2>1. o.acq \in Attempts => at[o.acq] \in Procs BY <1>0 DEF Sound, Concerns
  <2> QED BY <2>1, PhaseMoves DEF Phases
<1>3. MemoryKept
  <2> DEFINE m == [acq |-> o.acq, current |-> o.current, unproven |-> o.age]
  <2>1. m \in Memories BY <1>0 DEF Ops, Memories
  <2>2. m.current => entry.acq = m.acq /\ entry.proc = o.proc
    BY <1>0 DEF Answered, Sound, KnowsEntry
  <2>3. local' = [local EXCEPT ![o.proc] = m] OBVIOUS
  <2> QED BY <2>1, <2>2, <2>3, MemoryMoves
<1>4. active' \in [Procs -> Acqs] BY <1>0 DEF IInv, TypeOK, Ops
<1> QED BY <1>1, <1>2, <1>3, <1>4, QuietStep, ProcsStay DEF IInv, TypeOK

-----------------------------------------------------------------------------
(* Holding.                                                                *)

\* A renewal names the revision the process remembers.
LEMMA RenewKeeps ==
    ASSUME IInv, NEW a \in Attempts, Renew(a)
    PROVE  IInv'
<1> USE DEF Renew
<1> DEFINE p == at[a]
           t == [Write("renew", p, local[p].acq, a, 0)
                    EXCEPT !.current = local[p].current]
<1>1. p \in Procs /\ proc[p] # "new" BY DEF IInv, Placed, Started
<1>2. local[p] \in Memories BY <1>1 DEF IInv, TypeOK
<1>3. Write("renew", p, local[p].acq, a, 0) \in Ops
  BY <1>1, <1>2, LockAssumption, WriteTyped DEF Memories, Acqs, Ages
<1>4. t \in Ops BY <1>2, <1>3 DEF Ops, Memories
<1>5. Sound(t)
  <2>1. /\ t.kind = "renew" /\ t.proc = p /\ t.acq = local[p].acq /\ t.by = a
        /\ t.current = local[p].current
    BY DEF Write
  <2>2. t.current => entry.acq = t.acq /\ entry.proc = p
    BY <1>1, <2>1 DEF IInv, MemoryKnowsTheEntry
  <2> HIDE DEF t
  <2> QED BY <1>1, <2>1, <2>2 DEF Sound, KnowsEntry, Concerns
<1> HIDE DEF t
<1>6. SoundWrites(ops') BY <1>4, <1>5, SendingSound DEF IInv, t
<1> QED BY <1>6, QuietStep, ProcsStay, MemoryStays, PhasesStay DEF IInv, TypeOK

\* A renewal that landed is remembered while it is its acquisition's.
LEMMA RenewedKeeps ==
    ASSUME IInv, NEW o \in ops, Renewed(o)
    PROVE  IInv'
<1> USE DEF Renewed
<1>0. o \in Ops /\ Sound(o) /\ SoundWrites(ops) BY DEF IInv, SoundWrites
<1>1. SoundWrites(ops') BY <1>0, WithoutSound DEF Answered
<1>2. PhasesKept BY PhasesStay
<1>3. MemoryKept
  <2>1. CASE local[o.proc].acq = o.acq
    <3> DEFINE m == [local[o.proc] EXCEPT !.current = o.current, !.unproven = o.age]
    <3>1. local[o.proc] \in Memories BY <1>0 DEF IInv, TypeOK, Ops
    <3>2. m \in Memories BY <1>0, <3>1 DEF Ops, Memories
    <3>3. m.current => entry.acq = m.acq /\ entry.proc = o.proc
      BY <1>0, <2>1, <3>1 DEF Sound, KnowsEntry, Memories
    <3>4. local' = [local EXCEPT ![o.proc] = m] BY <2>1 DEF ProvenSince
    <3> QED BY <3>2, <3>3, <3>4, MemoryMoves
  <2>2. CASE local[o.proc].acq # o.acq BY <2>2, MemoryStays
  <2> QED BY <2>1, <2>2
<1> QED BY <1>1, <1>2, <1>3, QuietStep, ProcsStay DEF IInv, TypeOK

\* Giving the lock up for lost.
LEMMA LoseLockKeeps ==
    ASSUME IInv, NEW o, LoseLock(o)
    PROVE  MemoryKept /\ PhasesKept
BY MemoryStays, PhasesStay DEF LoseLock

\* A refused renewal adopts its own entry or gives it up.
LEMMA RenewalConflictKeeps ==
    ASSUME IInv, NEW o \in ops, RenewalConflict(o) \/ AdoptionConflict(o)
    PROVE  IInv'
<1> USE DEF RenewalConflict, AdoptionConflict
<1>0. o \in Ops /\ Sound(o) /\ SoundWrites(ops) BY DEF IInv, SoundWrites
<1>1. CASE /\ RenewalConflict(o)
           /\ OwnCommittedWrite(o)
           /\ ops' = Sending(Without(o), Write("adopt", o.proc, o.acq, o.by, o.age))
           /\ UNCHANGED <<local, phase>>
  <2> DEFINE t == Write("adopt", o.proc, o.acq, o.by, o.age)
  <2>1. t \in Ops BY <1>0, WriteTyped DEF Ops
  <2>2. Sound(t)
    BY <1>0, <1>1 DEF OwnCommittedWrite, Sound, KnowsEntry, Concerns, Write
  <2>3. SoundWrites(ops') BY <1>0, <1>1, <2>1, <2>2, WithoutSound, SendingSound
  <2> QED BY <1>1, <2>3, QuietStep, ProcsStay, MemoryStays, PhasesStay DEF IInv, TypeOK
<1>2. CASE /\ RenewalConflict(o) \/ AdoptionConflict(o)
           /\ ops' = Without(o)
           /\ LoseLock(o)
  <2>1. SoundWrites(ops') BY <1>0, <1>2, WithoutSound
  <2> QED BY <1>2, <2>1, QuietStep, ProcsStay, LoseLockKeeps DEF IInv, TypeOK
<1> QED BY <1>1, <1>2 DEF Answered

\* A renewal that was not answered.
LEMMA RenewalFailedKeeps ==
    ASSUME IInv, NEW o \in ops, RenewalFailed(o)
    PROVE  IInv'
<1> USE DEF RenewalFailed
<1>1. SoundWrites(ops') BY AbandonSound DEF IInv, TimedOut
<1> QED BY <1>1, QuietStep, ProcsStay, MemoryStays, PhasesStay DEF IInv, TypeOK

\* The fence and a Stop.
LEMMA StopKeeps ==
    ASSUME IInv, NEW a \in Attempts, SelfFence(a) \/ Interrupt(a)
    PROVE  IInv'
<1>1. /\ UNCHANGED <<entry, proc, local, active, at, ops, forced, lost>>
      /\ Abort(a)
  BY DEF SelfFence, Interrupt
<1> QED BY <1>1, QuietStep, ProcsStay, MemoryStays, PhasesStay DEF IInv, TypeOK

-----------------------------------------------------------------------------
(* Letting go.                                                             *)

\* The release deletes this process's entry, by the revision it has read.
LEMMA ReleaseKeeps ==
    ASSUME IInv, NEW p \in Procs, proc[p] # "new", NEW by \in Acqs,
           by \in Attempts => at[by] \in Procs, releaseTaskLock(p, by)
    PROVE  SoundWrites(ops') /\ MemoryKept
<1>1. CASE OwnEntry(p) /\ ops' = Sending(ops, Write("delete", p, entry.acq, by, 0))
           /\ UNCHANGED local
  <2> DEFINE t == Write("delete", p, entry.acq, by, 0)
  <2>1. t \in Ops
    BY LockAssumption, WriteTyped DEF IInv, TypeOK, Entries, Ages
  <2>2. Sound(t)
    BY <1>1 DEF OwnEntry, Sound, KnowsEntry, Concerns, Write
  <2> QED BY <1>1, <2>1, <2>2, SendingSound, MemoryStays DEF IInv
<1>2. CASE forgetLock(p) /\ UNCHANGED ops
  BY <1>2, MemoryStays DEF IInv
<1> QED BY <1>1, <1>2 DEF releaseTaskLock

\* The end of a run.
LEMMA FinishRunKeeps ==
    ASSUME IInv, NEW a \in Attempts, FinishRun(a)
    PROVE  IInv'
<1> USE DEF FinishRun
<1>1. at[a] \in Procs /\ proc[at[a]] # "new" BY DEF IInv, Placed, Started
<1>2. SoundWrites(ops') /\ MemoryKept BY <1>1, ReleaseKeeps DEF Acqs
<1>3. PhasesKept
  <2>1. (IF ops' = ops THEN "done" ELSE "releasing") \in Phases BY DEF Phases
  <2> QED BY <1>1, <2>1, PhaseMoves
<1>4. active' \in [Procs -> Acqs] BY DEF IInv, TypeOK, Acqs
<1> QED BY <1>2, <1>3, <1>4, QuietStep, ProcsStay DEF IInv, TypeOK

\* The forced end of somebody else's.
LEMMA ForceReleaseKeeps ==
    ASSUME IInv, NEW a \in Attempts, ForceRelease(a)
    PROVE  IInv'
<1> USE DEF ForceRelease
<1>1. at[a] \in Procs /\ proc[at[a]] # "new" BY DEF IInv, Placed, Started
<1>2. SoundWrites(ops') /\ MemoryKept BY <1>1, ReleaseKeeps, LockAssumption DEF Acqs
<1>3. PhasesKept BY PhasesStay
<1>4. active' \in [Procs -> Acqs] BY DEF IInv, TypeOK, Acqs
<1>5. forced' \in 0 .. MaxForced BY LockAssumption DEF IInv, TypeOK
<1> QED BY <1>2, <1>3, <1>4, <1>5, QuietStep, ProcsStay DEF IInv, TypeOK

\* A release that was answered, or not.
LEMMA ReleasedKeeps ==
    ASSUME IInv, NEW o \in ops, Released(o)
    PROVE  IInv'
<1> USE DEF Released
<1>0. o \in Ops /\ Sound(o) /\ SoundWrites(ops) BY DEF IInv, SoundWrites
<1>1. SoundWrites(ops') BY <1>0, AbandonSound DEF TimedOut
<1>2. PhasesKept BY <1>0 DEF IInv, TypeOK, Sound, Concerns, PhasesKept, Phases
<1> QED BY <1>1, <1>2, QuietStep, ProcsStay, MemoryStays DEF IInv, TypeOK

-----------------------------------------------------------------------------
(* The store.                                                              *)

\* Writes that name no current revision need only their processes.
LEMMA StaleSound ==
    ASSUME NEW S, SoundWrites(S)
    PROVE  /\ Stale(S) \subseteq Ops /\ IsFiniteSet(Stale(S))
           /\ \A y \in Stale(S) :
                 /\ y.current = FALSE
                 /\ proc[y.proc] # "new"
                 /\ \A a \in Attempts : a \in Concerns(y) => at[a] \in Procs
<1> DEFINE f == [x \in S |-> [x EXCEPT !.current = FALSE]]
<1>1. Stale(S) = {f[x] : x \in S} BY DEF Stale
<1>2. ASSUME NEW x \in S
      PROVE  /\ f[x] \in Ops /\ f[x].current = FALSE /\ f[x].proc = x.proc
             /\ Concerns(f[x]) = Concerns(x) /\ Sound(x)
  BY DEF SoundWrites, Ops, Concerns
<1> HIDE DEF f
<1>3. IsFiniteSet({f[x] : x \in S}) BY ImageFinite DEF SoundWrites
<1>4. \A x \in S : /\ proc[f[x].proc] # "new"
                   /\ \A a \in Attempts : a \in Concerns(f[x]) => at[a] \in Procs
  BY <1>2 DEF Sound
<1> QED BY <1>1, <1>2, <1>3, <1>4

\* Nobody's memory is current once the entry has moved.
LEMMA AllStaleTyped ==
    ASSUME IInv, local' = AllStale
    PROVE  local' \in [Procs -> Memories] /\ \A p \in Procs : local'[p].current = FALSE
<1>1. \A p \in Procs : local[p] \in Memories BY DEF IInv, TypeOK
<1> QED BY <1>1 DEF AllStale, Memories

\* The entry moves, and with it everybody's revision goes stale.
LEMMA EntryMoves ==
    ASSUME IInv, entry' \in Entries, local' = AllStale,
           UNCHANGED <<proc, active, phase, at, forced, lost>>,
           entry' # Free => entry'.proc \in Procs,
           entry'.proc \in Procs => proc[entry'.proc] # "new",
           SoundWrites(ops)'
    PROVE  IInv'
<1>1. /\ local' \in [Procs -> Memories]
      /\ \A p \in Procs : local'[p].current = FALSE
  BY AllStaleTyped
<1>2. TypeOK' BY <1>1 DEF IInv, TypeOK, SoundWrites
<1>3. Placed' /\ Started' BY DEF IInv, Placed, Started, Free
<1>4. MemoryKnowsTheEntry' BY <1>1 DEF MemoryKnowsTheEntry
<1> QED BY <1>2, <1>3, <1>4 DEF IInv

\* An answer says no more than the write did, or what the store has just done.
LEMMA ReplySound ==
    ASSUME NEW o \in Ops, Sound(o), NEW res \in {"ok", "conflict", "lost"},
           NEW cur \in BOOLEAN
    PROVE  LET y == [o EXCEPT !.res = res, !.current = cur]
           IN  /\ y \in Ops /\ y.kind = o.kind /\ y.proc = o.proc /\ y.acq = o.acq
               /\ y.res = res /\ y.current = cur
               /\ Concerns(y) = Concerns(o)
BY DEF Ops, Concerns

\* A write that is accepted.
LEMMA StoreAccepted ==
    ASSUME IInv, NEW o \in ops, Store(o), Accepted(o)
    PROVE  IInv'
<1>0. o \in Ops /\ Sound(o) /\ SoundWrites(ops \ {o})
  BY FS_RemoveElement DEF IInv, SoundWrites
<1>1. /\ entry' = Stored(o) /\ local' = AllStale
      /\ ops' = Stale(ops \ {o}) \cup Reply(o, "ok", TRUE)
      /\ UNCHANGED <<proc, active, phase, at, forced, lost>>
  BY DEF Store
<1>2. entry' \in Entries
  BY <1>0, <1>1, LockAssumption DEF Stored, Free, Entries, Ops, Acqs, Holders, Ages
<1>3. entry' # Free => entry'.proc \in Procs
  BY <1>0, <1>1 DEF Stored, Ops
<1>4. entry'.proc \in Procs => proc[entry'.proc] # "new"
  BY <1>0, <1>1, LockAssumption DEF Stored, Free, Sound
<1>5. SoundWrites(ops)'
  <2> DEFINE y == [o EXCEPT !.res = "ok", !.current = TRUE]
  <2>1. \A x \in Stale(ops \ {o}) : x \in Ops /\ Sound(x)'
    BY <1>0, <1>1, StaleSound DEF Sound, Concerns
  <2>2. y \in Ops /\ Sound(y)'
    <3>1. /\ y \in Ops /\ y.kind = o.kind /\ y.proc = o.proc /\ y.acq = o.acq
          /\ y.res = "ok" /\ Concerns(y) = Concerns(o)
      BY <1>0, ReplySound
    <3>2. y.kind \in {"create", "take", "renew", "adopt"}
              => entry'.acq = y.acq /\ entry'.proc = y.proc
      BY <1>1, <3>1 DEF Stored
    <3> HIDE DEF y
    <3>3. KnowsEntry(y)' BY <3>1, <3>2 DEF KnowsEntry
    <3> QED BY <1>0, <1>1, <3>1, <3>3 DEF Sound, Concerns
  <2> HIDE DEF y
  <2>3. ops' = Stale(ops \ {o}) \/ ops' = Stale(ops \ {o}) \cup {y}
    BY <1>1 DEF Reply, y
  <2>4. IsFiniteSet(Stale(ops \ {o})) BY <1>0, StaleSound
  <2>5. IsFiniteSet(ops') BY <2>3, <2>4, FS_AddElement
  <2> QED BY <2>1, <2>2, <2>3, <2>5 DEF SoundWrites
<1> QED BY <1>1, <1>2, <1>3, <1>4, <1>5, EntryMoves

\* A write that is refused.
LEMMA StoreRefused ==
    ASSUME IInv, NEW o \in ops, Store(o), ~ Accepted(o)
    PROVE  IInv'
<1>0. o \in Ops /\ Sound(o) /\ SoundWrites(ops \ {o})
  BY FS_RemoveElement DEF IInv, SoundWrites
<1>1. /\ ops' = (ops \ {o}) \cup Reply(o, "conflict", FALSE)
      /\ UNCHANGED <<entry, local, proc, active, phase, at, forced, lost>>
  BY DEF Store
<1> DEFINE y == [o EXCEPT !.res = "conflict", !.current = FALSE]
<1>2. y \in Ops /\ Sound(y)
  BY <1>0, ReplySound DEF Sound
<1> HIDE DEF y
<1>3. ops' = (ops \ {o}) \/ ops' = (ops \ {o}) \cup {y}
  BY <1>1 DEF Reply, y
<1>4. SoundWrites(ops') BY <1>0, <1>2, <1>3, FS_AddElement DEF SoundWrites
<1> QED BY <1>1, <1>4, QuietStep, ProcsStay, MemoryStays, PhasesStay DEF IInv, TypeOK

\* An answer that does not arrive.
LEMMA AnswerLostKeeps ==
    ASSUME IInv, NEW o \in ops, AnswerLost(o)
    PROVE  IInv'
<1> USE DEF AnswerLost
<1>0. o \in Ops /\ Sound(o) /\ SoundWrites(ops \ {o})
  BY FS_RemoveElement DEF IInv, SoundWrites
<1> DEFINE y == [o EXCEPT !.res = "lost"]
<1>1. /\ y \in Ops /\ y.kind = o.kind /\ y.proc = o.proc /\ y.acq = o.acq
      /\ y.res = "lost" /\ y.current = o.current /\ Concerns(y) = Concerns(o)
  BY <1>0 DEF Ops, Concerns
<1>2. ops' = (ops \ {o}) \cup {y} OBVIOUS
<1> HIDE DEF y
<1>3. Sound(y) BY <1>0, <1>1 DEF Sound, KnowsEntry
<1>4. SoundWrites(ops')
  <2>1. IsFiniteSet(ops') BY <1>0, <1>2, FS_AddElement DEF SoundWrites
  <2> QED BY <1>0, <1>1, <1>2, <1>3, <2>1 DEF SoundWrites
<1>5. lost' \in 0 .. MaxLost BY LockAssumption DEF IInv, TypeOK
<1> QED BY <1>4, <1>5, QuietStep, ProcsStay, MemoryStays, PhasesStay DEF IInv, TypeOK

\* The bucket drops the entry.
LEMMA ExpireKeeps ==
    ASSUME IInv, Expire
    PROVE  IInv'
<1> USE DEF Expire
<1>1. Free \in Entries /\ Free.proc \notin Procs
  BY LockAssumption DEF Free, Entries, Acqs, Holders, Ages
<1>2. SoundWrites(ops)'
  BY StaleSound DEF IInv, SoundWrites, Sound, Concerns
<1> QED BY <1>1, <1>2, EntryMoves

-----------------------------------------------------------------------------
(* Processes and time.                                                     *)

\* A process starts, with or without a lock of its pod to hand back.
LEMMA StartKeeps ==
    ASSUME IInv, NEW p \in Procs, Start(p)
    PROVE  IInv'
<1> USE DEF Start
<1>1. ProcsAdvance BY DEF IInv, TypeOK, ProcsAdvance
<1>2. CASE /\ entry # Free
           /\ PodOf[entry.proc] = PodOf[p]
           /\ proc' = [proc EXCEPT ![p] = "starting"]
           /\ ops' = Sending(ops, Write("reclaim", p, entry.acq, NoAttempt, 0))
  <2> DEFINE t == Write("reclaim", p, entry.acq, NoAttempt, 0)
  <2>1. t \in Ops
    BY LockAssumption, WriteTyped DEF IInv, TypeOK, Entries, Acqs, Ages
  <2>2. PICK w \in Ops : Like(w, t) /\ ops' = ops \cup {w}
    BY <1>2, <2>1, SendingAdds DEF IInv, SoundWrites
  <2>3. /\ w.kind = "reclaim" /\ w.proc = p /\ w.res = "sent" /\ w.by = NoAttempt
    BY <2>2 DEF Like, Write
  <2>4. entry.proc \in Procs /\ proc[entry.proc] = "dead"
    BY <1>2 DEF IInv, Started
  <2>5. proc'[p] = "starting" /\ proc'[entry.proc] = "dead"
    BY <1>1, <1>2, <2>4 DEF IInv, TypeOK, ProcsAdvance
  <2>6. Sound(w)'
    BY <2>3, <2>4, <2>5, LockAssumption DEF Sound, KnowsEntry, Concerns
  <2>7. \A x \in ops : Sound(x)' BY <1>1, SoundFrame DEF IInv, SoundWrites
  <2>8. SoundWrites(ops)'
    BY <2>2, <2>6, <2>7, FS_AddElement DEF IInv, SoundWrites
  <2>9. TypeOK' BY <1>1, <2>2 DEF IInv, TypeOK, ProcsAdvance
  <2>10. Placed' /\ Started' /\ MemoryKnowsTheEntry'
    BY <1>1 DEF IInv, TypeOK, Placed, Started, MemoryKnowsTheEntry, ProcsAdvance, Free
  <2> QED BY <2>8, <2>9, <2>10 DEF IInv
<1>3. CASE UNCHANGED ops
  BY <1>1, <1>3, QuietStep, MemoryStays, PhasesStay DEF IInv, TypeOK
<1> QED BY <1>2, <1>3

\* The hand-back is over.
LEMMA ReclaimedKeeps ==
    ASSUME IInv, NEW o \in ops, Reclaimed(o)
    PROVE  IInv'
<1> USE DEF Reclaimed
<1>1. ProcsAdvance BY DEF IInv, TypeOK, ProcsAdvance
<1>2. SoundWrites(ops') BY AbandonSound DEF IInv, TimedOut
<1> QED BY <1>1, <1>2, QuietStep, MemoryStays, PhasesStay DEF IInv, TypeOK

\* A process dies; what it has sent is as sound as before.
LEMMA CrashKeeps ==
    ASSUME IInv, NEW p \in Procs, Crash(p)
    PROVE  IInv'
<1> USE DEF Crash
<1> DEFINE mine == {o \in ops : o.proc = p}
           waiting == {x \in mine : x.res = "sent"}
           sent == {Ownerless(o) : o \in waiting}
<1>0. SoundWrites(ops) BY DEF IInv
<1>1. ProcsAdvance BY DEF IInv, TypeOK, ProcsAdvance
<1>2. PICK kept \in SUBSET sent : ops' = (ops \ mine) \cup kept OBVIOUS
<1>3. \A y \in sent : y \in Ops /\ Sound(y)
  <2> SUFFICES ASSUME NEW o \in waiting
               PROVE  Ownerless(o) \in Ops /\ Sound(Ownerless(o))
    OBVIOUS
  <2>1. o \in Ops /\ Sound(o) /\ NoAttempt \in Acqs /\ 0 \in Ages
    BY <1>0, LockAssumption DEF SoundWrites, Acqs, Ages
  <2>2. Ownerless(o) \in Ops /\ Like(Ownerless(o), o) BY <2>1 DEF Ops, Like, Ownerless
  <2> QED BY <2>1, <2>2, LikeSound
<1>4. IsFiniteSet(sent)
  <2> DEFINE f == [x \in waiting |-> Ownerless(x)]
  <2>1. waiting \in SUBSET ops OBVIOUS
  <2>2. IsFiniteSet(waiting) BY <1>0, <2>1, FS_Subset DEF SoundWrites
  <2>3. sent = {f[x] : x \in waiting} OBVIOUS
  <2> HIDE DEF f, waiting, sent
  <2> QED BY <2>2, <2>3, ImageFinite
<1>5. IsFiniteSet(kept) BY <1>4, FS_Subset
<1>6. IsFiniteSet(ops \ mine) BY <1>0, FS_Difference DEF SoundWrites
<1>7. SoundWrites(ops')
  <2>1. IsFiniteSet(ops') BY <1>2, <1>5, <1>6, FS_Union
  <2> QED BY <1>0, <1>2, <1>3, <2>1 DEF SoundWrites
<1>8. PhasesKept BY DEF IInv, TypeOK, PhasesKept, Phases
<1>9. active' \in [Procs -> Acqs] BY DEF IInv, TypeOK, Acqs
<1> QED BY <1>1, <1>7, <1>8, <1>9, QuietStep, MemoryStays DEF IInv, TypeOK

\* Time passes.
LEMMA TickKeeps ==
    ASSUME IInv, Tick
    PROVE  IInv'
<1> USE DEF Tick
<1> DEFINE f == [o \in ops |-> IF o.gone THEN o ELSE [o EXCEPT !.age = @ + 1]]
<1>0. SoundWrites(ops) BY DEF IInv
<1>1. /\ entry' \in Entries /\ entry'.acq = entry.acq /\ entry'.proc = entry.proc
      /\ entry'.age \in Nat /\ entry.age \in Nat /\ entry'.age >= entry.age
      /\ (entry' # Free => entry # Free)
  <2>1. entry \in Entries BY DEF IInv, TypeOK
  <2>2. CASE entry = Free BY <2>1, <2>2 DEF Entries, Ages
  <2>3. CASE entry # Free
    <3>1. entry' = [entry EXCEPT !.age = @ + 1] BY <2>3
    <3>2. entry.age + 1 \in Ages BY <2>1, LockAssumption DEF Entries, Ages
    <3> QED BY <2>1, <2>3, <3>1, <3>2 DEF Entries, Ages
  <2> QED BY <2>2, <2>3
<1>2. /\ local' \in [Procs -> Memories]
      /\ \A p \in Procs : /\ local'[p].current = local[p].current
                          /\ local'[p].acq = local[p].acq
  <2>1. ASSUME NEW p \in Procs
        PROVE  /\ local'[p] \in Memories /\ local'[p].current = local[p].current
               /\ local'[p].acq = local[p].acq
    <3>1. local[p] \in Memories BY DEF IInv, TypeOK
    <3>2. Older(local[p].unproven) \in Ages
      BY <3>1, LockAssumption DEF Older, Smaller, Memories, Ages
    <3>3. local'[p] = local[p]
          \/ local'[p] = [local[p] EXCEPT !.unproven = Older(local[p].unproven)]
      OBVIOUS
    <3> QED BY <3>1, <3>2, <3>3 DEF Memories
  <2> QED BY <2>1
<1>3. ops' = {f[o] : o \in ops} OBVIOUS
<1>4. ASSUME NEW o \in ops PROVE f[o] \in Ops /\ Like(f[o], o)
  <2>1. o \in Ops BY <1>0 DEF SoundWrites
  <2>2. CASE o.gone BY <2>1, <2>2 DEF Like
  <2>3. CASE ~ o.gone
    <3>1. o.age + 1 \in Ages BY <2>1, <2>3, LockAssumption DEF Ops, Ages
    <3> QED BY <2>1, <2>3, <3>1 DEF Ops, Like
  <2> QED BY <2>2, <2>3
<1> HIDE DEF f
<1>5. IsFiniteSet(ops') BY <1>0, <1>3, ImageFinite DEF SoundWrites
<1>6. ASSUME NEW y \in Ops, Sound(y) PROVE Sound(y)'
  BY <1>1, <1>6, LockAssumption DEF Sound, KnowsEntry, Concerns
<1>7. ASSUME NEW y \in ops' PROVE y \in Ops /\ Sound(y)
  <2>1. PICK o \in ops : y = f[o] BY <1>3
  <2> QED BY <1>0, <1>4, <2>1, LikeSound DEF SoundWrites
<1>8. SoundWrites(ops)' BY <1>5, <1>6, <1>7 DEF SoundWrites
<1>9. TypeOK' BY <1>1, <1>2, <1>8 DEF IInv, TypeOK, SoundWrites
<1>10. Placed' /\ Started' /\ MemoryKnowsTheEntry'
  BY <1>1, <1>2 DEF IInv, Placed, Started, MemoryKnowsTheEntry
<1> QED BY <1>8, <1>9, <1>10 DEF IInv

-----------------------------------------------------------------------------
(* The theorems.                                                           *)

\* The invariant holds at the start.
LEMMA InitSound ==
    ASSUME Init
    PROVE  IInv
<1> USE DEF Init
<1>1. TypeOK
  BY LockAssumption
  DEF TypeOK, Free, Forgotten, Entries, Memories, Phases, Acqs, Holders, Ages
<1>2. Placed /\ Started BY LockAssumption DEF Placed, Started, Free
<1>3. SoundWrites(ops) BY FS_EmptySet DEF SoundWrites
<1>4. MemoryKnowsTheEntry BY DEF MemoryKnowsTheEntry, Forgotten
<1> QED BY <1>1, <1>2, <1>3, <1>4 DEF IInv

\* Every step keeps it.
LEMMA NextKeeps ==
    ASSUME IInv, [Next]_vars
    PROVE  IInv'
<1>1. CASE StoreStep
  BY <1>1, StoreAccepted, StoreRefused, AnswerLostKeeps DEF StoreStep
<1>2. CASE AnswerStep
  BY <1>2, CreateRefusedKeeps, TakeRefusedKeeps, AcquiredKeeps, RenewedKeeps,
     RenewalConflictKeeps, RenewalFailedKeeps, ReleasedKeeps, ReclaimedKeeps
  DEF AnswerStep
<1>3. CASE RunStep
  BY <1>3, BeginAcquireKeeps, RenewKeeps, StopKeeps, ForceReleaseKeeps, FinishRunKeeps
  DEF RunStep
<1>4. CASE ProcStep BY <1>4, StartKeeps, CrashKeeps DEF ProcStep
<1>5. CASE Expire \/ Tick BY <1>5, ExpireKeeps, TickKeeps
<1>6. CASE UNCHANGED vars
  BY <1>6 DEF vars, IInv, TypeOK, Placed, Started, SoundWrites, Sound, KnowsEntry,
              Concerns, MemoryKnowsTheEntry
<1> QED BY <1>1, <1>2, <1>3, <1>4, <1>5, <1>6 DEF Next

\* What a process remembers, and what it names in a write, is about the entry it
\* takes it to be about, through every order of writes, answers and timeouts.
THEOREM LockInvariance == Spec => []IInv
<1>1. Init => IInv BY InitSound
<1>2. IInv /\ [Next]_vars => IInv' BY NextKeeps
<1> QED BY <1>1, <1>2, PTL DEF Spec

\* The lock's state stays in range.
THEOREM LockTyped == Spec => []TypeOK
<1>1. IInv => TypeOK BY DEF IInv
<1> QED BY <1>1, LockInvariance, PTL

\* INV-13 in one step: only a stored write and the TTL move the entry.
LEMMA ForeignStep ==
    ASSUME IInv, [Next]_vars, NEW p \in Procs, entry.proc = p, entry'.proc # p
    PROVE  \/ proc[p] = "dead"
           \/ entry.age + Skew >= DEAD
           \/ entry.age = TTL
           \/ \E o \in ops : /\ o.proc = p /\ o.kind = "delete"
                             /\ o.res = "sent" /\ o.current
<1>1. entry' # entry BY DEF Next
<1>2. \/ \E o \in ops : Store(o) /\ Accepted(o)
      \/ Expire
      \/ Tick
  <2>1. CASE StoreStep BY <1>1, <2>1 DEF StoreStep, Store, AnswerLost
  <2>2. CASE AnswerStep
    BY <1>1, <2>2 DEF AnswerStep, CreateRefused, TakeRefused, Acquired, Renewed,
       RenewalConflict, AdoptionConflict, RenewalFailed, Released, Reclaimed
  <2>3. CASE RunStep
    BY <1>1, <2>3 DEF RunStep, BeginAcquire, Renew, SelfFence, Interrupt,
       ForceRelease, FinishRun
  <2>4. CASE ProcStep BY <1>1, <2>4 DEF ProcStep, Start, Crash
  <2>5. CASE UNCHANGED vars BY <1>1, <2>5 DEF vars
  <2> QED BY <2>1, <2>2, <2>3, <2>4, <2>5 DEF Next
<1>3. CASE \E o \in ops : Store(o) /\ Accepted(o)
  <2>1. PICK o \in ops : Store(o) /\ Accepted(o) BY <1>3
  <2>2. /\ o \in Ops /\ (o.current => KnowsEntry(o)) /\ o.res = "sent"
        /\ entry' = Stored(o)
    BY <2>1 DEF IInv, SoundWrites, Sound, Store
  <2>3. CASE o.kind = "create"
    BY <2>1, <2>3, LockAssumption DEF Accepted, Free
  <2>4. CASE o.kind = "take" BY <2>1, <2>2, <2>4 DEF Accepted, KnowsEntry
  <2>5. CASE o.kind \in {"renew", "adopt"}
    BY <2>1, <2>2, <2>5 DEF Accepted, KnowsEntry, Stored
  <2>6. CASE o.kind = "delete" BY <2>1, <2>2, <2>6 DEF Accepted, KnowsEntry
  <2>7. CASE o.kind = "reclaim" BY <2>1, <2>2, <2>7 DEF Accepted, KnowsEntry
  <2> QED BY <2>2, <2>3, <2>4, <2>5, <2>6, <2>7 DEF Ops
<1>4. CASE Expire BY <1>4 DEF Expire
<1>5. CASE Tick
  <2>1. entry'.proc = entry.proc BY <1>5 DEF Tick, IInv, TypeOK, Entries
  <2> QED BY <2>1
<1> QED BY <1>2, <1>3, <1>4, <1>5

\* INV-13 for every execution: no process loses its lock to another one while it
\* is alive and writes its entry in time, except by a delete of its own.
THEOREM ForeignLockSafe == Spec => ForeignLockIsLeftAlone
<1>1. IInv /\ [Next]_vars =>
        [\A p \in Procs :
          (entry.proc = p /\ entry'.proc # p)
              => \/ proc[p] = "dead"
                 \/ entry.age + Skew >= DEAD
                 \/ entry.age = TTL
                 \/ \E o \in ops : /\ o.proc = p /\ o.kind = "delete"
                                  /\ o.res = "sent" /\ o.current]_vars
  BY ForeignStep
<1> QED BY <1>1, LockInvariance, PTL DEF Spec, ForeignLockIsLeftAlone

-----------------------------------------------------------------------------
(* Mutual exclusion.                                                       *)

\* What the argument needs of a deployment.  A takeover must not come before the
\* holder's fence by the taker's clock, nor within two exchanges with the store.
Undisturbed ==
    /\ MaxForced = 0 /\ MaxLost = 0
    /\ Skew < REFRESH
    /\ 2 * TIMEOUT + Skew < DEAD
    /\ 2 * TIMEOUT < TTL

-----------------------------------------------------------------------------
(* The order of what a process waits for.                                  *)

\* Turns are distinct and below the number of writes awaited, and a write that
\* has been served was the first, but for those whose answer was lost.
Ordered(S) ==
    \A x \in S : ~ x.gone =>
        /\ x.turn < Cardinality(Awaited(S, x.proc))
        /\ \A y \in S : ~ y.gone /\ y.proc = x.proc /\ y # x =>
              x.turn # y.turn /\ (x.res # "sent" => x.turn < y.turn \/ y.res = "lost")

\* y is x, perhaps moved up in the queue or with nobody waiting for it any more.
Kin(y, x) ==
    /\ Like(y, x)
    /\ ~ y.gone => ~ x.gone /\ y.by = x.by /\ y.age = x.age

\* T is what becomes of ops once nobody waits for the writes R any more: g finds
\* for each write the one it was.
Heirs(T, g, R) ==
    /\ g \in [T -> ops]
    /\ \A y \in T : /\ Kin(y, g[y])
                    /\ ~ y.gone => g[y] \notin R
                    /\ y.gone => g[y].gone \/ g[y] \in R
    /\ \A y, z \in T : ~ y.gone /\ ~ z.gone =>
          /\ y.proc = z.proc /\ y.turn > z.turn => g[y].turn > g[z].turn
          /\ g[y] = g[z] => y = z
    /\ \A x \in ops : ~ x.gone /\ x \notin R => \E y \in T : ~ y.gone /\ g[y] = x

\* With nothing given up, every write is its own heir.
LEMMA OwnHeirs == Heirs(ops, [x \in ops |-> x], {})
BY DEF Heirs, Kin, Like

\* A write joins its process's queue at the end.
LEMMA SendingOrdered ==
    ASSUME NEW S, S \subseteq Ops, IsFiniteSet(S), Ordered(S),
           NEW o \in Ops, ~ o.gone, o.res = "sent"
    PROVE  \E w \in Ops :
               /\ Sending(S, o) = S \cup {w} /\ Ordered(S \cup {w})
               /\ Like(w, o) /\ w.by = o.by /\ w.age = o.age /\ ~ w.gone
               /\ \A y \in S : ~ y.gone /\ y.proc = w.proc => y.turn < w.turn
<1> DEFINE Q == Awaited(S, o.proc)
           n == Cardinality(Q)
           w == [o EXCEPT !.turn = n]
<1>1. Q \in SUBSET S /\ IsFiniteSet(Q) /\ n \in Nat
  <2>1. Q \in SUBSET S BY DEF Awaited
  <2> QED BY <2>1, FS_Subset, FS_CardinalityType
<1>2. /\ w \in Ops /\ Like(w, o) /\ w.by = o.by /\ w.age = o.age /\ ~ w.gone
      /\ w.turn = n /\ w.proc = o.proc /\ w.res = "sent"
  BY <1>1 DEF Ops, Like
<1>3. Sending(S, o) = S \cup {w} BY DEF Sending
<1>4. \A y \in S : ~ y.gone /\ y.proc = o.proc => y.turn < n
  BY DEF Ordered, Awaited
<1> HIDE DEF w
<1>5. w \notin Q BY <1>1, <1>2, <1>4 DEF Awaited
<1>6. Awaited(S \cup {w}, o.proc) = Q \cup {w}
  BY <1>2 DEF Awaited
<1>7. Cardinality(Awaited(S \cup {w}, o.proc)) = n + 1
  BY <1>1, <1>5, <1>6, FS_AddElement
<1>8. \A q : q # o.proc => Awaited(S \cup {w}, q) = Awaited(S, q)
  BY <1>2 DEF Awaited
<1>9. Ordered(S \cup {w})
  <2> SUFFICES ASSUME NEW x \in S \cup {w}, ~ x.gone
               PROVE  /\ x.turn < Cardinality(Awaited(S \cup {w}, x.proc))
                      /\ \A y \in S \cup {w} : ~ y.gone /\ y.proc = x.proc /\ y # x =>
                            x.turn # y.turn /\ (x.res # "sent" => x.turn < y.turn \/ y.res = "lost")
    BY DEF Ordered
  <2>1. x \in Ops /\ x.turn \in Nat BY <1>2 DEF Ops
  <2>2. x.turn < Cardinality(Awaited(S \cup {w}, x.proc))
    <3>1. CASE x = w BY <1>1, <1>2, <1>7, <3>1
    <3>2. CASE x \in S /\ x.proc = o.proc BY <1>1, <1>4, <1>7, <2>1, <3>2
    <3>3. CASE x \in S /\ x.proc # o.proc BY <1>8, <3>3 DEF Ordered
    <3> QED BY <3>1, <3>2, <3>3
  <2>3. ASSUME NEW y \in S \cup {w}, ~ y.gone, y.proc = x.proc, y # x
        PROVE  x.turn # y.turn /\ (x.res # "sent" => x.turn < y.turn \/ y.res = "lost")
    <3>1. y.turn \in Nat BY <1>2 DEF Ops
    <3>2. CASE x \in S /\ y \in S BY <2>3, <3>2 DEF Ordered
    <3>3. CASE x = w BY <1>1, <1>2, <1>4, <2>3, <3>1, <3>3
    <3>4. CASE y = w /\ x \in S BY <1>1, <1>2, <1>4, <2>1, <2>3, <3>4
    <3> QED BY <3>2, <3>3, <3>4
  <2> QED BY <2>2, <2>3
<1> QED BY <1>2, <1>3, <1>4, <1>9

\* The place a write has once o has left the queue.
MovedUp(x, o) ==
    IF x \in Awaited(ops, o.proc) /\ x.turn > o.turn
    THEN [x EXCEPT !.turn = @ - 1] ELSE x

\* When o leaves, the rest of its queue moves up and stays in order.
LEMMA WithoutOrdered ==
    ASSUME SoundWrites(ops), Ordered(ops), NEW o \in ops, ~ o.gone
    PROVE  /\ Ordered(Without(o))
           /\ \E g : Heirs(Without(o), g, {o})
<1> DEFINE D == ops \ {o}
           f == [x \in D |-> MovedUp(x, o)]
           W == Without(o)
           p == o.proc
           Q == Awaited(ops, p)
           g == [y \in W |-> CHOOSE x \in D : f[x] = y]
<1>1. W = {f[x] : x \in D} BY DEF Without, MovedUp
<1>2. ASSUME NEW x \in D
      PROVE  /\ x \in Ops /\ f[x] \in Ops /\ Kin(f[x], x) /\ (f[x].gone <=> x.gone)
             /\ x.turn \in Nat /\ f[x].turn \in Nat
             /\ f[x].turn = (IF x \in Q /\ x.turn > o.turn THEN x.turn - 1 ELSE x.turn)
  <2>1. x \in Ops /\ o \in Ops BY DEF SoundWrites
  <2>2. CASE f[x] = x /\ ~ (x \in Q /\ x.turn > o.turn) BY <2>1, <2>2 DEF Kin, Like, Ops
  <2>3. CASE x \in Q /\ x.turn > o.turn /\ f[x] = [x EXCEPT !.turn = @ - 1]
    <3>1. x.turn - 1 \in Nat BY <2>1, <2>3 DEF Ops
    <3> QED BY <2>1, <2>3, <3>1 DEF Ops, Like, Kin
  <2> QED BY <2>2, <2>3 DEF MovedUp
<1>3. o \in Ops /\ o.turn \in Nat BY DEF SoundWrites, Ops
<1>4. ASSUME NEW x \in D, NEW z \in D, ~ x.gone, ~ z.gone, x.proc = z.proc, x # z
      PROVE  /\ f[x].turn # f[z].turn
             /\ x.turn > z.turn => f[x].turn > f[z].turn
  <2>1. /\ x.turn # z.turn /\ (x.proc = p => x.turn # o.turn /\ z.turn # o.turn)
    BY <1>4 DEF Ordered
  <2>2. (x \in Q <=> x.proc = p) /\ (z \in Q <=> z.proc = p)
    BY <1>4 DEF Awaited
  <2>3. /\ x.turn \in Nat /\ z.turn \in Nat
        /\ f[x].turn = (IF x \in Q /\ x.turn > o.turn THEN x.turn - 1 ELSE x.turn)
        /\ f[z].turn = (IF z \in Q /\ z.turn > o.turn THEN z.turn - 1 ELSE z.turn)
    BY <1>2
  <2> HIDE DEF f
  <2> QED BY <1>3, <1>4, <2>1, <2>2, <2>3
<1> HIDE DEF f
<1>5. ASSUME NEW y \in W
      PROVE  /\ g[y] \in D /\ f[g[y]] = y /\ Kin(y, g[y]) /\ (y.gone <=> g[y].gone)
  <2>1. \E x \in D : f[x] = y BY <1>1
  <2>2. g[y] \in D /\ f[g[y]] = y BY <2>1
  <2> QED BY <1>2, <2>2
<1> HIDE DEF g
<1>6. \A x \in D : ~ x.gone => f[x] \in W /\ ~ f[x].gone /\ g[f[x]] = x
  <2> SUFFICES ASSUME NEW x \in D, ~ x.gone
               PROVE  f[x] \in W /\ ~ f[x].gone /\ g[f[x]] = x
    OBVIOUS
  <2>1. f[x] \in W /\ ~ f[x].gone /\ f[x].proc = x.proc BY <1>1, <1>2 DEF Kin, Like
  <2>2. /\ g[f[x]] \in D /\ f[g[f[x]]] = f[x] /\ ~ g[f[x]].gone
        /\ g[f[x]].proc = x.proc
    BY <1>5, <2>1 DEF Kin, Like
  <2>3. g[f[x]] = x BY <1>4, <2>2
  <2> QED BY <2>1, <2>3
<1>7. Heirs(W, g, {o})
  <2>1. g \in [W -> ops] BY <1>5 DEF g
  <2>2. ASSUME NEW y \in W, NEW z \in W, ~ y.gone, ~ z.gone
        PROVE  /\ y.proc = z.proc /\ y.turn > z.turn => g[y].turn > g[z].turn
               /\ g[y] = g[z] => y = z
    <3> DEFINE u == g[y]
               v == g[z]
    <3>1. /\ u \in D /\ v \in D /\ f[u] = y /\ f[v] = z /\ ~ u.gone /\ ~ v.gone
          /\ u.proc = y.proc /\ v.proc = z.proc
      BY <1>5, <2>2 DEF Kin, Like
    <3>2. u.turn \in Nat /\ v.turn \in Nat /\ y.turn \in Nat /\ z.turn \in Nat
      BY <1>2, <3>1
    <3> HIDE DEF u, v
    <3>3. ASSUME y.proc = z.proc, y.turn > z.turn PROVE u.turn > v.turn
      <4>1. u # v BY <3>1, <3>2, <3>3
      <4>2. u.turn # v.turn BY <3>1, <3>3, <4>1 DEF Ordered
      <4>3. v.turn > u.turn => z.turn > y.turn BY <1>4, <3>1, <3>3, <4>1
      <4> QED BY <3>2, <3>3, <4>2, <4>3
    <3> QED BY <3>1, <3>3 DEF u, v
  <2>3. \A y \in W : /\ Kin(y, g[y])
                     /\ ~ y.gone => g[y] \notin {o}
                     /\ y.gone => g[y].gone \/ g[y] \in {o}
    BY <1>5
  <2>4. \A x \in ops : ~ x.gone /\ x \notin {o} => \E y \in W : ~ y.gone /\ g[y] = x
    BY <1>6
  <2> QED BY <2>1, <2>2, <2>3, <2>4 DEF Heirs
<1>8. IsFiniteSet(Q) /\ Cardinality(Q) \in Nat /\ o \in Q
  <2>1. Q \in SUBSET ops /\ o \in Q BY DEF Awaited
  <2> QED BY <2>1, FS_Subset, FS_CardinalityType DEF SoundWrites
<1>9. Cardinality(Awaited(W, p)) = Cardinality(Q) - 1
  <2> DEFINE h == [x \in Q \ {o} |-> f[x]]
             A == Awaited(W, p)
  <2>1. \A x \in Q \ {o} : x \in D /\ ~ x.gone /\ x.proc = p BY DEF Awaited
  <2>2. h \in [Q \ {o} -> A]
    BY <1>2, <1>6, <2>1 DEF Awaited, Kin, Like
  <2>3. \A x, z \in Q \ {o} : h[x] = h[z] => x = z
    <3> SUFFICES ASSUME NEW x \in Q \ {o}, NEW z \in Q \ {o}, f[x] = f[z]
                 PROVE  x = z
      OBVIOUS
    <3> QED BY <1>6, <2>1
  <2>4. \A y \in A : \E x \in Q \ {o} : h[x] = y
    <3> SUFFICES ASSUME NEW y \in A PROVE \E x \in Q \ {o} : f[x] = y
      OBVIOUS
    <3>1. y \in W /\ ~ y.gone /\ y.proc = p BY DEF Awaited
    <3>2. g[y] \in Q \ {o} BY <1>5, <3>1 DEF Awaited, Kin, Like
    <3> QED BY <1>5, <3>1, <3>2
  <2> HIDE DEF h, A
  <2>5. ExistsBijection(Q \ {o}, A)
    <3>1. h \in Bijection(Q \ {o}, A) BY <2>2, <2>3, <2>4, Fun_IsBij
    <3> QED BY <3>1 DEF ExistsBijection
  <2>6. IsFiniteSet(Q \ {o}) /\ Cardinality(Q \ {o}) = Cardinality(Q) - 1
    BY <1>8, FS_RemoveElement
  <2> QED BY <2>5, <2>6, FS_Bijection DEF A
<1>10. \A q : q # p => Awaited(W, q) = Awaited(ops, q)
  <2> SUFFICES ASSUME NEW q, q # p PROVE Awaited(W, q) = Awaited(ops, q)
    OBVIOUS
  <2>1. \A x \in D : x.proc = q => f[x] = x BY DEF f, MovedUp, Awaited
  <2>2. \A x \in Awaited(ops, q) : x \in Awaited(W, q)
    <3> SUFFICES ASSUME NEW x \in Awaited(ops, q) PROVE x \in Awaited(W, q)
      OBVIOUS
    <3>1. x \in D /\ x.proc = q /\ ~ x.gone BY DEF Awaited
    <3> QED BY <1>1, <2>1, <3>1 DEF Awaited
  <2>3. \A y \in Awaited(W, q) : y \in Awaited(ops, q)
    <3> SUFFICES ASSUME NEW y \in Awaited(W, q) PROVE y \in Awaited(ops, q)
      OBVIOUS
    <3>1. y \in W /\ y.proc = q /\ ~ y.gone BY DEF Awaited
    <3>2. g[y] \in D /\ g[y].proc = q /\ f[g[y]] = y BY <1>5, <3>1 DEF Kin, Like
    <3>3. y = g[y] BY <2>1, <3>2
    <3> QED BY <3>1, <3>2, <3>3 DEF Awaited
  <2> QED BY <2>2, <2>3
<1>11. Ordered(W)
  <2> SUFFICES ASSUME NEW y \in W, ~ y.gone
               PROVE  /\ y.turn < Cardinality(Awaited(W, y.proc))
                      /\ \A z \in W : ~ z.gone /\ z.proc = y.proc /\ z # y =>
                            y.turn # z.turn /\ (y.res # "sent" => y.turn < z.turn \/ z.res = "lost")
    BY DEF Ordered
  <2> DEFINE u == g[y]
  <2>1. /\ u \in D /\ f[u] = y /\ ~ u.gone /\ u.proc = y.proc /\ u.res = y.res
    BY <1>5 DEF Kin, Like
  <2>2. /\ u.turn \in Nat /\ y.turn \in Nat
        /\ y.turn = (IF u \in Q /\ u.turn > o.turn THEN u.turn - 1 ELSE u.turn)
    BY <1>2, <2>1
  <2>3. u.turn < Cardinality(Awaited(ops, u.proc)) BY <2>1 DEF Ordered
  <2> HIDE DEF u
  <2>4. y.turn < Cardinality(Awaited(W, y.proc))
    <3>1. CASE y.proc = p
      <4>1. u.turn # o.turn /\ o.turn < Cardinality(Q) BY <2>1, <3>1 DEF Ordered
      <4>2. u \in Q BY <2>1, <3>1 DEF Awaited
      <4> QED BY <1>3, <1>8, <1>9, <2>1, <2>2, <2>3, <3>1, <4>1, <4>2
    <3>2. CASE y.proc # p
      <4>1. u \notin Q BY <2>1, <3>2 DEF Awaited
      <4> QED BY <1>10, <2>1, <2>2, <2>3, <3>2, <4>1
    <3> QED BY <3>1, <3>2
  <2>5. ASSUME NEW z \in W, ~ z.gone, z.proc = y.proc, z # y
        PROVE  y.turn # z.turn /\ (y.res # "sent" => y.turn < z.turn \/ z.res = "lost")
    <3> DEFINE v == g[z]
    <3>1. /\ v \in D /\ f[v] = z /\ ~ v.gone /\ v.proc = z.proc /\ v.res = z.res
      BY <1>5, <2>5 DEF Kin, Like
    <3>2. v.turn \in Nat /\ z.turn \in Nat BY <1>2, <3>1
    <3> HIDE DEF v
    <3>3. u # v BY <2>1, <2>5, <3>1
    <3>4. y.turn # z.turn /\ (v.turn > u.turn => z.turn > y.turn)
      BY <1>4, <2>1, <2>5, <3>1, <3>3
    <3>5. u.res # "sent" => u.turn < v.turn \/ v.res = "lost"
      BY <2>1, <2>5, <3>1, <3>3 DEF Ordered
    <3> QED BY <2>1, <2>2, <3>1, <3>2, <3>4, <3>5
  <2> QED BY <2>4, <2>5
<1> QED BY <1>7, <1>11

\* So it does when o may still be stored.
LEMMA AbandonOrdered ==
    ASSUME SoundWrites(ops), Ordered(ops), NEW o \in ops, ~ o.gone,
           NEW rest \in Abandon(o)
    PROVE  Ordered(rest) /\ \E g : Heirs(rest, g, {o})
<1>1. Ordered(Without(o)) /\ \E g : Heirs(Without(o), g, {o}) BY WithoutOrdered
<1>2. CASE rest = Without(o) BY <1>1, <1>2
<1>3. CASE rest = Without(o) \cup {Ownerless(o)}
  <2> DEFINE e == Ownerless(o)
  <2>1. PICK g : Heirs(Without(o), g, {o}) BY <1>1
  <2>2. o \in Ops /\ e.gone = TRUE /\ Kin(e, o)
    BY DEF SoundWrites, Ops, Ownerless, Kin, Like
  <2> HIDE DEF e
  <2> DEFINE k == [y \in rest |-> IF y \in Without(o) THEN g[y] ELSE o]
  <2>3. Heirs(rest, k, {o})
    BY <1>3, <2>1, <2>2 DEF Heirs, e
  <2>4. \A q : Awaited(rest, q) = Awaited(Without(o), q)
    BY <1>3, <2>2 DEF Awaited, e
  <2>5. Ordered(rest) BY <1>1, <1>3, <2>2, <2>4 DEF Ordered, e
  <2> QED BY <2>3, <2>5
<1> QED BY <1>2, <1>3 DEF Abandon

\* f makes of each write of D what it is now, in the place it had; what is newly
\* answered was the first to be, and an answer that is lost stays lost.  D is
\* everything but perhaps a write that nobody waits for.
InPlaces(D, f) ==
    /\ D \subseteq ops /\ (\A x \in ops : ~ x.gone => x \in D)
    /\ \A x \in D :
          /\ f[x].proc = x.proc /\ f[x].turn = x.turn /\ f[x].gone = x.gone
          /\ x.res = "lost" => f[x].res = "lost"
          /\ ~ x.gone /\ f[x].res # x.res =>
                \/ f[x].res = "lost" /\ x.res # "sent"
                \/ \A z \in ops : ~ z.gone /\ z.proc = x.proc /\ z # x =>
                      x.turn < z.turn \/ z.res = "lost"

\* Writes that stay in their places stay in order.
LEMMA PlacesOrdered ==
    ASSUME SoundWrites(ops), Ordered(ops), NEW D, NEW f, InPlaces(D, f),
           NEW T, T = {f[x] : x \in D}
    PROVE  Ordered(T)
<1> USE DEF InPlaces
<1>1. \A y \in T : \E x \in D : y = f[x] OBVIOUS
<1>2. \A x \in D : x \in ops /\ x \in Ops /\ x.turn \in Nat BY DEF SoundWrites, Ops
<1>3. \A x, z \in D : ~ x.gone /\ ~ z.gone /\ x.proc = z.proc /\ x # z =>
         x.turn # z.turn /\ (x.res # "sent" => x.turn < z.turn \/ z.res = "lost")
  BY <1>2 DEF Ordered
<1>4. ASSUME NEW q PROVE Cardinality(Awaited(T, q)) = Cardinality(Awaited(ops, q))
  <2> DEFINE A == Awaited(ops, q)
             B == Awaited(T, q)
             h == [x \in A |-> f[x]]
  <2>1. \A x \in A : x \in D /\ ~ x.gone /\ x.proc = q BY DEF Awaited
  <2>2. h \in [A -> B] BY <2>1 DEF Awaited
  <2>3. \A x, z \in A : h[x] = h[z] => x = z
    <3> SUFFICES ASSUME NEW x \in A, NEW z \in A, f[x] = f[z] PROVE x = z
      OBVIOUS
    <3>1. f[x].turn = x.turn /\ f[z].turn = z.turn BY <2>1
    <3> QED BY <1>3, <2>1, <3>1
  <2>4. \A y \in B : \E x \in A : h[x] = y
    <3> SUFFICES ASSUME NEW y \in B PROVE \E x \in A : f[x] = y
      OBVIOUS
    <3>1. y \in T /\ y.proc = q /\ ~ y.gone BY DEF Awaited
    <3>2. PICK x \in D : y = f[x] BY <1>1, <3>1
    <3>3. x \in A BY <1>2, <3>1, <3>2 DEF Awaited
    <3> QED BY <3>2, <3>3
  <2>5. A \in SUBSET ops BY DEF Awaited
  <2> HIDE DEF h, A, B
  <2>6. h \in Bijection(A, B) BY <2>2, <2>3, <2>4, Fun_IsBij
  <2>7. IsFiniteSet(A) BY <2>5, FS_Subset DEF SoundWrites
  <2>8. ExistsBijection(A, B) BY <2>6 DEF ExistsBijection
  <2> QED BY <2>7, <2>8, FS_Bijection DEF A, B
<1>5. ASSUME NEW x \in D, ~ f[x].gone
      PROVE  f[x].turn < Cardinality(Awaited(T, f[x].proc))
  <2>1. x.turn < Cardinality(Awaited(ops, x.proc)) BY <1>2, <1>5 DEF Ordered
  <2> QED BY <1>4, <2>1
<1>6. ASSUME NEW x \in D, NEW z \in D, ~ f[x].gone, ~ f[z].gone,
             f[z].proc = f[x].proc, f[z] # f[x]
      PROVE  f[x].turn # f[z].turn /\
             (f[x].res # "sent" => f[x].turn < f[z].turn \/ f[z].res = "lost")
  <2>1. x # z /\ ~ x.gone /\ ~ z.gone /\ x.proc = z.proc BY <1>6
  <2>2. x.turn # z.turn /\ (x.res # "sent" => x.turn < z.turn \/ z.res = "lost")
    BY <1>3, <2>1
  <2>3. f[x].res # x.res /\ x.res = "sent" => x.turn < z.turn \/ z.res = "lost"
    BY <1>2, <2>1
  <2>4. f[x].turn = x.turn /\ f[z].turn = z.turn /\ (z.res = "lost" => f[z].res = "lost")
    OBVIOUS
  <2> QED BY <2>2, <2>3, <2>4
<1>7. \A x \in T : ~ x.gone => x.turn < Cardinality(Awaited(T, x.proc)) BY <1>1, <1>5
<1>8. \A x, y \in T : ~ x.gone /\ ~ y.gone /\ y.proc = x.proc /\ y # x =>
         x.turn # y.turn /\ (x.res # "sent" => x.turn < y.turn \/ y.res = "lost")
  BY <1>1, <1>6
<1> QED BY <1>7, <1>8 DEF Ordered

-----------------------------------------------------------------------------
(* The inductive invariant.                                                *)

Asking(o) == ~ o.gone /\ o.kind \in {"create", "take"}
Renewing(o) == ~ o.gone /\ o.kind \in {"renew", "adopt"}
Deleting(o) == ~ o.gone /\ o.kind = "delete"

\* A delete that will be stored if nothing else is stored before it.
Deletes(o) == o.kind = "delete" /\ o.res = "sent" /\ o.current

\* The attempt has been granted the lock and its process has not let go of it.
Inside(a) == phase[a] \in {"working", "stopping", "releasing"}
Running(a) == phase[a] \in {"working", "stopping"}

\* A write fits the attempt it is for.
Fit(o) ==
    /\ o.res # "lost"
    /\ ~ o.gone => o.age <= TIMEOUT
    /\ o.kind \in {"create", "take", "renew", "adopt"} =>
           o.acq \in Attempts /\ at[o.acq] = o.proc
    /\ Asking(o) => o.by = o.acq /\ phase[o.acq] = "acquiring"
    /\ Renewing(o) => o.by = o.acq
    /\ Deleting(o) => /\ o.by \in Attempts
                      /\ phase[o.by] = "releasing" /\ at[o.by] = o.proc

WritesFit == \A o \in ops : Fit(o)

OneWriteEach ==
    /\ \A x, y \in ops : Asking(x) /\ Asking(y) /\ x.acq = y.acq => x = y
    /\ \A x, y \in ops : Deleting(x) /\ Deleting(y) /\ x.by = y.by => x = y
    /\ \A a \in Attempts :
          phase[a] = "releasing" => \E o \in ops : Deleting(o) /\ o.by = a

Alive ==
    \A a \in Attempts :
        /\ phase[a] = "idle" => at[a] = NoProc
        /\ phase[a] \in {"acquiring", "working", "stopping", "releasing"} =>
              at[a] \in Procs /\ proc[at[a]] # "dead"

\* A process is inside with one attempt, and that one is registered.
Solo ==
    /\ \A a \in Attempts : Running(a) => active[at[a]] = a
    /\ \A a, b \in Attempts : Inside(a) /\ Inside(b) /\ at[a] = at[b] => a = b

NamesItsPlace ==
    /\ entry.acq \in Attempts => at[entry.acq] = entry.proc
    /\ \A p \in Procs : local[p].acq \in Attempts =>
           at[local[p].acq] = p /\ Inside(local[p].acq)

\* An answer is no younger than the entry it is about.
AgesFit ==
    \A o \in ops : ~ o.gone /\ o.res = "ok" /\ entry.acq = o.acq
                     /\ o.kind \in {"create", "take", "renew", "adopt"}
                   => entry.age <= o.age

\* An attempt whose answer is on its way holds the entry, alone in its process,
\* and nobody is about to delete it.
Granted ==
    \A o \in ops : Asking(o) /\ o.res = "ok" =>
        /\ entry.acq = o.acq
        /\ \A a \in Attempts : Inside(a) => at[a] # o.proc
        /\ \A x \in ops : ~ Deletes(x)

\* Attempt a went inside after o was sent.
Since(o, a) ==
    Running(a) \/ \E d \in ops : Deleting(d) /\ d.by = a /\ d.turn > o.turn

\* An attempt that has asked, in a process another attempt of which went inside
\* since, meets that one's entry, which is young.
Window ==
    \A o \in ops, a \in Attempts :
        Asking(o) /\ Inside(a) /\ at[a] = o.proc /\ Since(o, a)
            => entry.acq = a /\ entry.age <= TIMEOUT + o.age

\* The entry of an attempt that is inside is deleted by that attempt only.
DeletesItsOwn ==
    \A x \in ops : Deletes(x) /\ entry.acq \in Attempts =>
        ~ Inside(entry.acq) \/ (Deleting(x) /\ x.by = entry.acq)

\* A working run holds the entry and remembers it, and is not past its fence.
WorksInTime ==
    \A a \in Attempts : Working(a) =>
        /\ entry.acq = a
        /\ local[at[a]].acq = a
        /\ entry.age <= local[at[a]].unproven
        /\ local[at[a]].unproven <= lockSelfFence

XInv ==
    /\ WritesFit /\ OneWriteEach /\ Ordered(ops)
    /\ Alive /\ Solo /\ NamesItsPlace
    /\ AgesFit /\ Granted /\ Window /\ DeletesItsOwn
    /\ WorksInTime

\* A write keeps its kind and its answer from heir to heir.
LEMMA HeirFacts ==
    ASSUME NEW T, NEW g, NEW R, Heirs(T, g, R), NEW y \in T, ops \subseteq Ops
    PROVE  /\ g[y] \in ops /\ y.kind = g[y].kind /\ y.proc = g[y].proc
           /\ y.acq = g[y].acq /\ y.res = g[y].res /\ y.current = g[y].current
           /\ ~ y.gone => /\ ~ g[y].gone /\ g[y] \notin R
                          /\ y.by = g[y].by /\ y.age = g[y].age
           /\ y.gone => g[y].gone \/ g[y] \in R
           /\ Asking(y) => Asking(g[y]) /\ g[y] \notin R
           /\ Deleting(y) => Deleting(g[y]) /\ g[y] \notin R
           /\ Deletes(y) <=> Deletes(g[y])
BY DEF Heirs, Kin, Like, Asking, Deleting, Deletes

\* A step that leaves the entry alone: the writes R are answered or given up, and
\* the writes N, at most one, are sent.
Queues(T, g, R, N) ==
    /\ entry' = entry
    /\ Heirs(T, g, R) /\ ops' = T \cup N /\ Ordered(ops)'
    /\ \A w, v \in N : w = v
    /\ \A w \in N : /\ ~ w.gone /\ w.res = "sent" /\ Fit(w)'
                    /\ \A y \in T : ~ y.gone /\ y.proc = w.proc => y.turn < w.turn

\* An attempt whose write is still on its way is where it was; one that asks does
\* so in a process where none runs; one that deletes was running and deletes its
\* own entry; one that comes in has been granted the entry.
Comings(R, N) ==
    /\ \A a \in Attempts : phase[a] # "idle" => at'[a] = at[a]
    /\ \A x \in ops : x \notin R /\ Asking(x) => phase'[x.acq] = phase[x.acq]
    /\ \A x \in ops : x \notin R /\ Deleting(x) => phase'[x.by] = phase[x.by]
    /\ \A a \in Attempts : phase'[a] = "releasing" =>
          \/ \E x \in ops : x \notin R /\ Deleting(x) /\ x.by = a
          \/ \E w \in N : Deleting(w) /\ w.by = a
    /\ \A w \in N : Asking(w) =>
          /\ \A x \in ops : x \notin R /\ Asking(x) => x.acq # w.acq
          /\ \A a \in Attempts : at'[a] = w.proc => ~ Running(a)'
    /\ \A w \in N : w.kind = "delete" =>
          /\ w.by \in Attempts => Running(w.by)
          /\ \A x \in ops : Deleting(x) => x.by # w.by
          /\ \A x \in ops : ~ (Asking(x) /\ x.res = "ok")
          /\ entry.acq \in Attempts => ~ Inside(entry.acq)' \/ w.by = entry.acq
    /\ \A x \in R : Deleting(x) => ~ Inside(x.by)'
    /\ \A a \in Attempts : Inside(a)' => Inside(a) \/
          /\ entry.acq = a /\ entry.age <= TIMEOUT
          /\ \A x \in ops : x \notin R => ~ (Asking(x) /\ x.res = "ok")
          /\ \A x \in ops : ~ Deletes(x)
    /\ \A a \in Attempts : Running(a)' => Running(a) \/ ~ Inside(a)

\* What a step that leaves the entry alone has to see to itself.
AtHome == Alive /\ Solo /\ NamesItsPlace /\ WorksInTime

\* A step that leaves the entry alone and lets its writes through keeps the rest.
LEMMA QuietExclusion ==
    ASSUME IInv, XInv, IInv', NEW T, NEW g, NEW R, NEW N,
           Queues(T, g, R, N), Comings(R, N), AtHome'
    PROVE  XInv'
<1> USE DEF Queues, Comings, AtHome
<1>0. /\ ops \subseteq Ops /\ ops' \subseteq Ops /\ entry \in Entries
      /\ \A a \in Attempts : at[a] \in Procs => phase[a] # "idle"
  BY LockAssumption DEF IInv, XInv, TypeOK, SoundWrites, Alive
<1>1. WritesFit'
  <2> SUFFICES ASSUME NEW y \in T PROVE Fit(y)'
    BY DEF WritesFit
  <2> DEFINE x == g[y]
  <2>1. /\ x \in ops /\ y.kind = x.kind /\ y.proc = x.proc /\ y.acq = x.acq
        /\ y.res = x.res
        /\ ~ y.gone => ~ x.gone /\ x \notin R /\ y.by = x.by /\ y.age = x.age
    BY <1>0, HeirFacts
  <2>2. Fit(x) /\ x.proc \in Procs BY <1>0, <2>1 DEF XInv, WritesFit, Ops
  <2> HIDE DEF x
  <2> QED BY <1>0, <2>1, <2>2 DEF Fit, Asking, Renewing, Deleting
<1>2. OneWriteEach'
  <2>1. ASSUME NEW y \in ops', NEW z \in ops', Asking(y), Asking(z), y.acq = z.acq
        PROVE  y = z
    <3>1. CASE y \in T /\ z \in T
      <4>1. Asking(g[y]) /\ Asking(g[z]) /\ g[y].acq = g[z].acq /\ g[y] \in ops /\ g[z] \in ops
        BY <1>0, <2>1, <3>1, HeirFacts
      <4>2. g[y] = g[z] BY <4>1 DEF XInv, OneWriteEach
      <4> QED BY <2>1, <3>1, <4>2 DEF Heirs, Asking
    <3>2. CASE y \in T /\ z \in N BY <1>0, <2>1, <3>2, HeirFacts
    <3>3. CASE y \in N /\ z \in T BY <1>0, <2>1, <3>3, HeirFacts
    <3> QED BY <3>1, <3>2, <3>3
  <2>2. ASSUME NEW y \in ops', NEW z \in ops', Deleting(y), Deleting(z), y.by = z.by
        PROVE  y = z
    <3>1. CASE y \in T /\ z \in T
      <4>1. /\ Deleting(g[y]) /\ Deleting(g[z]) /\ g[y].by = g[z].by
            /\ g[y] \in ops /\ g[z] \in ops
        BY <1>0, <2>2, <3>1, HeirFacts DEF Deleting
      <4>2. g[y] = g[z] BY <4>1 DEF XInv, OneWriteEach
      <4> QED BY <2>2, <3>1, <4>2 DEF Heirs, Deleting
    <3>2. CASE y \in T /\ z \in N BY <1>0, <2>2, <3>2, HeirFacts DEF Deleting
    <3>3. CASE y \in N /\ z \in T BY <1>0, <2>2, <3>3, HeirFacts DEF Deleting
    <3> QED BY <3>1, <3>2, <3>3
  <2>3. ASSUME NEW a \in Attempts, phase'[a] = "releasing"
        PROVE  \E o \in ops' : Deleting(o) /\ o.by = a
    <3>1. CASE \E x \in ops : x \notin R /\ Deleting(x) /\ x.by = a
      <4>1. PICK x \in ops : x \notin R /\ Deleting(x) /\ x.by = a BY <3>1
      <4>2. PICK y \in T : ~ y.gone /\ g[y] = x BY <4>1 DEF Heirs, Deleting
      <4>3. Deleting(y) /\ y.by = a BY <1>0, <4>1, <4>2, HeirFacts DEF Deleting
      <4> QED BY <4>3
    <3>2. CASE \E w \in N : Deleting(w) /\ w.by = a BY <3>2
    <3> QED BY <2>3, <3>1, <3>2
  <2> QED BY <2>1, <2>2, <2>3 DEF OneWriteEach, Asking, Deleting
<1>3. AgesFit'
  BY <1>0, HeirFacts DEF XInv, AgesFit
<1>4. Granted'
  <2> SUFFICES ASSUME NEW y \in ops', Asking(y), y.res = "ok"
               PROVE  /\ entry.acq = y.acq
                      /\ \A a \in Attempts : Inside(a)' => at'[a] # y.proc
                      /\ \A x \in ops' : ~ Deletes(x)
    BY DEF Granted, Asking, Deletes
  <2>1. y \in T OBVIOUS
  <2> DEFINE u == g[y]
  <2>2. u \in ops /\ u \notin R /\ Asking(u) /\ u.res = "ok" /\ u.acq = y.acq /\ u.proc = y.proc
    BY <1>0, <2>1, HeirFacts
  <2> HIDE DEF u
  <2>3. /\ entry.acq = u.acq
        /\ \A a \in Attempts : Inside(a) => at[a] # u.proc
        /\ \A x \in ops : ~ Deletes(x)
    BY <2>2 DEF XInv, Granted
  <2>4. \A a \in Attempts : Inside(a)' => at'[a] # y.proc
    BY <2>2, <2>3 DEF Inside
  <2>5. \A x \in ops' : ~ Deletes(x)
    BY <1>0, <2>2, <2>3, HeirFacts DEF Deletes
  <2> QED BY <2>2, <2>3, <2>4, <2>5
<1>5. Window'
  <2> SUFFICES ASSUME NEW y \in ops', NEW a \in Attempts,
                      Asking(y), Inside(a)', at'[a] = y.proc, Since(y, a)'
               PROVE  entry.acq = a /\ entry.age <= TIMEOUT + y.age
    BY DEF Window, Asking
  <2>0. y.age \in Nat /\ y.turn \in Nat /\ TIMEOUT \in Nat /\ entry.age \in Nat
    BY <1>0, LockAssumption DEF Ops, Ages, Entries
  <2>1. CASE y \in N
    <3>1. ~ Running(a)' BY <2>1
    <3>2. PICK d \in ops' : Deleting(d) /\ d.by = a /\ d.turn > y.turn
      BY <3>1 DEF Since, Deleting
    <3>3. d \in T BY <2>1, <3>2 DEF Asking, Deleting
    <3>4. Fit(d)' /\ d.proc = y.proc
      BY <1>1, <3>2 DEF WritesFit, Fit, Deleting
    <3>5. d.turn < y.turn /\ d.turn \in Nat BY <1>0, <2>1, <3>2, <3>3, <3>4 DEF Deleting, Ops
    <3> QED BY <2>0, <3>2, <3>5
  <2>2. CASE y \in T /\ ~ Inside(a) BY <2>0, <2>2
  <2>3. CASE y \in T /\ Inside(a)
    <3> DEFINE u == g[y]
    <3>1. /\ u \in ops /\ u \notin R /\ Asking(u) /\ u.proc = y.proc /\ u.age = y.age
      BY <1>0, <2>3, HeirFacts DEF Asking
    <3> HIDE DEF u
    <3>2. at[a] = u.proc BY <2>3, <3>1 DEF Inside
    <3>3. Since(u, a)
      <4>1. CASE Running(a)' BY <2>3, <4>1 DEF Since
      <4>2. CASE \E d \in ops' : Deleting(d) /\ d.by = a /\ d.turn > y.turn
        <5>1. PICK d \in ops' : Deleting(d) /\ d.by = a /\ d.turn > y.turn BY <4>2
        <5>2. CASE d \in N BY <5>1, <5>2 DEF Since, Deleting
        <5>3. CASE d \in T
          <6>1. Fit(d)' /\ d.proc = y.proc
            BY <1>1, <5>1 DEF WritesFit, Fit, Deleting
          <6>2. g[d] \in ops /\ Deleting(g[d]) /\ g[d].by = a
            BY <1>0, <5>1, <5>3, HeirFacts DEF Deleting
          <6>3. g[d].turn > u.turn
            BY <2>3, <5>1, <5>3, <6>1 DEF Heirs, Asking, Deleting, u
          <6> QED BY <6>2, <6>3 DEF Since
        <5> QED BY <5>2, <5>3
      <4> QED BY <4>1, <4>2 DEF Since, Deleting
    <3> QED BY <2>3, <3>1, <3>2, <3>3 DEF XInv, Window
  <2> QED BY <2>1, <2>2, <2>3
<1>6. DeletesItsOwn'
  <2> SUFFICES ASSUME NEW y \in ops', Deletes(y), entry.acq \in Attempts, Inside(entry.acq)'
               PROVE  Deleting(y) /\ y.by = entry.acq
    BY DEF DeletesItsOwn, Deletes, Deleting
  <2>1. CASE y \in N BY <2>1 DEF Deletes, Deleting
  <2>2. CASE y \in T
    <3> DEFINE u == g[y]
    <3>1. /\ u \in ops /\ Deletes(u) /\ (y.gone => u.gone \/ u \in R)
          /\ ~ y.gone => y.by = u.by
      BY <1>0, <2>2, HeirFacts
    <3> HIDE DEF u
    <3>2. Inside(entry.acq) BY <3>1
    <3>3. Deleting(u) /\ u.by = entry.acq
      BY <3>1, <3>2 DEF XInv, DeletesItsOwn
    <3>4. ~ y.gone BY <3>1, <3>3 DEF Deleting
    <3> QED BY <3>1, <3>3, <3>4 DEF Deleting, Deletes
  <2> QED BY <2>1, <2>2
<1> QED BY <1>1, <1>2, <1>3, <1>4, <1>5, <1>6 DEF XInv

-----------------------------------------------------------------------------
(* Renewals, stops and starts: nobody comes or goes.                       *)

\* Runs may be told to stop; nothing else happens to any attempt.
OnlyStops ==
    \A a \in Attempts : phase'[a] = phase[a]
                        \/ (phase[a] = "working" /\ phase'[a] = "stopping")

\* A step in which nobody asks for the lock, is granted it or lets go of it.
LEMMA RenewalSide ==
    ASSUME IInv, XInv, IInv', at' = at, active' = active,
           NEW T, NEW g, NEW R, NEW N, Queues(T, g, R, N),
           \A w \in N : w.kind \in {"renew", "adopt", "reclaim"},
           \A x \in R : x \in ops /\ ~ Asking(x) /\ ~ Deleting(x),
           OnlyStops,
           \A p \in Procs : proc'[p] = "dead" => proc[p] = "dead",
           NamesItsPlace', WorksInTime'
    PROVE  XInv'
<1>1. \A a \in Attempts : (Inside(a)' <=> Inside(a)) /\ (Running(a)' <=> Running(a))
                          /\ (phase'[a] = "releasing" <=> phase[a] = "releasing")
  BY DEF OnlyStops, Inside, Running
<1>2. /\ \A x \in ops : Asking(x) => x.acq \in Attempts /\ phase[x.acq] = "acquiring"
      /\ \A x \in ops : Deleting(x) => x.by \in Attempts /\ phase[x.by] = "releasing"
  BY DEF XInv, WritesFit, Fit, Asking
<1>3. /\ \A x \in ops : Asking(x) => phase'[x.acq] = phase[x.acq]
      /\ \A x \in ops : Deleting(x) => phase'[x.by] = phase[x.by]
  BY <1>2 DEF OnlyStops
<1>4. Alive' BY DEF XInv, Alive, OnlyStops
<1>5. Solo' BY <1>1 DEF XInv, Solo
<1>6. \A w \in N : ~ Asking(w) /\ ~ Deleting(w) /\ w.kind # "delete"
  BY DEF Asking, Deleting
<1>7. \A a \in Attempts : phase'[a] = "releasing" =>
         \E x \in ops : x \notin R /\ Deleting(x) /\ x.by = a
  BY <1>1 DEF XInv, OneWriteEach
<1>8. Comings(R, N) BY <1>1, <1>3, <1>6, <1>7 DEF Comings
<1>9. AtHome' BY <1>4, <1>5 DEF AtHome
<1> QED BY <1>8, <1>9, QuietExclusion

\* A process that remembers the same and works no more runs is no worse off.
LEMMA StillInTime ==
    ASSUME XInv, entry' = entry, at' = at, local' = local, OnlyStops
    PROVE  NamesItsPlace' /\ WorksInTime'
BY DEF XInv, NamesItsPlace, WorksInTime, OnlyStops, Inside, Working

\* Telling one run to stop.
LEMMA AbortStops ==
    ASSUME IInv, phase' = phase \/ \E a : Abort(a)
    PROVE  OnlyStops
BY DEF IInv, TypeOK, OnlyStops, Abort

\* The fence and a Stop.
LEMMA StopExcludes ==
    ASSUME IInv, XInv, IInv', NEW a \in Attempts, SelfFence(a) \/ Interrupt(a)
    PROVE  XInv'
<1>1. /\ UNCHANGED <<entry, proc, local, active, at, ops, forced, lost>>
      /\ Abort(a)
  BY DEF SelfFence, Interrupt
<1>2. OnlyStops BY <1>1, AbortStops
<1>3. NamesItsPlace' /\ WorksInTime' BY <1>1, <1>2, StillInTime
<1>4. Heirs(ops, [x \in ops |-> x], {}) BY OwnHeirs
<1>5. Ordered(ops)' BY <1>1 DEF XInv, Ordered, Awaited
<1>6. Queues(ops, [x \in ops |-> x], {}, {}) BY <1>1, <1>4, <1>5 DEF Queues
<1> QED BY <1>1, <1>2, <1>3, <1>6, RenewalSide

\* The write o, sent as w behind the writes T.
Joins(w, T, o) ==
    /\ w \in Ops /\ ops' = T \cup {w} /\ Ordered(ops)'
    /\ w.kind = o.kind /\ w.proc = o.proc /\ w.acq = o.acq /\ w.by = o.by
    /\ w.age = o.age /\ w.res = "sent" /\ w.current = o.current /\ ~ w.gone
    /\ \A y \in T : ~ y.gone /\ y.proc = w.proc => y.turn < w.turn

\* Sending from a queue in order.
LEMMA SendOne ==
    ASSUME NEW T, T \subseteq Ops, IsFiniteSet(T), Ordered(T),
           NEW o \in Ops, ~ o.gone, o.res = "sent", ops' = Sending(T, o)
    PROVE  \E w : Joins(w, T, o)
<1>1. PICK w \in Ops :
          /\ Sending(T, o) = T \cup {w} /\ Ordered(T \cup {w})
          /\ Like(w, o) /\ w.by = o.by /\ w.age = o.age /\ ~ w.gone
          /\ \A y \in T : ~ y.gone /\ y.proc = w.proc => y.turn < w.turn
  BY SendingOrdered
<1>2. Ordered(ops)' BY <1>1 DEF Ordered, Awaited
<1> QED BY <1>1, <1>2 DEF Like, Joins

\* A renewal is sent.
LEMMA RenewExcludes ==
    ASSUME IInv, XInv, IInv', NEW a \in Attempts, Renew(a)
    PROVE  XInv'
<1> USE DEF Renew
<1> DEFINE p == at[a]
           c == local[p].acq
           o == [Write("renew", p, c, a, 0) EXCEPT !.current = local[p].current]
<1>1. p \in Procs BY DEF IInv, Placed
<1>2. local[p] \in Memories /\ c \in Attempts
  BY <1>1 DEF IInv, TypeOK, Memories, Acqs
<1>3. c = a
  <2>1. at[c] = p /\ Inside(c) BY <1>1, <1>2 DEF XInv, NamesItsPlace
  <2>2. Inside(a) BY DEF Inside
  <2> QED BY <1>2, <2>1, <2>2 DEF XInv, Solo
<1>4. Write("renew", p, c, a, 0) \in Ops
  BY <1>1, <1>2, LockAssumption, WriteTyped DEF Acqs, Ages
<1>5. /\ o \in Ops /\ ~ o.gone /\ o.res = "sent" /\ o.kind = "renew" /\ o.proc = p
      /\ o.acq = c /\ o.by = a /\ o.age = 0
  BY <1>2, <1>4 DEF Ops, Memories, Write
<1>6. ops' = Sending(ops, o) OBVIOUS
<1> HIDE DEF o
<1>7. ops \subseteq Ops /\ IsFiniteSet(ops) /\ Ordered(ops)
  BY DEF IInv, SoundWrites, XInv
<1>8. PICK w : Joins(w, ops, o) BY <1>5, <1>6, <1>7, SendOne
<1>9. Fit(w)' /\ w.kind = "renew"
  BY <1>1, <1>3, <1>5, <1>8, LockAssumption DEF Joins, Fit, Asking, Renewing, Deleting
<1>10. OnlyStops BY AbortStops
<1>11. NamesItsPlace' /\ WorksInTime' BY <1>10, StillInTime
<1>12. Heirs(ops, [x \in ops |-> x], {}) BY OwnHeirs
<1>13. Queues(ops, [x \in ops |-> x], {}, {w}) BY <1>8, <1>9, <1>12 DEF Joins, Queues
<1> QED BY <1>9, <1>10, <1>11, <1>13, RenewalSide


\* A write is answered or given up.
LEMMA GivesUp ==
    ASSUME IInv, XInv, NEW o \in ops, ~ o.gone, entry' = entry, ops' \in Abandon(o)
    PROVE  \E g : Queues(ops', g, {o}, {})
<1>1. Ordered(ops') /\ \E g : Heirs(ops', g, {o})
  BY AbandonOrdered DEF IInv, XInv
<1>2. Ordered(ops)' BY <1>1 DEF Ordered, Awaited
<1> QED BY <1>1, <1>2 DEF Queues

\* A write is answered or given up, and another one is sent.
LEMMA GivesUpAndSends ==
    ASSUME IInv, XInv, NEW o \in ops, ~ o.gone, entry' = entry,
           NEW t \in Ops, ~ t.gone, t.res = "sent",
           NEW rest \in Abandon(o), ops' = Sending(rest, t)
    PROVE  \E g, w : Joins(w, rest, t) /\ (Fit(w)' => Queues(rest, g, {o}, {w}))
<1>1. Ordered(rest) /\ \E g : Heirs(rest, g, {o})
  BY AbandonOrdered DEF IInv, XInv
<1>2. rest \subseteq Ops /\ IsFiniteSet(rest)
  BY AbandonSound DEF IInv, SoundWrites
<1>3. PICK w : Joins(w, rest, t) BY <1>1, <1>2, SendOne
<1>4. PICK g : Heirs(rest, g, {o}) BY <1>1
<1>5. Fit(w)' => Queues(rest, g, {o}, {w}) BY <1>3, <1>4 DEF Joins, Queues
<1> QED BY <1>3, <1>5

\* Nothing is left of a write that was answered.
LEMMA AnswerGivesUp ==
    ASSUME NEW o
    PROVE  Without(o) \in Abandon(o)
BY DEF Abandon

\* An exchange is over before the fence.
LEMMA FenceAfterTimeout ==
    /\ TIMEOUT <= lockSelfFence /\ lockSelfFence \in Nat
    /\ lockSelfFence + REFRESH <= DEAD /\ lockSelfFence < TTL
BY LockAssumption DEF lockSelfFence, lockProofDeadline, Smaller

\* A renewal counts from when it was stamped, which is before it was stored.
LEMMA RenewedExcludes ==
    ASSUME IInv, XInv, IInv', NEW o \in ops, Renewed(o)
    PROVE  XInv'
<1> USE DEF Renewed
<1>0. o \in Ops /\ Fit(o) /\ ~ o.gone /\ o.res = "ok" /\ ~ Asking(o) /\ ~ Deleting(o)
  BY DEF IInv, SoundWrites, XInv, WritesFit, Answered, Asking, Deleting
<1>1. PICK g : Queues(ops', g, {o}, {})
  BY <1>0, GivesUp, AnswerGivesUp DEF Answered
<1>2. OnlyStops
  <2>1. phase' = phase \/ Abort(o.by) OBVIOUS
  <2> QED BY <2>1, AbortStops
<1>3. NamesItsPlace' /\ WorksInTime'
  <2>1. CASE UNCHANGED local BY <1>2, <2>1, StillInTime
  <2>2. CASE /\ local[o.proc].acq = o.acq
             /\ local' = [local EXCEPT ![o.proc] =
                   [@ EXCEPT !.current = o.current, !.unproven = o.age]]
    <3>1. /\ \A p \in Procs : local'[p].acq = local[p].acq
          /\ \A p \in Procs : p # o.proc => local'[p] = local[p]
          /\ local'[o.proc].unproven = o.age /\ o.proc \in Procs
      BY <1>0, <2>2 DEF IInv, TypeOK, Memories, Ops
    <3>2. NamesItsPlace' BY <1>2, <3>1 DEF XInv, NamesItsPlace, OnlyStops, Inside
    <3>3. ASSUME NEW a \in Attempts, Working(a)'
          PROVE  /\ entry.acq = a /\ local'[at[a]].acq = a
                 /\ entry.age <= local'[at[a]].unproven
                 /\ local'[at[a]].unproven <= lockSelfFence
      <4>1. Working(a) BY <1>2, <3>3 DEF OnlyStops, Working
      <4>2. at[a] \in Procs BY <4>1 DEF XInv, Alive, Working
      <4>3. /\ entry.acq = a /\ local[at[a]].acq = a
            /\ entry.age <= local[at[a]].unproven
            /\ local[at[a]].unproven <= lockSelfFence
        BY <4>1 DEF XInv, WorksInTime
      <4>4. CASE at[a] # o.proc BY <3>1, <4>2, <4>3, <4>4
      <4>5. CASE at[a] = o.proc
        <5>1. entry.acq = o.acq BY <2>2, <4>3, <4>5
        <5>2. entry.age <= o.age BY <1>0, <5>1 DEF XInv, AgesFit
        <5>3. o.age <= lockSelfFence
          BY <1>0, FenceAfterTimeout, LockAssumption DEF Fit, Ops, Ages
        <5> QED BY <3>1, <4>3, <4>5, <5>2, <5>3
      <4> QED BY <4>4, <4>5
    <3>4. WorksInTime' BY <3>3 DEF WorksInTime
    <3> QED BY <3>2, <3>4
  <2> QED BY <2>1, <2>2 DEF ProvenSince
<1> QED BY <1>0, <1>1, <1>2, <1>3, RenewalSide

\* A run that lost the lock is told to stop before its process forgets it.
LEMMA LoseLockInTime ==
    ASSUME IInv, XInv, entry' = entry, at' = at, NEW o \in ops,
           ~ o.gone, o.kind \in {"renew", "adopt"}, LoseLock(o)
    PROVE  OnlyStops /\ NamesItsPlace' /\ WorksInTime'
<1>0. o \in Ops /\ Fit(o) /\ o.by = o.acq /\ o.acq \in Attempts /\ o.proc \in Procs
  BY DEF IInv, SoundWrites, XInv, WritesFit, Fit, Renewing, Ops
<1>1. OnlyStops BY AbortStops DEF LoseLock
<1>2. CASE UNCHANGED local BY <1>1, <1>2, StillInTime
<1>3. CASE local[o.proc].acq = o.acq /\ forgetLock(o.proc)
  <2>1. /\ \A p \in Procs : p # o.proc => local'[p] = local[p]
        /\ local'[o.proc].acq \notin Attempts
    BY <1>0, <1>3, LockAssumption DEF forgetLock, Forgotten, IInv, TypeOK
  <2>2. NamesItsPlace' BY <1>1, <2>1 DEF XInv, NamesItsPlace, OnlyStops, Inside
  <2>3. ~ Working(o.acq)'
    BY <1>0 DEF LoseLock, Abort, Working, IInv, TypeOK
  <2>4. ASSUME NEW a \in Attempts, Working(a)' PROVE Working(a) /\ at[a] \in Procs \ {o.proc}
    <3>1. Working(a) BY <1>1, <2>4 DEF OnlyStops, Working
    <3>2. at[a] \in Procs BY <3>1 DEF XInv, Alive, Working
    <3>3. local[at[a]].acq = a BY <3>1 DEF XInv, WorksInTime
    <3> QED BY <1>3, <2>3, <2>4, <3>1, <3>2, <3>3
  <2>5. WorksInTime' BY <2>1, <2>4 DEF XInv, WorksInTime
  <2> QED BY <1>1, <2>2, <2>5
<1> QED BY <1>2, <1>3 DEF LoseLock

\* A renewal or an adoption is refused.
LEMMA ConflictExcludes ==
    ASSUME IInv, XInv, IInv', NEW o \in ops, RenewalConflict(o) \/ AdoptionConflict(o)
    PROVE  XInv'
<1>0. /\ o \in Ops /\ Fit(o) /\ ~ o.gone /\ o.kind \in {"renew", "adopt"}
      /\ ~ Asking(o) /\ ~ Deleting(o)
      /\ UNCHANGED <<entry, proc, active, at, forced, lost>>
  BY DEF IInv, SoundWrites, XInv, WritesFit, RenewalConflict, AdoptionConflict,
     Answered, Asking, Deleting
<1>1. CASE ops' = Without(o) /\ LoseLock(o)
  <2>1. PICK g : Queues(ops', g, {o}, {}) BY <1>0, <1>1, GivesUp, AnswerGivesUp
  <2>2. OnlyStops /\ NamesItsPlace' /\ WorksInTime' BY <1>0, <1>1, LoseLockInTime
  <2> QED BY <1>0, <2>1, <2>2, RenewalSide
<1>2. CASE /\ ops' = Sending(Without(o), Write("adopt", o.proc, o.acq, o.by, o.age))
           /\ UNCHANGED <<local, phase>>
  <2> DEFINE t == Write("adopt", o.proc, o.acq, o.by, o.age)
  <2>1. t \in Ops BY <1>0, WriteTyped DEF Ops
  <2>2. /\ t.kind = "adopt" /\ t.proc = o.proc /\ t.acq = o.acq /\ t.by = o.by
        /\ t.age = o.age /\ ~ t.gone /\ t.res = "sent"
    BY DEF Write
  <2> HIDE DEF t
  <2>3. PICK g, w : Joins(w, Without(o), t) /\ (Fit(w)' => Queues(Without(o), g, {o}, {w}))
    BY <1>0, <1>2, <2>1, <2>2, GivesUpAndSends, AnswerGivesUp DEF t
  <2>4. Fit(w)' /\ w.kind = "adopt"
    BY <1>0, <2>2, <2>3 DEF Joins, Fit, Asking, Renewing, Deleting
  <2>5. Queues(Without(o), g, {o}, {w}) BY <2>3, <2>4
  <2>6. OnlyStops BY <1>2, AbortStops
  <2>7. NamesItsPlace' /\ WorksInTime' BY <1>0, <1>2, <2>6, StillInTime
  <2> QED BY <1>0, <2>4, <2>5, <2>6, <2>7, RenewalSide
<1> QED BY <1>1, <1>2 DEF RenewalConflict, AdoptionConflict, Answered

\* A renewal is given up.
LEMMA RenewalFailedExcludes ==
    ASSUME IInv, XInv, IInv', NEW o \in ops, RenewalFailed(o)
    PROVE  XInv'
<1> USE DEF RenewalFailed
<1>0. ~ o.gone /\ ~ Asking(o) /\ ~ Deleting(o)
  BY DEF TimedOut, Asking, Deleting
<1>1. PICK g : Queues(ops', g, {o}, {}) BY <1>0, GivesUp DEF TimedOut
<1>2. OnlyStops
  <2>1. phase' = phase \/ Abort(o.by) OBVIOUS
  <2> QED BY <2>1, AbortStops
<1>3. NamesItsPlace' /\ WorksInTime' BY <1>2, StillInTime
<1> QED BY <1>0, <1>1, <1>2, <1>3, RenewalSide

\* The hand-back is over.
LEMMA ReclaimedExcludes ==
    ASSUME IInv, XInv, IInv', NEW o \in ops, Reclaimed(o)
    PROVE  XInv'
<1> USE DEF Reclaimed
<1>0. ~ o.gone /\ ~ Asking(o) /\ ~ Deleting(o)
  BY DEF TimedOut, Asking, Deleting
<1>1. PICK g : Queues(ops', g, {o}, {}) BY <1>0, GivesUp DEF TimedOut
<1>2. OnlyStops BY AbortStops
<1>3. NamesItsPlace' /\ WorksInTime' BY <1>2, StillInTime
<1>4. \A p \in Procs : proc'[p] = "dead" => proc[p] = "dead" BY DEF IInv, TypeOK
<1> QED BY <1>0, <1>1, <1>2, <1>3, <1>4, RenewalSide

\* A process starts.
LEMMA StartExcludes ==
    ASSUME IInv, XInv, IInv', NEW p \in Procs, Start(p)
    PROVE  XInv'
<1> USE DEF Start
<1>1. OnlyStops BY AbortStops
<1>2. NamesItsPlace' /\ WorksInTime' BY <1>1, StillInTime
<1>3. \A q \in Procs : proc'[q] = "dead" => proc[q] = "dead" BY DEF IInv, TypeOK
<1>4. Heirs(ops, [x \in ops |-> x], {}) BY OwnHeirs
<1>5. CASE UNCHANGED ops
  <2>1. Ordered(ops)' BY <1>5 DEF XInv, Ordered, Awaited
  <2>2. Queues(ops, [x \in ops |-> x], {}, {}) BY <1>4, <1>5, <2>1 DEF Queues
  <2> QED BY <1>1, <1>2, <1>3, <2>2, RenewalSide
<1>6. CASE ops' = Sending(ops, Write("reclaim", p, entry.acq, NoAttempt, 0))
  <2> DEFINE t == Write("reclaim", p, entry.acq, NoAttempt, 0)
  <2>1. t \in Ops
    BY LockAssumption, WriteTyped DEF IInv, TypeOK, Entries, Acqs, Ages
  <2>2. t.kind = "reclaim" /\ t.age = 0 /\ ~ t.gone /\ t.res = "sent" BY DEF Write
  <2> HIDE DEF t
  <2>3. ops \subseteq Ops /\ IsFiniteSet(ops) /\ Ordered(ops)
    BY DEF IInv, SoundWrites, XInv
  <2>4. PICK w : Joins(w, ops, t) BY <1>6, <2>1, <2>2, <2>3, SendOne DEF t
  <2>5. Fit(w)' /\ w.kind = "reclaim"
    BY <2>2, <2>4, LockAssumption DEF Joins, Fit, Asking, Renewing, Deleting
  <2>6. Queues(ops, [x \in ops |-> x], {}, {w}) BY <1>4, <2>4, <2>5 DEF Joins, Queues
  <2> QED BY <1>1, <1>2, <1>3, <2>5, <2>6, RenewalSide
<1> QED BY <1>5, <1>6

-----------------------------------------------------------------------------
(* Asking for the lock.                                                    *)

\* An attempt that asks, and one that deletes, is in no other phase.
LEMMA AskersAndDeleters ==
    ASSUME XInv
    PROVE  /\ \A x \in ops : Asking(x) => /\ x.acq \in Attempts /\ x.by = x.acq
                                          /\ phase[x.acq] = "acquiring"
                                          /\ at[x.acq] = x.proc /\ x.age <= TIMEOUT
           /\ \A x \in ops : Deleting(x) => /\ x.by \in Attempts
                                            /\ phase[x.by] = "releasing"
                                            /\ at[x.by] = x.proc
BY DEF XInv, WritesFit, Fit, Asking, Deleting

\* Asking for the lock, in a process that has no run registered.
LEMMA BeginAcquireExcludes ==
    ASSUME IInv, XInv, IInv', NEW a \in Attempts, NEW p \in Procs, BeginAcquire(a, p)
    PROVE  XInv'
<1> USE DEF BeginAcquire
<1> DEFINE t == Write("create", p, a, a, 0)
<1>1. t \in Ops BY LockAssumption, WriteTyped DEF Acqs, Ages
<1>2. /\ t.kind = "create" /\ t.proc = p /\ t.acq = a /\ t.by = a /\ t.age = 0
      /\ ~ t.gone /\ t.res = "sent"
  BY DEF Write
<1>3. ops' = Sending(ops, t) OBVIOUS
<1> HIDE DEF t
<1>4. ops \subseteq Ops /\ IsFiniteSet(ops) /\ Ordered(ops)
  BY DEF IInv, SoundWrites, XInv
<1>5. PICK w : Joins(w, ops, t) BY <1>1, <1>2, <1>3, <1>4, SendOne
<1>6. /\ \A b \in Attempts : /\ phase'[b] = IF b = a THEN "acquiring" ELSE phase[b]
                             /\ at'[b] = IF b = a THEN p ELSE at[b]
  BY DEF IInv, TypeOK
<1>7. \A b \in Attempts : (Inside(b)' <=> Inside(b)) /\ (Running(b)' <=> Running(b))
                          /\ (Inside(b) => b # a)
                          /\ (phase'[b] = "releasing" <=> phase[b] = "releasing")
  BY <1>6 DEF Inside, Running
<1>8. Fit(w)' /\ w.kind = "create" /\ w.acq = a /\ w.proc = p
  BY <1>2, <1>5, <1>6, LockAssumption DEF Joins, Fit, Asking, Renewing, Deleting
<1>9. Queues(ops, [x \in ops |-> x], {}, {w})
  BY <1>5, <1>8, OwnHeirs DEF Joins, Queues
<1>10. Comings({}, {w})
  <2>1. \A x \in ops : Asking(x) => x.acq # a /\ phase'[x.acq] = phase[x.acq]
    BY <1>6, AskersAndDeleters
  <2>2. \A x \in ops : Deleting(x) => phase'[x.by] = phase[x.by]
    BY <1>6, AskersAndDeleters
  <2>3. \A b \in Attempts : phase'[b] = "releasing" =>
           \E x \in ops : Deleting(x) /\ x.by = b
    BY <1>7 DEF XInv, OneWriteEach
  <2>4. \A b \in Attempts : at'[b] = p => ~ Running(b)'
    BY <1>6, <1>7, LockAssumption DEF XInv, Solo, Running
  <2>5. ~ Deleting(w) /\ w.kind # "delete" BY <1>8 DEF Deleting
  <2> QED BY <1>6, <1>7, <1>8, <2>1, <2>2, <2>3, <2>4, <2>5 DEF Comings
<1>11. AtHome'
  <2>1. Alive' BY <1>6, LockAssumption DEF XInv, Alive
  <2>2. Solo' BY <1>6, <1>7 DEF XInv, Solo, Running, Inside
  <2>3. entry.acq # a
    BY LockAssumption DEF XInv, NamesItsPlace, Alive, IInv, Started, Free
  <2>4. NamesItsPlace' BY <1>6, <1>7, <2>3 DEF XInv, NamesItsPlace
  <2>5. WorksInTime' BY <1>6 DEF XInv, WorksInTime, Working
  <2> QED BY <2>1, <2>2, <2>4, <2>5 DEF AtHome
<1> QED BY <1>9, <1>10, <1>11, QuietExclusion

\* The attempt is over; nobody learns whether its write will be stored.
LEMMA AskerLeaves ==
    ASSUME IInv, XInv, IInv', NEW o \in ops, Asking(o), ops' \in Abandon(o),
           phase' = [phase EXCEPT ![o.acq] = "done"],
           UNCHANGED <<entry, proc, local, active, at>>
    PROVE  XInv'
<1>1. /\ o.acq \in Attempts /\ phase[o.acq] = "acquiring" BY AskersAndDeleters
<1>2. \A b \in Attempts : phase'[b] = IF b = o.acq THEN "done" ELSE phase[b]
  BY DEF IInv, TypeOK
<1>3. \A b \in Attempts : (Inside(b)' <=> Inside(b)) /\ (Running(b)' <=> Running(b))
                          /\ (phase'[b] = "releasing" <=> phase[b] = "releasing")
  BY <1>1, <1>2 DEF Inside, Running
<1>4. PICK g : Queues(ops', g, {o}, {}) BY GivesUp DEF Asking
<1>5. Comings({o}, {})
  <2>1. \A x \in ops : x # o /\ Asking(x) => phase'[x.acq] = phase[x.acq]
    BY <1>2, AskersAndDeleters DEF XInv, OneWriteEach
  <2>2. \A x \in ops : Deleting(x) => phase'[x.by] = phase[x.by] /\ x # o
    BY <1>1, <1>2, AskersAndDeleters DEF Asking, Deleting
  <2>3. \A b \in Attempts : phase'[b] = "releasing" =>
           \E x \in ops : x # o /\ Deleting(x) /\ x.by = b
    BY <1>3, <2>2 DEF XInv, OneWriteEach
  <2> QED BY <1>3, <2>1, <2>2, <2>3 DEF Comings
<1>6. AtHome'
  <2>1. Alive' BY <1>2 DEF XInv, Alive
  <2>2. Solo' BY <1>3 DEF XInv, Solo
  <2>3. NamesItsPlace' BY <1>3 DEF XInv, NamesItsPlace
  <2>4. WorksInTime' BY <1>2 DEF XInv, WorksInTime, Working
  <2> QED BY <2>1, <2>2, <2>3, <2>4 DEF AtHome
<1> QED BY <1>4, <1>5, <1>6, QuietExclusion

\* Taking over: the entry is another process's, so nobody runs in this one.
LEMMA TakeoverExcludes ==
    ASSUME IInv, XInv, IInv', NEW o \in ops, Asking(o),
           deadHolderTakeover(o.acq, o.proc), NEW rest \in Abandon(o),
           ops' = Sending(rest, Write("take", o.proc, o.acq, o.by, o.age)),
           UNCHANGED <<entry, proc, local, active, phase, at>>
    PROVE  XInv'
<1> DEFINE t == Write("take", o.proc, o.acq, o.by, o.age)
<1>0. o \in Ops /\ Fit(o) BY DEF IInv, SoundWrites, XInv, WritesFit
<1>1. /\ o.acq \in Attempts /\ phase[o.acq] = "acquiring" /\ o.by = o.acq
      /\ at[o.acq] = o.proc /\ o.age <= TIMEOUT
  BY AskersAndDeleters
<1>2. t \in Ops BY <1>0, WriteTyped DEF Ops
<1>3. /\ t.kind = "take" /\ t.proc = o.proc /\ t.acq = o.acq /\ t.by = o.by
      /\ t.age = o.age /\ ~ t.gone /\ t.res = "sent"
  BY DEF Write
<1> HIDE DEF t
<1>4. PICK g, w : Joins(w, rest, t) /\ (Fit(w)' => Queues(rest, g, {o}, {w}))
  BY <1>2, <1>3, GivesUpAndSends DEF t, Asking
<1>5. Fit(w)' /\ w.kind = "take" /\ w.acq = o.acq /\ w.proc = o.proc
  BY <1>1, <1>3, <1>4 DEF Joins, Fit, Asking, Renewing, Deleting
<1>6. \A a \in Attempts : at[a] = o.proc => ~ Running(a)
  <2> SUFFICES ASSUME NEW a \in Attempts, at[a] = o.proc, Running(a) PROVE FALSE
    OBVIOUS
  <2>1. Inside(a) /\ Since(o, a) BY DEF Running, Inside, Since
  <2>2. entry.acq = a BY <2>1 DEF XInv, Window
  <2>3. entry.proc = o.proc BY <2>2 DEF XInv, NamesItsPlace
  <2> QED BY <2>3 DEF deadHolderTakeover
<1>7. \A b \in Attempts : (Inside(b)' <=> Inside(b)) /\ (Running(b)' <=> Running(b))
  BY DEF Inside, Running
<1>8. Comings({o}, {w})
  <2>1. \A x \in ops : x # o /\ Asking(x) => x.acq # w.acq
    BY <1>5 DEF XInv, OneWriteEach
  <2>2. \A x \in ops : Deleting(x) => x # o BY DEF Asking, Deleting
  <2>3. \A b \in Attempts : phase'[b] = "releasing" =>
           \E x \in ops : x # o /\ Deleting(x) /\ x.by = b
    BY <2>2 DEF XInv, OneWriteEach
  <2>4. ~ Deleting(w) /\ w.kind # "delete" BY <1>5 DEF Deleting
  <2> QED BY <1>5, <1>6, <1>7, <2>1, <2>2, <2>3, <2>4 DEF Comings
<1>9. AtHome' BY <1>7 DEF XInv, AtHome, Alive, Solo, NamesItsPlace, WorksInTime, Working
<1> QED BY <1>4, <1>5, <1>8, <1>9, QuietExclusion

\* The lock is granted: nobody else is inside in this process or anywhere.
LEMMA AcquiredExcludes ==
    ASSUME IInv, XInv, IInv', NEW o \in ops, Acquired(o)
    PROVE  XInv'
<1> USE DEF Acquired
<1> DEFINE a == o.acq
           p == o.proc
<1>0. o \in Ops /\ Asking(o) /\ o.res = "ok" /\ ops' = Without(o) /\ p \in Procs
  BY DEF IInv, SoundWrites, Answered, Asking, Ops
<1>1. a \in Attempts /\ phase[a] = "acquiring" /\ at[a] = p /\ o.age <= TIMEOUT
  BY <1>0, AskersAndDeleters
<1>2. /\ entry.acq = a /\ \A b \in Attempts : Inside(b) => at[b] # p
      /\ \A x \in ops : ~ Deletes(x)
  BY <1>0 DEF XInv, Granted
<1>3. entry.age <= o.age /\ entry.age \in Nat /\ o.age \in Nat
  BY <1>0, <1>2 DEF XInv, AgesFit, Asking, IInv, TypeOK, Entries, Ages, Ops
<1>4. /\ \A b \in Attempts : phase'[b] = IF b = a THEN "working" ELSE phase[b]
      /\ \A q \in Procs : active'[q] = IF q = p THEN a ELSE active[q]
      /\ \A q \in Procs : q # p => local'[q] = local[q]
      /\ local'[p].acq = a /\ local'[p].unproven = o.age
  BY <1>0 DEF IInv, TypeOK
<1>5. /\ ~ Inside(a) /\ ~ Running(a) /\ Inside(a)' /\ Running(a)'
      /\ \A b \in Attempts : b # a =>
            /\ (Inside(b)' <=> Inside(b)) /\ (Running(b)' <=> Running(b))
            /\ phase'[b] = phase[b]
  BY <1>1, <1>4 DEF Inside, Running
<1>6. PICK g : Queues(ops', g, {o}, {})
  BY <1>0, GivesUp, AnswerGivesUp DEF Asking
<1> HIDE DEF a, p
<1>7. Comings({o}, {})
  <2>1. \A x \in ops : x # o /\ Asking(x) =>
           x.acq # a /\ x.acq \in Attempts /\ x.res # "ok"
    BY <1>0, <1>2, AskersAndDeleters DEF XInv, OneWriteEach, Granted, a
  <2>2. \A x \in ops : Deleting(x) => phase'[x.by] = phase[x.by] /\ x # o
    BY <1>0, <1>1, <1>5, AskersAndDeleters DEF Asking, Deleting
  <2>3. \A b \in Attempts : phase'[b] = "releasing" =>
           \E x \in ops : x # o /\ Deleting(x) /\ x.by = b
    BY <1>4, <1>5, <2>2 DEF XInv, OneWriteEach
  <2>4. entry.age <= TIMEOUT BY <1>1, <1>3, LockAssumption
  <2> QED BY <1>2, <1>5, <2>1, <2>2, <2>3, <2>4 DEF Comings
<1>8. AtHome'
  <2>1. Alive' BY <1>1, <1>5, LockAssumption DEF XInv, Alive, Inside
  <2>2. Solo'
    BY <1>0, <1>1, <1>2, <1>4, <1>5 DEF XInv, Solo, Alive, Inside, Running
  <2>3. NamesItsPlace' BY <1>1, <1>4, <1>5 DEF XInv, NamesItsPlace
  <2>4. WorksInTime'
    <3>1. \A b \in Attempts : Working(b)' => b = a
      BY <1>2, <1>5 DEF XInv, WorksInTime, Working
    <3>2. o.age <= lockSelfFence BY <1>1, <1>3, FenceAfterTimeout, LockAssumption
    <3> QED BY <1>1, <1>2, <1>3, <1>4, <3>1, <3>2 DEF WorksInTime
  <2> QED BY <2>1, <2>2, <2>3, <2>4 DEF AtHome
<1> QED BY <1>6, <1>7, <1>8, QuietExclusion

-----------------------------------------------------------------------------
(* Letting go.                                                             *)

\* A run is over and its process forgets the lock, with nothing sent.
LEMMA ForgetExcludes ==
    ASSUME IInv, XInv, IInv', NEW a \in Attempts, Running(a),
           active' = [active EXCEPT ![at[a]] = NoAttempt], forgetLock(at[a]),
           phase' = [phase EXCEPT ![a] = "done"],
           UNCHANGED <<entry, proc, at, ops>>
    PROVE  XInv'
<1> DEFINE p == at[a]
<1>1. p \in Procs /\ Inside(a) BY DEF XInv, Alive, Running, Inside
<1>2. /\ \A b \in Attempts : phase'[b] = IF b = a THEN "done" ELSE phase[b]
      /\ \A q \in Procs : q # p => active'[q] = active[q] /\ local'[q] = local[q]
      /\ local'[p].acq \notin Attempts
  BY <1>1, LockAssumption DEF IInv, TypeOK, forgetLock, Forgotten
<1>3. \A b \in Attempts : b # a /\ Inside(b) => at[b] # p
  BY <1>1 DEF XInv, Solo
<1>4. \A b \in Attempts : /\ Inside(b)' <=> (Inside(b) /\ b # a)
                          /\ Running(b)' <=> (Running(b) /\ b # a)
                          /\ Running(b) => Inside(b)
                          /\ phase'[b] = "releasing" <=> phase[b] = "releasing"
  BY <1>2 DEF Inside, Running
<1>5. Queues(ops, [x \in ops |-> x], {}, {})
  <2>1. Ordered(ops)' BY DEF XInv, Ordered, Awaited
  <2> QED BY <2>1, OwnHeirs DEF Queues
<1>6. Comings({}, {})
  <2>1. \A x \in ops : Asking(x) => phase'[x.acq] = phase[x.acq]
    BY <1>2, AskersAndDeleters DEF Running
  <2>2. \A x \in ops : Deleting(x) => phase'[x.by] = phase[x.by]
    BY <1>2, AskersAndDeleters DEF Running
  <2>3. \A b \in Attempts : phase'[b] = "releasing" =>
           \E x \in ops : Deleting(x) /\ x.by = b
    BY <1>4 DEF XInv, OneWriteEach
  <2> QED BY <1>4, <2>1, <2>2, <2>3 DEF Comings
<1>7. AtHome'
  <2>1. Alive' BY <1>2 DEF XInv, Alive
  <2>2. Solo'
    <3>1. \A b \in Attempts : Running(b)' => active'[at[b]] = b
      BY <1>2, <1>3, <1>4 DEF XInv, Solo, Alive, Running
    <3> QED BY <1>4, <3>1 DEF XInv, Solo
  <2>3. NamesItsPlace' BY <1>2, <1>4 DEF XInv, NamesItsPlace
  <2>4. WorksInTime'
    <3>1. \A b \in Attempts : Working(b)' => Working(b) /\ at[b] \in Procs /\ at[b] # p
      BY <1>2, <1>3 DEF Working, Inside, XInv, Alive
    <3> QED BY <1>2, <3>1 DEF XInv, WorksInTime
  <2> QED BY <2>1, <2>2, <2>3, <2>4 DEF AtHome
<1> QED BY <1>5, <1>6, <1>7, QuietExclusion

\* A run is over and its process deletes its entry; it remembers the lock until
\* the answer.
LEMMA DeleteExcludes ==
    ASSUME IInv, XInv, IInv', NEW a \in Attempts, Running(a), OwnEntry(at[a]),
           active' = [active EXCEPT ![at[a]] = NoAttempt],
           ops' = Sending(ops, Write("delete", at[a], entry.acq, a, 0)),
           phase' = [phase EXCEPT ![a] = IF ops' = ops THEN "done" ELSE "releasing"],
           UNCHANGED <<entry, proc, local, at>>
    PROVE  XInv'
<1> DEFINE p == at[a]
           t == Write("delete", p, entry.acq, a, 0)
<1>1. p \in Procs /\ Inside(a) BY DEF XInv, Alive, Running, Inside
<1>2. t \in Ops
  BY <1>1, LockAssumption, WriteTyped DEF IInv, TypeOK, Entries, Acqs, Ages
<1>3. /\ t.kind = "delete" /\ t.proc = p /\ t.by = a /\ t.age = 0
      /\ ~ t.gone /\ t.res = "sent"
  BY DEF Write
<1> HIDE DEF t
<1>4. ops \subseteq Ops /\ IsFiniteSet(ops) /\ Ordered(ops)
  BY DEF IInv, SoundWrites, XInv
<1>5. PICK w : Joins(w, ops, t) BY <1>2, <1>3, <1>4, SendOne DEF t
<1>6. ops' # ops
  <2>1. w \in ops' /\ ~ w.gone /\ w.turn \in Nat BY <1>5 DEF Joins, Ops
  <2>2. w \notin ops BY <1>5, <2>1 DEF Joins
  <2> QED BY <2>1, <2>2
<1>7. /\ \A b \in Attempts : phase'[b] = IF b = a THEN "releasing" ELSE phase[b]
      /\ \A q \in Procs : q # p => active'[q] = active[q]
  BY <1>6 DEF IInv, TypeOK
<1>8. \A b \in Attempts : b # a /\ Inside(b) => at[b] # p
  BY <1>1 DEF XInv, Solo
<1>9. \A b \in Attempts : /\ Inside(b)' <=> Inside(b)
                          /\ Running(b)' <=> (Running(b) /\ b # a)
                          /\ Running(b) => Inside(b)
  BY <1>1, <1>7 DEF Inside, Running
<1>10. Fit(w)' /\ Deleting(w) /\ w.kind = "delete" /\ w.by = a
  BY <1>1, <1>3, <1>5, <1>7, LockAssumption DEF Joins, Fit, Asking, Renewing, Deleting
<1>11. Queues(ops, [x \in ops |-> x], {}, {w})
  BY <1>5, <1>10, OwnHeirs DEF Joins, Queues
<1>12. Comings({}, {w})
  <2>1. \A x \in ops : Asking(x) => phase'[x.acq] = phase[x.acq]
    BY <1>7, AskersAndDeleters DEF Running
  <2>2. \A x \in ops : Deleting(x) => phase'[x.by] = phase[x.by] /\ x.by # a
    BY <1>7, AskersAndDeleters DEF Running
  <2>3. \A b \in Attempts : phase'[b] = "releasing" =>
           (\E x \in ops : Deleting(x) /\ x.by = b) \/ b = a
    BY <1>7 DEF XInv, OneWriteEach
  <2>4. \A x \in ops : ~ (Asking(x) /\ x.res = "ok")
    <3> SUFFICES ASSUME NEW x \in ops, Asking(x), x.res = "ok" PROVE FALSE
      OBVIOUS
    <3>1. entry.acq = x.acq /\ at[a] # x.proc BY <1>1 DEF XInv, Granted
    <3>2. at[x.acq] = x.proc /\ x.acq \in Attempts BY AskersAndDeleters
    <3> QED BY <3>1, <3>2 DEF XInv, NamesItsPlace, OwnEntry
  <2>5. entry.acq \in Attempts => ~ Inside(entry.acq)' \/ a = entry.acq
    BY <1>8, <1>9 DEF XInv, NamesItsPlace, OwnEntry
  <2>6. ~ Asking(w) BY <1>10 DEF Asking
  <2> QED BY <1>9, <1>10, <2>1, <2>2, <2>3, <2>4, <2>5, <2>6 DEF Comings
<1>13. AtHome'
  <2>1. Alive' BY <1>1, <1>7 DEF XInv, Alive, Running
  <2>2. Solo'
    <3>1. \A b \in Attempts : Running(b)' => active'[at[b]] = b
      BY <1>7, <1>8, <1>9 DEF XInv, Solo, Alive, Running
    <3> QED BY <1>9, <3>1 DEF XInv, Solo
  <2>3. NamesItsPlace' BY <1>9 DEF XInv, NamesItsPlace
  <2>4. WorksInTime' BY <1>7 DEF XInv, WorksInTime, Working
  <2> QED BY <2>1, <2>2, <2>3, <2>4 DEF AtHome
<1> QED BY <1>11, <1>12, <1>13, QuietExclusion

\* A run is over.
LEMMA FinishExcludes ==
    ASSUME IInv, XInv, IInv', NEW a \in Attempts, FinishRun(a)
    PROVE  XInv'
<1> USE DEF FinishRun
<1>1. Running(a) BY DEF Running
<1>2. CASE forgetLock(at[a]) /\ UNCHANGED ops BY <1>1, <1>2, ForgetExcludes
<1>3. CASE /\ OwnEntry(at[a])
           /\ ops' = Sending(ops, Write("delete", at[a], entry.acq, a, 0))
           /\ UNCHANGED local
  BY <1>1, <1>3, DeleteExcludes
<1> QED BY <1>2, <1>3 DEF releaseTaskLock

\* The release is answered or given up.
LEMMA ReleasedExcludes ==
    ASSUME IInv, XInv, IInv', NEW o \in ops, Released(o)
    PROVE  XInv'
<1> USE DEF Released
<1> DEFINE a == o.by
           p == o.proc
<1>1. ~ o.gone /\ Deleting(o) /\ ops' \in Abandon(o) /\ ~ Asking(o)
  BY DEF TimedOut, Deleting, Asking
<1>2. a \in Attempts /\ phase[a] = "releasing" /\ at[a] = p /\ p \in Procs /\ Inside(a)
  BY <1>1, AskersAndDeleters DEF IInv, SoundWrites, Ops, Inside
<1>3. /\ \A b \in Attempts : phase'[b] = IF b = a THEN "done" ELSE phase[b]
      /\ \A q \in Procs : q # p => local'[q] = local[q]
      /\ local'[p].acq \notin Attempts
  BY <1>2, LockAssumption DEF IInv, TypeOK, forgetLock, Forgotten
<1>4. \A b \in Attempts : b # a /\ Inside(b) => at[b] # p
  BY <1>2 DEF XInv, Solo
<1>5. \A b \in Attempts : /\ Inside(b)' <=> (Inside(b) /\ b # a)
                          /\ Running(b)' <=> Running(b)
  BY <1>2, <1>3 DEF Inside, Running
<1>6. PICK g : Queues(ops', g, {o}, {}) BY <1>1, GivesUp
<1>7. Comings({o}, {})
  <2>1. \A x \in ops : Asking(x) => phase'[x.acq] = phase[x.acq]
    BY <1>2, <1>3, AskersAndDeleters
  <2>2. \A x \in ops : x # o /\ Deleting(x) => phase'[x.by] = phase[x.by]
    BY <1>1, <1>3, AskersAndDeleters DEF XInv, OneWriteEach
  <2>3. \A b \in Attempts : phase'[b] = "releasing" =>
           \E x \in ops : x # o /\ Deleting(x) /\ x.by = b
    BY <1>3 DEF XInv, OneWriteEach
  <2>4. ~ Inside(o.by)' BY <1>2, <1>5
  <2> QED BY <1>5, <2>1, <2>2, <2>3, <2>4 DEF Comings
<1>8. AtHome'
  <2>1. Alive' BY <1>3 DEF XInv, Alive
  <2>2. Solo' BY <1>5 DEF XInv, Solo
  <2>3. NamesItsPlace' BY <1>2, <1>3, <1>5 DEF XInv, NamesItsPlace
  <2>4. WorksInTime'
    <3>1. \A b \in Attempts : Working(b)' => Working(b) /\ at[b] \in Procs /\ at[b] # p
      BY <1>3, <1>4 DEF Working, Inside, XInv, Alive
    <3> QED BY <1>3, <3>1 DEF XInv, WorksInTime
  <2> QED BY <2>1, <2>2, <2>3, <2>4 DEF AtHome
<1> QED BY <1>6, <1>7, <1>8, QuietExclusion

-----------------------------------------------------------------------------
(* Crashes.                                                                *)

\* A process dies: its attempts are over, and what it sent is nobody's.
LEMMA CrashExcludes ==
    ASSUME IInv, XInv, IInv', NEW p \in Procs, Crash(p)
    PROVE  XInv'
<1> USE DEF Crash
<1> DEFINE mine == {o \in ops : o.proc = p}
           waiting == {x \in mine : x.res = "sent"}
           sent == {Ownerless(o) : o \in waiting}
<1>0. ops \subseteq Ops BY DEF IInv, SoundWrites
<1>1. PICK kept \in SUBSET sent : ops' = (ops \ mine) \cup kept OBVIOUS
<1> DEFINE g == [y \in ops' |-> IF y \in ops \ mine THEN y
                                ELSE CHOOSE x \in waiting : y = Ownerless(x)]
<1>2. \A y \in kept : \E x \in waiting : y = Ownerless(x) OBVIOUS
<1>3. \A x \in waiting : Ownerless(x).gone = TRUE /\ Kin(Ownerless(x), x)
  BY <1>0 DEF Ops, Ownerless, Kin, Like
<1>4. ASSUME NEW y \in ops', y \notin ops \ mine
      PROVE  g[y] \in waiting /\ y = Ownerless(g[y]) /\ y.gone /\ Kin(y, g[y])
  <2>1. \E x \in waiting : y = Ownerless(x) BY <1>1, <1>2, <1>4
  <2>2. g[y] \in waiting /\ y = Ownerless(g[y]) BY <1>4, <2>1
  <2> HIDE DEF g, waiting
  <2> QED BY <1>3, <2>2
<1>5. \A y \in ops \ mine : y \in ops' /\ g[y] = y /\ Kin(y, y)
  BY <1>1 DEF Kin, Like
<1>6. /\ g \in [ops' -> ops] /\ \A x \in waiting : x \in mine
      /\ \A y \in ops' : ~ y.gone => y \in ops \ mine
  BY <1>4, <1>5
<1>7. \A x \in mine : x \in ops /\ x.proc = p OBVIOUS
<1> HIDE DEF g, waiting
<1>8. Heirs(ops', g, mine)
  <2>1. \A y \in ops' : /\ Kin(y, g[y])
                        /\ ~ y.gone => g[y] \notin mine
                        /\ y.gone => g[y].gone \/ g[y] \in mine
    BY <1>4, <1>5, <1>6
  <2>2. \A y, z \in ops' : ~ y.gone /\ ~ z.gone =>
          /\ y.proc = z.proc /\ y.turn > z.turn => g[y].turn > g[z].turn
          /\ g[y] = g[z] => y = z
    BY <1>5, <1>6
  <2>3. \A x \in ops : ~ x.gone /\ x \notin mine => \E y \in ops' : ~ y.gone /\ g[y] = x
    BY <1>5
  <2> QED BY <1>6, <2>1, <2>2, <2>3 DEF Heirs
<1>9. Ordered(ops)'
  <2>1. \A y \in ops' : ~ y.gone => y \in ops /\ y.proc # p BY <1>6
  <2>2. \A q : q # p => Awaited(ops', q) = Awaited(ops, q)
    BY <1>1, <2>1 DEF Awaited
  <2>3. Ordered(ops') BY <2>1, <2>2 DEF XInv, Ordered
  <2> QED BY <2>3 DEF Ordered, Awaited
<1>10. Queues(ops', g, mine, {}) BY <1>8, <1>9 DEF Queues
<1>11. /\ \A b \in Attempts : phase'[b] = IF at[b] = p THEN "done" ELSE phase[b]
       /\ \A q \in Procs : q # p => /\ active'[q] = active[q] /\ local'[q] = local[q]
                                    /\ proc'[q] = proc[q]
       /\ local'[p].acq \notin Attempts
  BY LockAssumption DEF IInv, TypeOK, forgetLock, Forgotten
<1>12. \A b \in Attempts : /\ Inside(b)' <=> (Inside(b) /\ at[b] # p)
                           /\ Running(b)' <=> (Running(b) /\ at[b] # p)
                           /\ Running(b) => Inside(b)
  BY <1>11 DEF Inside, Running
<1> HIDE DEF mine
<1>13. Comings(mine, {})
  <2>1. \A x \in ops : x \notin mine <=> x.proc # p BY DEF mine
  <2>2. \A x \in ops : x \notin mine /\ Asking(x) => phase'[x.acq] = phase[x.acq]
    BY <1>11, <2>1, AskersAndDeleters
  <2>3. \A x \in ops : x \notin mine /\ Deleting(x) => phase'[x.by] = phase[x.by]
    BY <1>11, <2>1, AskersAndDeleters
  <2>4. \A b \in Attempts : phase'[b] = "releasing" =>
           \E x \in ops : x \notin mine /\ Deleting(x) /\ x.by = b
    <3> SUFFICES ASSUME NEW b \in Attempts, phase'[b] = "releasing"
                 PROVE  \E x \in ops : x \notin mine /\ Deleting(x) /\ x.by = b
      OBVIOUS
    <3>1. phase[b] = "releasing" /\ at[b] # p BY <1>11
    <3>2. PICK x \in ops : Deleting(x) /\ x.by = b BY <3>1 DEF XInv, OneWriteEach
    <3>3. x.proc = at[b] BY <3>2, AskersAndDeleters
    <3> QED BY <2>1, <3>1, <3>2, <3>3
  <2>5. \A x \in mine : Deleting(x) => ~ Inside(x.by)'
    BY <1>7, <1>12, AskersAndDeleters
  <2> QED BY <1>12, <2>2, <2>3, <2>4, <2>5 DEF Comings
<1>14. AtHome'
  <2>1. Alive' BY <1>11 DEF XInv, Alive
  <2>2. Solo'
    <3>1. \A b \in Attempts : Running(b)' => active'[at[b]] = b
      BY <1>11, <1>12 DEF XInv, Solo, Alive, Running
    <3> QED BY <1>12, <3>1 DEF XInv, Solo
  <2>3. NamesItsPlace' BY <1>11, <1>12 DEF XInv, NamesItsPlace
  <2>4. WorksInTime'
    <3>1. \A b \in Attempts : Working(b)' => Working(b) /\ at[b] \in Procs /\ at[b] # p
      BY <1>11 DEF Working, XInv, Alive
    <3> QED BY <1>11, <3>1 DEF XInv, WorksInTime
  <2> QED BY <2>1, <2>2, <2>3, <2>4 DEF AtHome
<1> QED BY <1>10, <1>13, <1>14, QuietExclusion

-----------------------------------------------------------------------------
(* The store and the clock: every write stays in its place.                *)

\* A step of the store or the clock: f makes of each write what it is after it;
\* D is everything but perhaps a write that nobody waits for.
Served(D, f) ==
    /\ D \subseteq ops /\ (\A x \in ops : ~ x.gone => x \in D)
    /\ ops' = {f[x] : x \in D}
    /\ \A x \in D :
          /\ f[x].kind = x.kind /\ f[x].proc = x.proc /\ f[x].acq = x.acq
          /\ f[x].by = x.by /\ f[x].turn = x.turn /\ f[x].gone = x.gone
          /\ f[x].res # "lost" /\ (~ x.gone => f[x].age <= TIMEOUT)
          /\ ~ x.gone /\ f[x].res # x.res =>
                \A z \in ops : ~ z.gone /\ z.proc = x.proc /\ z # x => x.turn < z.turn
    /\ UNCHANGED <<proc, active, phase, at>>

\* What such a step cannot disturb.
LEMMA ServedKeeps ==
    ASSUME IInv, XInv, NEW D, NEW f, Served(D, f)
    PROVE  /\ WritesFit' /\ OneWriteEach' /\ Ordered(ops)' /\ Alive' /\ Solo'
           /\ \A x \in D, a \in Attempts : Since(f[x], a)' => Since(x, a)
<1> USE DEF Served
<1>1. \A y \in ops' : \E x \in D : y = f[x] OBVIOUS
<1>2. \A x \in D : x \in ops /\ x \in Ops /\ Fit(x) /\ x.turn \in Nat
  BY DEF IInv, SoundWrites, XInv, WritesFit, Ops
<1>3. \A x \in D : /\ Asking(f[x]) <=> Asking(x)
                   /\ Deleting(f[x]) <=> Deleting(x)
                   /\ Renewing(f[x]) <=> Renewing(x)
  BY DEF Asking, Deleting, Renewing
<1>4. WritesFit'
  <2> SUFFICES ASSUME NEW x \in D PROVE Fit(f[x])'
    BY <1>1 DEF WritesFit
  <2>1. Fit(x) BY <1>2
  <2> QED BY <1>3, <2>1 DEF Fit, Asking, Deleting, Renewing
<1>5. OneWriteEach'
  <2>1. ASSUME NEW x \in D, NEW z \in D, Asking(f[x]), Asking(f[z]), f[x].acq = f[z].acq
        PROVE  f[x] = f[z]
    BY <1>2, <1>3, <2>1 DEF XInv, OneWriteEach
  <2>2. ASSUME NEW x \in D, NEW z \in D, Deleting(f[x]), Deleting(f[z]), f[x].by = f[z].by
        PROVE  f[x] = f[z]
    BY <1>2, <1>3, <2>2 DEF XInv, OneWriteEach
  <2>3. ASSUME NEW a \in Attempts, phase'[a] = "releasing"
        PROVE  \E y \in ops' : Deleting(y) /\ y.by = a
    <3>1. PICK x \in ops : Deleting(x) /\ x.by = a BY <2>3 DEF XInv, OneWriteEach
    <3>2. x \in D /\ f[x] \in ops' BY <3>1 DEF Deleting
    <3> QED BY <1>3, <3>1, <3>2
  <2>4. /\ \A y, z \in ops' : Asking(y) /\ Asking(z) /\ y.acq = z.acq => y = z
        /\ \A y, z \in ops' : Deleting(y) /\ Deleting(z) /\ y.by = z.by => y = z
    BY <1>1, <2>1, <2>2
  <2> QED BY <2>3, <2>4 DEF OneWriteEach, Asking, Deleting
<1>6. ASSUME NEW x \in D, NEW a \in Attempts, Since(f[x], a)'
      PROVE  Since(x, a)
  <2>1. CASE Running(a)' BY <2>1 DEF Running, Since
  <2>2. CASE \E d \in ops' : Deleting(d) /\ d.by = a /\ d.turn > f[x].turn
    <3>1. PICK d \in ops' : Deleting(d) /\ d.by = a /\ d.turn > f[x].turn BY <2>2
    <3>2. PICK z \in D : d = f[z] BY <1>1
    <3> QED BY <1>2, <1>3, <3>1, <3>2 DEF Since
  <2> QED BY <1>6, <2>1, <2>2 DEF Since, Deleting
<1>7. Alive' BY DEF XInv, Alive
<1>8. Solo' BY DEF XInv, Solo, Running, Inside
<1>9. InPlaces(D, f) BY <1>2 DEF InPlaces, Fit
<1>10. Ordered(ops') BY <1>9, PlacesOrdered DEF IInv, XInv
<1>11. Ordered(ops)' BY <1>10 DEF Ordered, Awaited
<1> QED BY <1>4, <1>5, <1>6, <1>7, <1>8, <1>11

\* A write that is served was the first of its process.
LEMMA ServedFirst ==
    ASSUME IInv, XInv, NEW o \in ops, Store(o), ~ o.gone,
           NEW z \in ops, ~ z.gone, z.proc = o.proc, z # o
    PROVE  o.turn < z.turn
<1>1. z.res # "lost" /\ o.turn \in Nat /\ z.turn \in Nat
  BY DEF XInv, WritesFit, Fit, IInv, SoundWrites, Ops
<1>2. o.turn # z.turn BY DEF XInv, Ordered
<1>3. ~ (z.turn < o.turn) BY <1>1 DEF Store, Awaited
<1> QED BY <1>1, <1>2, <1>3

\* What becomes of the writes when o is answered: each as it was, or with its
\* revision out of date.
AfterStore(o, x, moved) ==
    IF x = o THEN [o EXCEPT !.res = IF moved THEN "ok" ELSE "conflict", !.current = moved]
    ELSE IF moved THEN [x EXCEPT !.current = FALSE] ELSE x

\* The store serves the write o.
Stores(o, moved, D, f) ==
    /\ Served(D, f)
    /\ \A x \in D : /\ f[x].age = x.age
                    /\ x # o => f[x].res = x.res
                    /\ x = o => f[x].res = IF moved THEN "ok" ELSE "conflict"
                    /\ Deletes(f[x]) => ~ moved /\ x # o /\ Deletes(x)

\* The store serves one write and keeps the order of the others.
LEMMA StoreServes ==
    ASSUME IInv, XInv, NEW o \in ops, Store(o), NEW moved \in BOOLEAN,
           moved <=> Accepted(o)
    PROVE  \E D, f : Stores(o, moved, D, f)
<1> DEFINE D == IF o.gone THEN ops \ {o} ELSE ops
           f == [x \in D |-> AfterStore(o, x, moved)]
<1>1. \A x \in D : x \in ops /\ x \in Ops /\ Fit(x)
  BY DEF IInv, SoundWrites, XInv, WritesFit
<1>2. ASSUME NEW x \in D
      PROVE  /\ f[x].kind = x.kind /\ f[x].proc = x.proc /\ f[x].acq = x.acq
             /\ f[x].by = x.by /\ f[x].turn = x.turn /\ f[x].gone = x.gone
             /\ f[x].age = x.age /\ f[x] \in Ops
             /\ x # o => f[x].res = x.res /\ f[x].current = (x.current /\ ~ moved)
             /\ x = o => f[x].res = IF moved THEN "ok" ELSE "conflict"
  <2>1. x \in Ops /\ f[x] = AfterStore(o, x, moved) BY <1>1
  <2> HIDE DEF f
  <2>2. CASE x = o /\ moved BY <2>1, <2>2 DEF AfterStore, Ops
  <2>3. CASE x = o /\ ~ moved BY <2>1, <2>3 DEF AfterStore, Ops
  <2>4. CASE x # o /\ moved BY <2>1, <2>4 DEF AfterStore, Ops
  <2>5. CASE x # o /\ ~ moved BY <2>1, <2>5 DEF AfterStore, Ops
  <2> QED BY <2>2, <2>3, <2>4, <2>5
<1>3. ops' = {f[x] : x \in D}
  <2>1. CASE moved /\ o.gone BY <2>1 DEF Store, Stale, Reply, AfterStore
  <2>2. CASE moved /\ ~ o.gone
    <3>1. ops' = Stale(ops \ {o}) \cup {[o EXCEPT !.res = "ok", !.current = TRUE]}
      BY <2>2 DEF Store, Reply
    <3>2. /\ f[o] = [o EXCEPT !.res = "ok", !.current = TRUE] /\ D = ops
          /\ \A x \in ops \ {o} : f[x] = [x EXCEPT !.current = FALSE]
      BY <2>2 DEF AfterStore
    <3> HIDE DEF f
    <3>3. Stale(ops \ {o}) = {f[x] : x \in ops \ {o}}
      <4>1. ASSUME NEW y \in Stale(ops \ {o}) PROVE \E x \in ops \ {o} : y = f[x]
        <5>1. PICK x \in ops \ {o} : y = [x EXCEPT !.current = FALSE] BY DEF Stale
        <5> QED BY <3>2, <5>1
      <4>2. ASSUME NEW x \in ops \ {o} PROVE f[x] \in Stale(ops \ {o})
        BY <3>2 DEF Stale
      <4> QED BY <4>1, <4>2
    <3>4. {f[x] : x \in ops} = {f[x] : x \in ops \ {o}} \cup {f[o]} OBVIOUS
    <3> QED BY <3>1, <3>2, <3>3, <3>4
  <2>3. CASE ~ moved /\ o.gone BY <2>3 DEF Store, Reply, AfterStore
  <2>4. CASE ~ moved /\ ~ o.gone
    <3>1. ops' = (ops \ {o}) \cup {[o EXCEPT !.res = "conflict", !.current = FALSE]}
      BY <2>4 DEF Store, Reply
    <3>2. /\ f[o] = [o EXCEPT !.res = "conflict", !.current = FALSE] /\ D = ops
          /\ \A x \in ops \ {o} : f[x] = x
      BY <2>4 DEF AfterStore
    <3> HIDE DEF f
    <3> QED BY <3>1, <3>2
  <2> QED BY <2>1, <2>2, <2>3, <2>4
<1>4. D \subseteq ops /\ (\A x \in ops : ~ x.gone => x \in D) OBVIOUS
<1>5. UNCHANGED <<proc, active, phase, at>> BY DEF Store
<1> HIDE DEF f, D
<1>6. Served(D, f)
  <2>1. ASSUME NEW x \in D
        PROVE  f[x].res # "lost" /\ (~ x.gone => f[x].age <= TIMEOUT)
    BY <1>1, <1>2 DEF Fit
  <2>2. ASSUME NEW x \in D, ~ x.gone, f[x].res # x.res, NEW z \in ops,
               ~ z.gone, z.proc = x.proc, z # x
        PROVE  x.turn < z.turn
    <3>1. x = o BY <1>2, <2>2
    <3> QED BY <2>2, <3>1, ServedFirst
  <2> QED BY <1>2, <1>3, <1>4, <1>5, <2>1, <2>2 DEF Served
<1>7. ASSUME NEW x \in D, Deletes(f[x]) PROVE ~ moved /\ x # o /\ Deletes(x)
  BY <1>2, <1>7 DEF Deletes
<1>8. Stores(o, moved, D, f) BY <1>2, <1>6, <1>7 DEF Stores
<1> QED BY <1>8

\* A write is refused.
LEMMA RefusalExcludes ==
    ASSUME IInv, XInv, NEW o \in ops, Store(o), ~ Accepted(o)
    PROVE  XInv'
<1>0. PICK D, f : Stores(o, FALSE, D, f) BY StoreServes
<1>1. /\ Served(D, f)
      /\ \A x \in D : /\ f[x].age = x.age
                      /\ x # o => f[x].res = x.res
                      /\ x = o => f[x].res = "conflict"
                      /\ Deletes(f[x]) => x # o /\ Deletes(x)
  BY <1>0 DEF Stores
<1>2. entry' = entry /\ local' = local /\ phase' = phase /\ at' = at BY DEF Store
<1>3. /\ D \subseteq ops /\ \A y \in ops' : \E x \in D : y = f[x]
      /\ \A x \in D : /\ f[x].kind = x.kind /\ f[x].proc = x.proc /\ f[x].acq = x.acq
                      /\ f[x].by = x.by /\ f[x].gone = x.gone
  BY <1>1 DEF Served
<1>4. /\ WritesFit' /\ OneWriteEach' /\ Ordered(ops)' /\ Alive' /\ Solo'
      /\ \A x \in D, a \in Attempts : Since(f[x], a)' => Since(x, a)
  BY <1>1, ServedKeeps
<1>5. NamesItsPlace' /\ WorksInTime'
  BY <1>2 DEF XInv, NamesItsPlace, WorksInTime, Inside, Working
<1>6. AgesFit' BY <1>1, <1>2, <1>3 DEF XInv, AgesFit
<1>7. \A y \in ops' : Deletes(y) => \E x \in D : y = f[x] /\ Deletes(x)
  BY <1>1, <1>3
<1>8. Granted'
  <2> SUFFICES ASSUME NEW x \in D, Asking(f[x]), f[x].res = "ok"
               PROVE  /\ entry.acq = f[x].acq
                      /\ \A a \in Attempts : Inside(a) => at[a] # f[x].proc
                      /\ \A y \in ops' : ~ Deletes(y)
    BY <1>2, <1>3 DEF Granted, Asking, Deletes, Inside
  <2>1. x \in ops /\ Asking(x) /\ x.res = "ok" BY <1>1, <1>3 DEF Asking
  <2>2. /\ entry.acq = x.acq /\ \A a \in Attempts : Inside(a) => at[a] # x.proc
        /\ \A y \in ops : ~ Deletes(y)
    BY <2>1 DEF XInv, Granted
  <2> QED BY <1>3, <1>7, <2>2
<1>9. Window'
  <2> SUFFICES ASSUME NEW x \in D, NEW a \in Attempts, Asking(f[x]), Inside(a),
                      at[a] = f[x].proc, Since(f[x], a)'
               PROVE  entry.acq = a /\ entry.age <= TIMEOUT + f[x].age
    BY <1>2, <1>3 DEF Window, Asking, Inside
  <2>1. x \in ops /\ Asking(x) /\ at[a] = x.proc /\ Since(x, a) BY <1>3, <1>4 DEF Asking
  <2> QED BY <1>1, <2>1 DEF XInv, Window
<1>10. DeletesItsOwn'
  <2> SUFFICES ASSUME NEW x \in D, Deletes(f[x]), entry.acq \in Attempts, Inside(entry.acq)
               PROVE  Deleting(f[x]) /\ f[x].by = entry.acq
    BY <1>2, <1>3 DEF DeletesItsOwn, Deletes, Deleting, Inside
  <2>1. x \in ops /\ Deletes(x) BY <1>1, <1>3
  <2> QED BY <1>3, <2>1 DEF XInv, DeletesItsOwn, Deleting
<1> QED BY <1>4, <1>5, <1>6, <1>8, <1>9, <1>10 DEF XInv

\* Nobody relies on the entry: no run works, no grant is on its way, and no
\* attempt meets the entry of its own process.
NobodyRelies ==
    /\ \A a \in Attempts : ~ Working(a)
    /\ \A x \in ops : ~ (Asking(x) /\ x.res = "ok")
    /\ \A x \in ops, a \in Attempts :
          ~ (Asking(x) /\ Inside(a) /\ at[a] = x.proc /\ Since(x, a))

\* The entry moves when nobody relies on it.
LEMMA MoveExcludes ==
    ASSUME IInv, XInv, IInv', NobodyRelies, NEW D, NEW f, Served(D, f),
           entry'.age = 0, entry'.acq \in Attempts => at[entry'.acq] = entry'.proc,
           local' = AllStale,
           \A x \in D : ~ Deletes(f[x]),
           \A x \in D : Asking(x) /\ f[x].res = "ok" =>
               /\ entry'.acq = x.acq
               /\ \A a \in Attempts : Inside(a) => at[a] # x.proc
    PROVE  XInv'
<1>1. /\ WritesFit' /\ OneWriteEach' /\ Ordered(ops)' /\ Alive' /\ Solo'
      /\ \A x \in D, a \in Attempts : Since(f[x], a)' => Since(x, a)
  BY ServedKeeps
<1>2. /\ D \subseteq ops /\ \A y \in ops' : \E x \in D : y = f[x]
      /\ \A x \in D : /\ f[x].kind = x.kind /\ f[x].proc = x.proc /\ f[x].acq = x.acq
                      /\ f[x].gone = x.gone
      /\ phase' = phase /\ at' = at
  BY DEF Served
<1>3. \A p \in Procs : local'[p].acq = local[p].acq
  BY DEF AllStale, IInv, TypeOK, Memories
<1>4. NamesItsPlace' BY <1>2, <1>3 DEF XInv, NamesItsPlace, Inside
<1>5. WorksInTime' BY <1>2 DEF NobodyRelies, WorksInTime, Working
<1>6. \A y \in ops' : ~ Deletes(y) BY <1>2
<1>7. DeletesItsOwn' BY <1>6 DEF DeletesItsOwn, Deletes
<1>8. AgesFit'
  <2>1. \A y \in ops' : y.age \in Nat
    BY LockAssumption DEF IInv, SoundWrites, Ops, Ages
  <2> QED BY <2>1 DEF AgesFit
<1>9. Granted'
  <2> SUFFICES ASSUME NEW x \in D, Asking(f[x]), f[x].res = "ok"
               PROVE  /\ entry'.acq = f[x].acq
                      /\ \A a \in Attempts : Inside(a) => at[a] # f[x].proc
    BY <1>2, <1>6 DEF Granted, Asking, Deletes, Inside
  <2>1. Asking(x) BY <1>2 DEF Asking
  <2> QED BY <1>2, <2>1
<1>10. Window'
  <2> SUFFICES ASSUME NEW x \in D, NEW a \in Attempts, Asking(f[x]), Inside(a),
                      at[a] = f[x].proc, Since(f[x], a)'
               PROVE  FALSE
    BY <1>2 DEF Window, Asking, Inside
  <2> QED BY <1>1, <1>2 DEF NobodyRelies, Asking
<1> QED BY <1>1, <1>4, <1>5, <1>7, <1>8, <1>9, <1>10 DEF XInv

-----------------------------------------------------------------------------
(* What moves the entry.                                                   *)

\* Whoever relies on the entry is alive, and the entry is its own and young.
LEMMA ReliedEntry ==
    ASSUME IInv, XInv, ~ NobodyRelies
    PROVE  /\ entry.acq \in Attempts /\ proc[entry.proc] # "dead"
           /\ entry.age <= lockSelfFence \/ entry.age <= 2 * TIMEOUT
<1>0. entry.age \in Nat /\ TIMEOUT \in Nat
  BY LockAssumption DEF IInv, TypeOK, Entries, Ages
<1>1. ASSUME NEW a \in Attempts, Working(a)
      PROVE  /\ entry.acq \in Attempts /\ proc[entry.proc] # "dead"
             /\ entry.age <= lockSelfFence \/ entry.age <= 2 * TIMEOUT
  <2>1. /\ entry.acq = a /\ entry.age <= local[at[a]].unproven
        /\ local[at[a]].unproven <= lockSelfFence
    BY <1>1 DEF XInv, WorksInTime
  <2>2. at[a] \in Procs /\ proc[at[a]] # "dead" BY <1>1 DEF XInv, Alive, Working
  <2>3. local[at[a]].unproven \in Nat
    BY <2>2, LockAssumption DEF IInv, TypeOK, Memories, Ages
  <2>4. at[a] = entry.proc BY <2>1 DEF XInv, NamesItsPlace
  <2> QED BY <1>0, <2>1, <2>2, <2>3, <2>4, FenceAfterTimeout
<1>2. ASSUME NEW x \in ops, Asking(x), x.res = "ok"
      PROVE  /\ entry.acq \in Attempts /\ proc[entry.proc] # "dead"
             /\ entry.age <= lockSelfFence \/ entry.age <= 2 * TIMEOUT
  <2>1. /\ x.acq \in Attempts /\ phase[x.acq] = "acquiring" /\ at[x.acq] = x.proc
        /\ x.age <= TIMEOUT
    BY <1>2, AskersAndDeleters
  <2>2. entry.acq = x.acq BY <1>2 DEF XInv, Granted
  <2>3. entry.age <= x.age /\ x.age \in Nat
    BY <1>2, <2>2, LockAssumption DEF XInv, AgesFit, Asking, IInv, SoundWrites, Ops, Ages
  <2>4. at[x.acq] = entry.proc /\ proc[at[x.acq]] # "dead"
    BY <2>1, <2>2 DEF XInv, NamesItsPlace, Alive
  <2> QED BY <1>0, <2>1, <2>2, <2>3, <2>4
<1>3. ASSUME NEW x \in ops, NEW a \in Attempts,
             Asking(x), Inside(a), at[a] = x.proc, Since(x, a)
      PROVE  /\ entry.acq \in Attempts /\ proc[entry.proc] # "dead"
             /\ entry.age <= lockSelfFence \/ entry.age <= 2 * TIMEOUT
  <2>1. entry.acq = a /\ entry.age <= TIMEOUT + x.age
    BY <1>3 DEF XInv, Window
  <2>2. x.age <= TIMEOUT /\ x.age \in Nat
    BY <1>3, AskersAndDeleters, LockAssumption DEF IInv, SoundWrites, Ops, Ages
  <2>3. at[a] = entry.proc /\ proc[at[a]] # "dead"
    BY <1>3, <2>1 DEF XInv, NamesItsPlace, Alive, Inside
  <2> QED BY <1>0, <2>1, <2>2, <2>3
<1> QED BY <1>1, <1>2, <1>3 DEF NobodyRelies

\* A write that finds the lock free, takes it over, deletes it or hands it back
\* is stored only when nobody relies on the entry.
LEMMA StoredUnderNobody ==
    ASSUME Undisturbed, IInv, XInv, NEW o \in ops, Store(o), Accepted(o),
           o.kind \notin {"renew", "adopt"}
    PROVE  NobodyRelies
<1>0. /\ o \in Ops /\ o.res = "sent" /\ (o.current => KnowsEntry(o))
      /\ entry.age \in Nat
  BY LockAssumption DEF IInv, SoundWrites, Sound, Store, TypeOK, Entries, Ages
<1>1. CASE o.kind = "create"
  <2>1. entry.acq \notin Attempts BY <1>1, LockAssumption DEF Accepted, Free
  <2> QED BY <2>1, ReliedEntry
<1>2. CASE o.kind = "take"
  <2>1. entry.age + Skew >= DEAD BY <1>0, <1>2 DEF Accepted, KnowsEntry
  <2>2. ~ (entry.age <= lockSelfFence \/ entry.age <= 2 * TIMEOUT)
    BY <1>0, <2>1, FenceAfterTimeout, LockAssumption DEF Undisturbed
  <2> QED BY <2>2, ReliedEntry
<1>3. CASE o.kind = "reclaim"
  <2>1. proc[entry.proc] = "dead" BY <1>0, <1>3 DEF Accepted, KnowsEntry
  <2> QED BY <2>1, ReliedEntry
<1>4. CASE o.kind = "delete"
  <2>1. Deletes(o) BY <1>0, <1>4 DEF Deletes, Accepted
  <2>2. \A x \in ops : ~ (Asking(x) /\ x.res = "ok") BY <2>1 DEF XInv, Granted
  <2>3. \A a \in Attempts : entry.acq = a /\ Inside(a) =>
           Deleting(o) /\ o.by = a /\ phase[a] = "releasing" /\ at[a] = o.proc
    BY <2>1, AskersAndDeleters DEF XInv, DeletesItsOwn
  <2>4. \A a \in Attempts : ~ Working(a)
    BY <2>3 DEF XInv, WorksInTime, Working, Inside
  <2>5. ASSUME NEW x \in ops, NEW a \in Attempts,
               Asking(x), Inside(a), at[a] = x.proc, Since(x, a)
        PROVE  FALSE
    <3>1. entry.acq = a BY <2>5 DEF XInv, Window
    <3>2. Deleting(o) /\ o.by = a /\ phase[a] = "releasing" /\ at[a] = o.proc
      BY <2>3, <2>5, <3>1
    <3>3. PICK d \in ops : Deleting(d) /\ d.by = a /\ d.turn > x.turn
      BY <2>5, <3>2 DEF Since, Running
    <3>4. d = o BY <3>2, <3>3 DEF XInv, OneWriteEach
    <3>5. o.turn < x.turn
      BY <2>5, <3>2, ServedFirst DEF Asking, Deleting
    <3>6. o.turn \in Nat /\ x.turn \in Nat BY DEF IInv, SoundWrites, Ops
    <3> QED BY <3>3, <3>4, <3>5, <3>6
  <2> QED BY <2>2, <2>4, <2>5 DEF NobodyRelies
<1> QED BY <1>0, <1>1, <1>2, <1>3, <1>4 DEF Ops

\* An attempt is granted the entry with nobody inside in its process: whoever
\* was there went in before, and its delete was served before.
LEMMA GrantedAlone ==
    ASSUME IInv, XInv, NEW o \in ops, Store(o), Asking(o), NobodyRelies,
           NEW a \in Attempts, Inside(a)
    PROVE  at[a] # o.proc
<1> SUFFICES ASSUME at[a] = o.proc PROVE FALSE OBVIOUS
<1>1. ~ Since(o, a) BY DEF NobodyRelies
<1>2. phase[a] = "releasing" BY <1>1 DEF Since, Inside, Running
<1>3. PICK d \in ops : Deleting(d) /\ d.by = a BY <1>2 DEF XInv, OneWriteEach
<1>4. d.proc = o.proc /\ d # o /\ ~ d.gone /\ ~ o.gone
  BY <1>3, AskersAndDeleters DEF Asking, Deleting
<1>5. o.turn < d.turn BY <1>4, ServedFirst
<1>6. o.turn \in Nat /\ d.turn \in Nat BY DEF IInv, SoundWrites, Ops
<1> QED BY <1>1, <1>3, <1>5, <1>6 DEF Since

\* A renewal is stored: the entry is the same one, and young.
LEMMA RenewalStored ==
    ASSUME IInv, XInv, IInv', NEW o \in ops, Store(o), Accepted(o),
           o.kind \in {"renew", "adopt"}
    PROVE  XInv'
<1>0. PICK D, f : Stores(o, TRUE, D, f) BY StoreServes
<1>1. /\ Served(D, f)
      /\ \A x \in D : /\ f[x].age = x.age /\ ~ Deletes(f[x])
                      /\ x # o => f[x].res = x.res
  BY <1>0 DEF Stores
<1>2. /\ local' = AllStale /\ phase' = phase /\ at' = at
      /\ entry'.acq = entry.acq /\ entry'.proc = entry.proc /\ entry'.age = 0
  <2>1. entry' = Stored(o) /\ local' = AllStale /\ phase' = phase /\ at' = at
    BY DEF Store
  <2>2. entry.acq = o.acq /\ entry.proc = o.proc
    BY DEF Accepted, IInv, SoundWrites, Sound, KnowsEntry
  <2>3. Stored(o) = [acq |-> o.acq, proc |-> o.proc, age |-> 0] BY DEF Stored
  <2> QED BY <2>1, <2>2, <2>3
<1>3. /\ D \subseteq ops /\ \A y \in ops' : \E x \in D : y = f[x]
      /\ \A x \in D : /\ f[x].kind = x.kind /\ f[x].proc = x.proc /\ f[x].acq = x.acq
                      /\ f[x].gone = x.gone
  BY <1>1 DEF Served
<1>4. /\ WritesFit' /\ OneWriteEach' /\ Ordered(ops)' /\ Alive' /\ Solo'
      /\ \A x \in D, a \in Attempts : Since(f[x], a)' => Since(x, a)
  BY <1>1, ServedKeeps
<1>5. \A p \in Procs : /\ local'[p].acq = local[p].acq
                       /\ local'[p].unproven = local[p].unproven
                       /\ local[p].unproven \in Nat
  BY <1>2, LockAssumption DEF AllStale, IInv, TypeOK, Memories, Ages
<1>6. NamesItsPlace' BY <1>2, <1>5 DEF XInv, NamesItsPlace, Inside
<1>7. WorksInTime' BY <1>2, <1>5 DEF XInv, WorksInTime, Working, Alive
<1>8. \A y \in ops' : ~ Deletes(y) /\ y.age \in Nat
  BY <1>1, <1>3, LockAssumption DEF IInv, SoundWrites, Ops, Ages
<1>9. DeletesItsOwn' BY <1>8 DEF DeletesItsOwn, Deletes
<1>10. AgesFit' BY <1>2, <1>8 DEF AgesFit
<1>11. Granted'
  <2> SUFFICES ASSUME NEW x \in D, Asking(f[x]), f[x].res = "ok"
               PROVE  /\ entry.acq = f[x].acq
                      /\ \A a \in Attempts : Inside(a) => at[a] # f[x].proc
    BY <1>2, <1>3, <1>8 DEF Granted, Asking, Deletes, Inside
  <2>1. x \in ops /\ Asking(x) /\ x # o BY <1>3 DEF Asking
  <2>2. x.res = "ok" BY <1>1, <2>1
  <2> QED BY <1>3, <2>1, <2>2 DEF XInv, Granted
<1>12. Window'
  <2> SUFFICES ASSUME NEW x \in D, NEW a \in Attempts, Asking(f[x]), Inside(a),
                      at[a] = f[x].proc, Since(f[x], a)'
               PROVE  entry.acq = a /\ 0 <= TIMEOUT + f[x].age
    BY <1>2, <1>3 DEF Window, Asking, Inside
  <2>1. x \in ops /\ Asking(x) /\ at[a] = x.proc /\ Since(x, a) BY <1>3, <1>4 DEF Asking
  <2>2. f[x].age \in Nat
    BY <1>1, <2>1, LockAssumption DEF IInv, SoundWrites, Ops, Ages
  <2> QED BY <2>1, <2>2, LockAssumption DEF XInv, Window
<1> QED BY <1>4, <1>6, <1>7, <1>9, <1>10, <1>11, <1>12 DEF XInv

\* Any other write is stored.
LEMMA OtherStored ==
    ASSUME Undisturbed, IInv, XInv, IInv', NEW o \in ops, Store(o), Accepted(o),
           o.kind \notin {"renew", "adopt"}
    PROVE  XInv'
<1>0. PICK D, f : Stores(o, TRUE, D, f) BY StoreServes
<1>1. /\ Served(D, f)
      /\ \A x \in D : ~ Deletes(f[x]) /\ (x # o => f[x].res = x.res)
  BY <1>0 DEF Stores
<1>2. NobodyRelies BY StoredUnderNobody
<1>3. /\ local' = AllStale /\ entry'.age = 0
      /\ entry'.acq \in Attempts => at[entry'.acq] = entry'.proc
      /\ Asking(o) => entry'.acq = o.acq
  BY LockAssumption DEF Store, Stored, Free, XInv, WritesFit, Fit, IInv, SoundWrites, Ops,
     Asking
<1>4. ASSUME NEW x \in D, Asking(x), f[x].res = "ok"
      PROVE  /\ entry'.acq = x.acq
             /\ \A a \in Attempts : Inside(a) => at[a] # x.proc
  <2>1. x \in ops BY <1>1 DEF Served
  <2>2. x = o BY <1>1, <1>2, <1>4, <2>1 DEF NobodyRelies
  <2> QED BY <1>2, <1>3, <1>4, <2>2, GrantedAlone
<1> QED BY <1>1, <1>2, <1>3, <1>4, MoveExcludes

\* The bucket drops the entry: it is too old for anyone to rely on.
LEMMA ExpireExcludes ==
    ASSUME Undisturbed, IInv, XInv, IInv', Expire
    PROVE  XInv'
<1> USE DEF Expire
<1> DEFINE g == [x \in ops |-> [x EXCEPT !.current = FALSE]]
<1>1. \A x \in ops : x \in Ops /\ Fit(x) BY DEF IInv, SoundWrites, XInv, WritesFit
<1>2. \A x \in ops : /\ g[x].kind = x.kind /\ g[x].proc = x.proc /\ g[x].acq = x.acq
                     /\ g[x].by = x.by /\ g[x].turn = x.turn /\ g[x].gone = x.gone
                     /\ g[x].res = x.res /\ g[x].age = x.age /\ g[x].current = FALSE
  BY <1>1 DEF Ops
<1>3. ops' = {g[x] : x \in ops} BY DEF Stale
<1> HIDE DEF g
<1>4. Served(ops, g) BY <1>1, <1>2, <1>3 DEF Served, Fit
<1>5. \A x \in ops : ~ Deletes(g[x]) BY <1>2 DEF Deletes
<1>6. /\ entry.age = TTL /\ local' = AllStale
      /\ entry'.age = 0 /\ entry'.acq \notin Attempts
  BY LockAssumption DEF Free
<1>7. NobodyRelies
  <2>1. ~ (entry.age <= lockSelfFence \/ entry.age <= 2 * TIMEOUT)
    BY <1>6, FenceAfterTimeout, LockAssumption DEF Undisturbed
  <2> QED BY <2>1, ReliedEntry
<1>8. \A x \in ops : ~ (Asking(x) /\ g[x].res = "ok") BY <1>2, <1>7 DEF NobodyRelies
<1> QED BY <1>4, <1>5, <1>6, <1>7, <1>8, MoveExcludes

\* Time passes: everything that is counted from a stamp grows by the same tick,
\* and it waits for the fence.
LEMMA TickExcludes ==
    ASSUME IInv, XInv, IInv', Tick
    PROVE  XInv'
<1> USE DEF Tick
<1> DEFINE g == [o \in ops |-> IF o.gone THEN o ELSE [o EXCEPT !.age = @ + 1]]
<1>1. \A x \in ops : x \in Ops /\ Fit(x) /\ x.age \in Nat /\ TIMEOUT \in Nat
  BY LockAssumption DEF IInv, SoundWrites, XInv, WritesFit, Ops, Ages
<1>2. ASSUME NEW x \in ops
      PROVE  /\ g[x].kind = x.kind /\ g[x].proc = x.proc /\ g[x].acq = x.acq
             /\ g[x].by = x.by /\ g[x].turn = x.turn /\ g[x].gone = x.gone
             /\ g[x].res = x.res /\ g[x].current = x.current
             /\ ~ x.gone => g[x].age = x.age + 1 /\ x.age < TIMEOUT
  <2>1. CASE x.gone BY <1>1, <2>1
  <2>2. CASE ~ x.gone BY <1>1, <2>2 DEF Ops
  <2> QED BY <2>1, <2>2
<1>3. ops' = {g[x] : x \in ops} OBVIOUS
<1> HIDE DEF g
<1>4. Served(ops, g)
  <2>1. \A x \in ops : ~ x.gone => g[x].age <= TIMEOUT BY <1>1, <1>2
  <2> QED BY <1>1, <1>2, <1>3, <2>1 DEF Served, Fit
<1>5. PICK f : /\ Served(ops, f)
               /\ \A x \in ops : /\ f[x].res = x.res /\ f[x].current = x.current
                                 /\ ~ x.gone => f[x].age = x.age + 1
  BY <1>2, <1>4
<1>6. /\ WritesFit' /\ OneWriteEach' /\ Ordered(ops)' /\ Alive' /\ Solo'
      /\ \A x \in ops, a \in Attempts : Since(f[x], a)' => Since(x, a)
  BY <1>5, ServedKeeps
<1>7. /\ \A y \in ops' : \E x \in ops : y = f[x]
      /\ \A x \in ops : /\ f[x].kind = x.kind /\ f[x].proc = x.proc /\ f[x].acq = x.acq
                        /\ f[x].by = x.by /\ f[x].gone = x.gone
      /\ phase' = phase /\ at' = at
  BY <1>5 DEF Served
<1>8. /\ entry'.acq = entry.acq /\ entry'.proc = entry.proc
      /\ entry.age \in Nat /\ entry'.age \in Nat /\ entry'.age <= entry.age + 1
  <2>1. entry \in Entries BY DEF IInv, TypeOK
  <2>2. CASE entry = Free BY <2>1, <2>2 DEF Entries, Ages
  <2>3. CASE entry # Free BY <2>1, <2>3 DEF Entries, Ages
  <2> QED BY <2>2, <2>3
<1>9. \A p \in Procs :
        /\ local'[p].acq = local[p].acq /\ local[p].unproven \in Nat
        /\ local[p].acq # NoAttempt => local'[p].unproven = Older(local[p].unproven)
  <2> SUFFICES ASSUME NEW p \in Procs
               PROVE  /\ local'[p].acq = local[p].acq /\ local[p].unproven \in Nat
                      /\ local[p].acq # NoAttempt =>
                            local'[p].unproven = Older(local[p].unproven)
    OBVIOUS
  <2>1. local[p] \in Memories BY DEF IInv, TypeOK
  <2>2. CASE local[p].acq = NoAttempt
    BY <2>1, <2>2, LockAssumption DEF Memories, Ages
  <2>3. CASE local[p].acq # NoAttempt
    BY <2>1, <2>3, LockAssumption DEF Memories, Ages
  <2> QED BY <2>2, <2>3
<1>10. NamesItsPlace' BY <1>7, <1>8, <1>9 DEF XInv, NamesItsPlace, Inside
<1>11. WorksInTime'
  <2> SUFFICES ASSUME NEW a \in Attempts, Working(a)
               PROVE  /\ entry'.acq = a /\ local'[at[a]].acq = a
                      /\ entry'.age <= local'[at[a]].unproven
                      /\ local'[at[a]].unproven <= lockSelfFence
    BY <1>7 DEF WorksInTime, Working
  <2> DEFINE u == local[at[a]].unproven
  <2>1. at[a] \in Procs BY DEF XInv, Alive, Working
  <2>2. entry.acq = a /\ local[at[a]].acq = a /\ entry.age <= u
    BY DEF XInv, WorksInTime
  <2>3. a # NoAttempt /\ u \in Nat BY <1>9, <2>1, LockAssumption
  <2>4. ~ (u >= lockSelfFence) BY <2>2, <2>3 DEF lockPastSelfFence
  <2>5. local'[at[a]].acq = a /\ local'[at[a]].unproven = Older(u)
    BY <1>9, <2>1, <2>2, <2>3
  <2> HIDE DEF u
  <2>6. Older(u) = u + 1 /\ u + 1 <= lockSelfFence
    BY <2>3, <2>4, FenceAfterTimeout, LockAssumption DEF Older, Smaller
  <2> QED BY <1>8, <2>2, <2>3, <2>5, <2>6
<1>12. AgesFit'
  <2> SUFFICES ASSUME NEW x \in ops, ~ f[x].gone, f[x].res = "ok", entry'.acq = f[x].acq,
                      f[x].kind \in {"create", "take", "renew", "adopt"}
               PROVE  entry'.age <= f[x].age
    BY <1>7 DEF AgesFit
  <2>1. /\ ~ x.gone /\ x.res = "ok" /\ entry.acq = x.acq
        /\ x.kind \in {"create", "take", "renew", "adopt"}
    BY <1>5, <1>7, <1>8
  <2>2. entry.age <= x.age BY <2>1 DEF XInv, AgesFit
  <2> QED BY <1>1, <1>5, <1>8, <2>1, <2>2
<1>13. \A x \in ops : Deletes(f[x]) <=> Deletes(x) BY <1>5, <1>7 DEF Deletes
<1>14. Granted'
  <2> SUFFICES ASSUME NEW x \in ops, Asking(f[x]), f[x].res = "ok"
               PROVE  /\ entry'.acq = f[x].acq
                      /\ \A a \in Attempts : Inside(a) => at[a] # f[x].proc
                      /\ \A y \in ops' : ~ Deletes(y)
    BY <1>7 DEF Granted, Asking, Deletes, Inside
  <2>1. Asking(x) /\ x.res = "ok" BY <1>5, <1>7 DEF Asking
  <2>2. /\ entry.acq = x.acq /\ \A a \in Attempts : Inside(a) => at[a] # x.proc
        /\ \A y \in ops : ~ Deletes(y)
    BY <2>1 DEF XInv, Granted
  <2> QED BY <1>7, <1>8, <1>13, <2>2
<1>15. Window'
  <2> SUFFICES ASSUME NEW x \in ops, NEW a \in Attempts, Asking(f[x]), Inside(a),
                      at[a] = f[x].proc, Since(f[x], a)'
               PROVE  entry'.acq = a /\ entry'.age <= TIMEOUT + f[x].age
    BY <1>7 DEF Window, Asking, Inside
  <2>1. Asking(x) /\ ~ x.gone /\ at[a] = x.proc /\ Since(x, a) BY <1>6, <1>7 DEF Asking
  <2>2. entry.acq = a /\ entry.age <= TIMEOUT + x.age BY <2>1 DEF XInv, Window
  <2> QED BY <1>1, <1>5, <1>8, <2>1, <2>2
<1>16. DeletesItsOwn'
  <2> SUFFICES ASSUME NEW x \in ops, Deletes(f[x]), entry.acq \in Attempts, Inside(entry.acq)
               PROVE  Deleting(f[x]) /\ f[x].by = entry.acq
    BY <1>7, <1>8 DEF DeletesItsOwn, Deletes, Deleting, Inside
  <2>1. Deletes(x) BY <1>13
  <2> QED BY <1>7, <2>1 DEF XInv, DeletesItsOwn, Deleting
<1> QED BY <1>6, <1>10, <1>11, <1>12, <1>14, <1>15, <1>16 DEF XInv

-----------------------------------------------------------------------------
(* The theorems.                                                           *)

\* Nobody has asked for the lock yet.
LEMMA InitExcludes ==
    ASSUME Init
    PROVE  XInv
<1> USE DEF Init
<1>1. \A a \in Attempts : phase[a] = "idle" /\ at[a] = NoProc OBVIOUS
<1>2. WritesFit /\ OneWriteEach /\ Ordered(ops)
  BY <1>1 DEF WritesFit, OneWriteEach, Ordered
<1>3. Alive /\ Solo BY <1>1 DEF Alive, Solo, Running, Inside
<1>4. NamesItsPlace BY LockAssumption DEF NamesItsPlace, Free, Forgotten
<1>5. AgesFit /\ Granted /\ Window /\ DeletesItsOwn
  BY DEF AgesFit, Granted, Window, DeletesItsOwn
<1>6. WorksInTime BY <1>1 DEF WorksInTime, Working
<1> QED BY <1>2, <1>3, <1>4, <1>5, <1>6 DEF XInv

\* Every step keeps the invariant while nothing is forced and no answer is lost.
LEMMA NextExcludes ==
    ASSUME Undisturbed, IInv, XInv, [Next]_vars
    PROVE  XInv'
<1>0. IInv' BY NextKeeps
<1>1. CASE StoreStep
  <2>1. PICK o \in ops : Store(o) \/ AnswerLost(o) BY <1>1 DEF StoreStep
  <2>2. CASE AnswerLost(o)
    BY <2>2, LockAssumption DEF AnswerLost, Undisturbed, IInv, TypeOK
  <2>3. CASE Store(o) /\ ~ Accepted(o) BY <2>3, RefusalExcludes
  <2>4. CASE Store(o) /\ Accepted(o) BY <1>0, <2>4, RenewalStored, OtherStored
  <2> QED BY <2>1, <2>2, <2>3, <2>4
<1>2. CASE AnswerStep
  <2>1. PICK o \in ops : \/ CreateRefused(o)
                         \/ TakeRefused(o)
                         \/ Acquired(o)
                         \/ Renewed(o)
                         \/ RenewalConflict(o)
                         \/ AdoptionConflict(o)
                         \/ RenewalFailed(o)
                         \/ Released(o)
                         \/ Reclaimed(o)
    BY <1>2 DEF AnswerStep
  <2>2. CASE CreateRefused(o)
    <3>1. Asking(o) /\ UNCHANGED <<entry, proc, local, active, at>>
      BY <2>2 DEF CreateRefused, Asking
    <3>2. CASE ops' \in Abandon(o) /\ phase' = [phase EXCEPT ![o.acq] = "done"]
      BY <1>0, <3>1, <3>2, AskerLeaves
    <3>3. CASE /\ deadHolderTakeover(o.acq, o.proc)
               /\ \E rest \in Abandon(o) :
                     ops' = Sending(rest, Write("take", o.proc, o.acq, o.by, o.age))
               /\ UNCHANGED phase
      BY <1>0, <3>1, <3>3, TakeoverExcludes
    <3> QED BY <2>2, <3>2, <3>3 DEF CreateRefused, Inspect
  <2>3. CASE TakeRefused(o)
    BY <1>0, <2>3, AskerLeaves DEF TakeRefused, TimedOut, Asking
  <2>4. CASE Acquired(o) BY <1>0, <2>4, AcquiredExcludes
  <2>5. CASE Renewed(o) BY <1>0, <2>5, RenewedExcludes
  <2>6. CASE RenewalConflict(o) \/ AdoptionConflict(o) BY <1>0, <2>6, ConflictExcludes
  <2>7. CASE RenewalFailed(o) BY <1>0, <2>7, RenewalFailedExcludes
  <2>8. CASE Released(o) BY <1>0, <2>8, ReleasedExcludes
  <2>9. CASE Reclaimed(o) BY <1>0, <2>9, ReclaimedExcludes
  <2> QED BY <2>1, <2>2, <2>3, <2>4, <2>5, <2>6, <2>7, <2>8, <2>9
<1>3. CASE RunStep
  <2>1. \A a \in Attempts : ~ ForceRelease(a)
    BY LockAssumption DEF ForceRelease, Undisturbed, IInv, TypeOK
  <2> QED
    BY <1>0, <1>3, <2>1, BeginAcquireExcludes, RenewExcludes, StopExcludes, FinishExcludes
    DEF RunStep
<1>4. CASE ProcStep BY <1>0, <1>4, StartExcludes, CrashExcludes DEF ProcStep
<1>5. CASE Expire BY <1>0, <1>5, ExpireExcludes
<1>6. CASE Tick BY <1>0, <1>6, TickExcludes
<1>7. CASE UNCHANGED vars
  <2>1. Heirs(ops, [x \in ops |-> x], {}) BY OwnHeirs
  <2>2. Ordered(ops)' BY <1>7 DEF vars, XInv, Ordered, Awaited
  <2>3. Queues(ops, [x \in ops |-> x], {}, {}) BY <1>7, <2>1, <2>2 DEF vars, Queues
  <2>4. OnlyStops BY <1>7 DEF vars, OnlyStops
  <2>5. NamesItsPlace' /\ WorksInTime' BY <1>7, <2>4, StillInTime DEF vars
  <2> QED BY <1>0, <1>7, <2>3, <2>4, <2>5, RenewalSide DEF vars
<1> QED BY <1>1, <1>2, <1>3, <1>4, <1>5, <1>6, <1>7 DEF Next

\* The lock, its memories, its queues and its clocks stay in step.
THEOREM ExclusionInvariance ==
    ASSUME Undisturbed
    PROVE  Spec => [](IInv /\ XInv)
<1>1. Init => IInv /\ XInv BY InitSound, InitExcludes
<1>2. IInv /\ XInv /\ [Next]_vars => IInv' /\ XInv'
  BY NextKeeps, NextExcludes
<1> QED BY <1>1, <1>2, PTL DEF Spec

\* A run that works holds the lock, its process remembers that acquisition and
\* counts from no later than the entry was stored, in every execution in which no
\* lock is released by force and no single answer is lost.
THEOREM WorkingRunProven ==
    ASSUME Undisturbed
    PROVE  Spec => []WorkingRunIsProven
<1>1. IInv /\ XInv => WorkingRunIsProven
  BY DEF XInv, WorksInTime, NamesItsPlace, WorkingRunIsProven
<1> QED BY <1>1, ExclusionInvariance, PTL

\* No two runs work under one gate key, whatever crashes, is delivered again, is
\* answered late or never, or is stored long after its sender gave up on it.
THEOREM RunsExcludeEachOther ==
    ASSUME Undisturbed
    PROVE  Spec => []MutualExclusion
<1>1. IInv /\ XInv => MutualExclusion
  BY DEF XInv, WorksInTime, MutualExclusion
<1> QED BY <1>1, ExclusionInvariance, PTL

-----------------------------------------------------------------------------
(* Standing down.                                                          *)

\* What the argument needs of a deployment.  No write is stored once its sender
\* has given up on it (a connection that keeps its order delivers it or breaks),
\* two exchanges fit before a takeover and before the TTL, and a renewal hears of
\* its refusal and reads the entry back before the keep-alive timer goes off
\* again.  Locks may be released by force and answers may be lost, as many as
\* there are, and a renewal may be sent while an adoption is under way.
Punctual ==
    /\ MaxGone = 0
    /\ READBACK < REFRESH
    /\ 2 * TIMEOUT + Skew < DEAD
    /\ 2 * TIMEOUT < TTL

\* A write fits the attempts it is for, whatever was forced.
Suits(o) ==
    /\ ~ o.gone /\ o.age <= TIMEOUT
    /\ o.kind \in {"create", "take", "renew", "adopt"} =>
           o.acq \in Attempts /\ at[o.acq] = o.proc
    /\ Asking(o) => o.by = o.acq /\ phase[o.acq] = "acquiring"
    /\ Renewing(o) => /\ o.by \in Attempts /\ at[o.by] = o.proc
                      /\ phase[o.by] \notin {"idle", "acquiring"}
    /\ Deleting(o) /\ o.by \in Attempts => phase[o.by] \notin {"idle", "acquiring"}

\* An attempt asks once.
AsksOnce ==
    \A x, y \in ops : Asking(x) /\ Asking(y) /\ x.acq = y.acq => x = y

\* Whoever has begun and is not done is in a process that lives.
Seated ==
    \A a \in Attempts :
        /\ phase[a] = "idle" => at[a] = NoProc
        /\ phase[a] \in {"acquiring", "working", "stopping"} =>
              at[a] \in Procs /\ proc[at[a]] # "dead"

\* An acquisition is stored and remembered only where its attempt runs.
NamesItsSeat ==
    /\ entry.acq \in Attempts => at[entry.acq] = entry.proc
    /\ \A p \in Procs : local[p].acq \in Attempts => at[local[p].acq] = p

\* What holds whatever was forced.
PInv ==
    /\ \A o \in ops : Suits(o)
    /\ AsksOnce
    /\ Seated
    /\ NamesItsSeat

\* One run per process, and that one is registered and remembered.
OneRun ==
    /\ \A a \in Attempts : Running(a) => active[at[a]] = a
    /\ \A a, b \in Attempts : Running(a) /\ Running(b) /\ at[a] = at[b] => a = b
    /\ \A a \in Attempts :
          Running(a) /\ local[at[a]].acq # NoAttempt => local[at[a]].acq = a

\* No deletion on its way would be accepted.
Undeleted == \A x \in ops : ~ Deletes(x)

\* The entry is a's, younger than t, and nobody is about to delete it.
Fresh(a, t) == entry.acq = a /\ entry.age <= t /\ Undeleted

\* An attempt whose answer is on its way holds the entry, in a process without a run.
GrantStands ==
    \A o \in ops : Asking(o) /\ o.res = "ok" =>
        /\ Fresh(o.acq, o.age)
        /\ \A b \in Attempts : Running(b) => at[b] # o.proc

\* A create sent before another attempt of its process came in finds that one's
\* entry; a takeover sent before finds the entry moved.
AskedTooLate ==
    \A b \in Attempts, o \in ops : Running(b) /\ Asking(o) /\ o.proc = at[b] =>
        /\ o.kind = "create" => Fresh(b, o.age + TIMEOUT)
        /\ o.kind = "take" => ~ o.current /\ o.res # "ok"

\* An adoption that has not been accepted, or was not when it was answered.
Pending(o) == o.kind = "adopt" /\ o.res \in {"sent", "conflict"}

\* A run renews its own acquisition, and an adoption names the entry's revision
\* for as long as the entry is its acquisition's, until it is accepted.
RenewsItsOwn ==
    \A o \in ops : Renewing(o) =>
        /\ o.by = o.acq
        /\ Pending(o) /\ ~ o.current => entry.acq # o.acq

\* A write that was refused does not know the entry's revision.
RefusedAreStale(S) == \A x \in S : x.res = "conflict" => ~ x.current

\* The renewals of one run: the refused one has left before the next is sent, so
\* there is one, behind whatever adoption is under way, and no two adoptions are
\* both still to be served.
InTurn(S) ==
    /\ \A x \in S : x.kind = "renew" => x.age <= READBACK
    /\ \A x, y \in S : x # y /\ Renewing(x) /\ Renewing(y) /\ x.by = y.by =>
          /\ ~ (x.kind = "renew" /\ y.kind = "renew")
          /\ x.kind = "adopt" /\ y.kind = "renew" => x.turn < y.turn
          /\ x.kind = "adopt" /\ y.kind = "adopt" => ~ (x.res = "sent" /\ y.res = "sent")

\* What holds until a lock is released by force.
SInv == forced = 0 => OneRun /\ GrantStands /\ AskedTooLate /\ RenewsItsOwn

-----------------------------------------------------------------------------
(* Steps that leave the entry alone.                                       *)

\* y is the write x, however old, answered or current it is by now.
Bears(y, x) ==
    /\ y.kind = x.kind /\ y.proc = x.proc /\ y.acq = x.acq /\ y.by = x.by
    /\ y.gone = x.gone

\* y is x, perhaps moved up in the queue or answered with less than a success.
Echo(y, x) ==
    /\ Bears(y, x)
    /\ y.current = x.current /\ y.age = x.age
    /\ y.res = "ok" => x.res = "ok"
    /\ y.res = "sent" => x.res = "sent"
    /\ y.res = "conflict" => x.res \in {"sent", "conflict"}

\* Every write of T was one of ops.
Drawn(T, g) ==
    /\ g \in [T -> ops]
    /\ \A y \in T : Bears(y, g[y])
    /\ \A y, z \in T : g[y] = g[z] => y = z

\* The writes T are left of ops, without R.
Remain(T, g, R) ==
    /\ Drawn(T, g)
    /\ \A y \in T : g[y] \notin R /\ Echo(y, g[y])

\* A step: the writes T go on and the writes N, at most one, are sent.
Passes(T, g, N) ==
    /\ Drawn(T, g) /\ ops' = T \cup N
    /\ \A w, v \in N : w = v

\* With nothing given up, every write remains.
LEMMA AllRemain == Remain(ops, [x \in ops |-> x], {})
BY DEF Remain, Drawn, Echo, Bears

\* When o is answered, the others remain.
LEMMA OthersRemain ==
    ASSUME SoundWrites(ops), NEW o \in ops
    PROVE  \E g : Remain(Without(o), g, {o})
<1> DEFINE D == ops \ {o}
           f == [x \in D |-> MovedUp(x, o)]
           W == Without(o)
           g == [y \in W |-> CHOOSE x \in D : f[x] = y]
<1>1. W = {f[x] : x \in D} BY DEF Without, MovedUp
<1>2. ASSUME NEW x \in D PROVE Echo(f[x], x)
  <2>1. x \in Ops /\ o \in Ops BY DEF SoundWrites
  <2>2. CASE f[x] = x BY <2>2 DEF Echo, Bears
  <2>3. CASE f[x] = [x EXCEPT !.turn = @ - 1] BY <2>1, <2>3 DEF Ops, Echo, Bears
  <2> QED BY <2>2, <2>3 DEF MovedUp
<1> HIDE DEF f
<1>3. ASSUME NEW y \in W PROVE g[y] \in D /\ f[g[y]] = y
  <2>1. \E x \in D : f[x] = y BY <1>1
  <2> QED BY <2>1
<1>4. g \in [W -> ops] BY <1>3
<1> HIDE DEF g
<1>5. Remain(W, g, {o}) BY <1>2, <1>3, <1>4 DEF Remain, Drawn, Echo
<1> QED BY <1>5

\* Nothing stays behind when a write is given up.
LEMMA NothingStaysBehind ==
    ASSUME Punctual, SoundWrites(ops), NEW o \in ops
    PROVE  Abandon(o) = {Without(o)}
<1> DEFINE n == Cardinality({x \in ops : x.gone})
<1>1. n \in Nat
  <2>1. {x \in ops : x.gone} \in SUBSET ops OBVIOUS
  <2> QED BY <2>1, FS_Subset, FS_CardinalityType DEF SoundWrites
<1>2. ~ (n < MaxGone) BY <1>1 DEF Punctual
<1> QED BY <1>2 DEF Abandon

\* A write is for what it was for.
LEMMA BearsFacts ==
    ASSUME NEW x, NEW y, Bears(y, x)
    PROVE  /\ Asking(y) <=> Asking(x)
           /\ Renewing(y) <=> Renewing(x)
           /\ Deleting(y) <=> Deleting(x)
BY DEF Bears, Asking, Renewing, Deleting

\* Where the attempts are: those that began stay where they are, those that still
\* ask are still acquiring, and the entry and the memories name their places.
Staying(T) ==
    /\ \A a \in Attempts : at[a] # NoProc => at'[a] = at[a]
    /\ \A a \in Attempts : phase[a] \notin {"idle", "acquiring"} =>
                              phase'[a] \notin {"idle", "acquiring"}
    /\ \A y \in T : y.age <= TIMEOUT /\ (Asking(y) => phase'[y.acq] = "acquiring")
    /\ Seated' /\ NamesItsSeat'

\* The writes keep suiting their attempts.
LEMMA SuitsOn ==
    ASSUME IInv, PInv, NEW T, NEW g, NEW N, Passes(T, g, N), Staying(T),
           \A w \in N : Suits(w)',
           \A w \in N, y \in T : Asking(w) /\ Asking(y) => w.acq # y.acq
    PROVE  PInv'
<1>1. \A y \in T : g[y] \in ops /\ g[y] \in Ops /\ Suits(g[y]) /\ Bears(y, g[y])
  BY DEF Passes, Drawn, PInv, IInv, SoundWrites
<1>2. ASSUME NEW y \in T PROVE Suits(y)'
  <2> DEFINE x == g[y]
  <2>1. x \in Ops /\ Suits(x) /\ Bears(y, x) BY <1>1
  <2> HIDE DEF x
  <2>2. /\ Asking(y) <=> Asking(x)
        /\ Renewing(y) <=> Renewing(x)
        /\ Deleting(y) <=> Deleting(x)
    BY <2>1, BearsFacts
  <2>3. x.proc \in Procs /\ x.proc # NoProc BY <2>1, LockAssumption DEF Ops
  <2>4. ~ y.gone /\ y.age <= TIMEOUT BY <2>1 DEF Suits, Bears, Staying
  <2>5. y.kind \in {"create", "take", "renew", "adopt"} =>
            y.acq \in Attempts /\ at'[y.acq] = y.proc
    BY <2>1, <2>3 DEF Suits, Bears, Staying
  <2>6. Asking(y) => y.by = y.acq /\ phase'[y.acq] = "acquiring"
    BY <2>1, <2>2 DEF Suits, Bears, Staying
  <2>7. Renewing(y) => /\ y.by \in Attempts /\ at'[y.by] = y.proc
                       /\ phase'[y.by] \notin {"idle", "acquiring"}
    BY <2>1, <2>2, <2>3 DEF Suits, Bears, Staying
  <2>8. Deleting(y) /\ y.by \in Attempts => phase'[y.by] \notin {"idle", "acquiring"}
    BY <2>1, <2>2 DEF Suits, Bears, Staying
  <2> QED BY <2>4, <2>5, <2>6, <2>7, <2>8 DEF Suits, Asking, Renewing, Deleting
<1>3. \A o \in ops' : Suits(o)' BY <1>2 DEF Passes
<1>4. AsksOnce'
  <2>1. ASSUME NEW y \in T, NEW z \in T, Asking(y), Asking(z), y.acq = z.acq
        PROVE  y = z
    <3>1. Bears(y, g[y]) /\ Bears(z, g[z]) /\ g[y] \in ops /\ g[z] \in ops BY <1>1
    <3>2. g[y] = g[z] => y = z BY DEF Passes, Drawn
    <3>3. Asking(g[y]) /\ Asking(g[z]) BY <2>1, <3>1, BearsFacts
    <3> QED BY <2>1, <3>1, <3>2, <3>3 DEF PInv, AsksOnce, Bears
  <2>2. \A x, y \in T \cup N : Asking(x) /\ Asking(y) /\ x.acq = y.acq => x = y
    BY <2>1 DEF Passes
  <2> QED BY <2>2 DEF AsksOnce, Passes, Asking
<1> QED BY <1>3, <1>4 DEF PInv, Staying

\* The entry and the memories go on naming their places when they do not change.
LEMMA SeatsNamed ==
    ASSUME IInv, PInv, entry' = entry,
           \A a \in Attempts : at[a] # NoProc => at'[a] = at[a],
           \A p \in Procs : local'[p].acq \in {local[p].acq, NoAttempt}
    PROVE  NamesItsSeat'
<1>1. entry.acq \in Attempts => at'[entry.acq] = entry.proc
  <2> SUFFICES ASSUME entry.acq \in Attempts PROVE at'[entry.acq] = entry.proc OBVIOUS
  <2>1. entry # Free BY LockAssumption DEF Free
  <2>2. entry.proc # NoProc BY <2>1, LockAssumption DEF IInv, Started
  <2> QED BY <2>2 DEF PInv, NamesItsSeat
<1>2. \A p \in Procs : local'[p].acq \in Attempts => at'[local'[p].acq] = p
  BY LockAssumption DEF PInv, NamesItsSeat
<1> QED BY <1>1, <1>2 DEF NamesItsSeat

\* Who runs: nobody comes in, whoever goes on is still registered and remembered,
\* and what is sent fits what is going on.
NobodyComesIn(T, N) ==
    /\ \A b \in Attempts : Running(b)' =>
          /\ Running(b) /\ at'[b] = at[b]
          /\ active'[at[b]] = active[at[b]]
          /\ local'[at[b]].acq \in {local[at[b]].acq, NoAttempt}
    /\ \A w \in N :
          /\ w.res = "sent"
          /\ Asking(w) => \A b \in Attempts : Running(b)' => at[b] # w.proc
          /\ Renewing(w) => w.by = w.acq /\ (w.kind = "adopt" => w.current)
          /\ Deletes(w) => /\ \A y \in T : ~ (Asking(y) /\ y.res = "ok")
                           /\ \A b \in Attempts : Running(b)' => entry.acq # b

\* Grants stand, and runs keep renewing their own.
LEMMA QuietStands ==
    ASSUME IInv, PInv, OneRun, GrantStands, AskedTooLate, RenewsItsOwn,
           NEW T, NEW g, NEW R, NEW N, Remain(T, g, R), ops' = T \cup N,
           entry' = entry, NobodyComesIn(T, N)
    PROVE  OneRun' /\ GrantStands' /\ AskedTooLate' /\ RenewsItsOwn'
<1>1. ASSUME NEW y \in T
      PROVE  /\ g[y] \in ops /\ Echo(y, g[y])
             /\ Asking(y) <=> Asking(g[y])
             /\ Renewing(y) <=> Renewing(g[y])
             /\ Deletes(y) => Deletes(g[y])
  <2>1. g[y] \in ops /\ Echo(y, g[y]) BY DEF Remain, Drawn
  <2> QED BY <2>1, BearsFacts DEF Echo, Deletes, Bears
<1>2. OneRun' BY DEF OneRun, NobodyComesIn, Running
<1>3. ASSUME NEW a, NEW t, Fresh(a, t), \A w \in N : ~ Deletes(w)
      PROVE  Fresh(a, t)'
  BY <1>1, <1>3 DEF Fresh, Undeleted, Deletes
<1>4. GrantStands'
  <2> SUFFICES ASSUME NEW y \in ops', Asking(y), y.res = "ok"
               PROVE  /\ Fresh(y.acq, y.age)'
                      /\ \A b \in Attempts : Running(b)' => at'[b] # y.proc
    BY DEF GrantStands, Asking
  <2>1. y \in T BY DEF NobodyComesIn
  <2>2. /\ g[y] \in ops /\ Asking(g[y]) /\ g[y].res = "ok"
        /\ g[y].acq = y.acq /\ g[y].age = y.age /\ g[y].proc = y.proc
    BY <1>1, <2>1 DEF Echo, Bears
  <2>3. Fresh(y.acq, y.age) /\ \A b \in Attempts : Running(b) => at[b] # y.proc
    BY <2>2 DEF GrantStands
  <2>4. \A w \in N : ~ Deletes(w) BY <2>1 DEF NobodyComesIn
  <2> QED BY <1>3, <2>3, <2>4 DEF NobodyComesIn
<1>5. AskedTooLate'
  <2> SUFFICES ASSUME NEW b \in Attempts, NEW y \in ops',
                      Running(b)', Asking(y), y.proc = at'[b]
               PROVE  /\ y.kind = "create" => Fresh(b, y.age + TIMEOUT)'
                      /\ y.kind = "take" => ~ y.current /\ y.res # "ok"
    BY DEF AskedTooLate, Asking
  <2>1. Running(b) /\ at'[b] = at[b] BY DEF NobodyComesIn
  <2>2. y \in T BY <2>1 DEF NobodyComesIn
  <2>3. /\ g[y] \in ops /\ Asking(g[y]) /\ g[y].proc = at[b]
        /\ g[y].kind = y.kind /\ g[y].age = y.age /\ g[y].current = y.current
        /\ y.res = "ok" => g[y].res = "ok"
    BY <1>1, <2>1, <2>2 DEF Echo, Bears
  <2>4. CASE y.kind = "create"
    <3>1. Fresh(b, y.age + TIMEOUT) BY <2>1, <2>3, <2>4 DEF AskedTooLate
    <3>2. \A w \in N : ~ Deletes(w) BY <3>1 DEF NobodyComesIn, Fresh
    <3> QED BY <1>3, <2>4, <3>1, <3>2
  <2>5. CASE y.kind # "create" BY <2>1, <2>3, <2>5 DEF AskedTooLate
  <2> QED BY <2>4, <2>5
<1>6. RenewsItsOwn'
  <2> SUFFICES ASSUME NEW y \in ops', Renewing(y)
               PROVE  y.by = y.acq /\ (Pending(y) /\ ~ y.current => entry'.acq # y.acq)
    BY DEF RenewsItsOwn, Renewing
  <2>1. CASE y \in T
    BY <1>1, <2>1 DEF RenewsItsOwn, Pending, Echo, Bears
  <2>2. CASE y \in N BY <2>2 DEF NobodyComesIn, Pending
  <2> QED BY <2>1, <2>2
<1> QED BY <1>2, <1>4, <1>5, <1>6

\* A write that is sent is the one that was meant, at the end of its queue.
LEMMA SendingJoins ==
    ASSUME NEW S, S \subseteq Ops, IsFiniteSet(S), NEW o \in Ops
    PROVE  \E w \in Ops : /\ Sending(S, o) = S \cup {w}
                          /\ Bears(w, o) /\ w.age = o.age
                          /\ w.current = o.current /\ w.res = o.res
<1> DEFINE n == Cardinality(Awaited(S, o.proc))
           w == [o EXCEPT !.turn = n]
<1>1. n \in Nat
  <2>1. Awaited(S, o.proc) \in SUBSET S BY DEF Awaited
  <2> QED BY <2>1, FS_Subset, FS_CardinalityType
<1>2. /\ w \in Ops /\ Bears(w, o) /\ w.age = o.age
      /\ w.current = o.current /\ w.res = o.res
  BY <1>1 DEF Ops, Bears
<1>3. Sending(S, o) = S \cup {w} BY DEF Sending
<1> QED BY <1>2, <1>3

\* While forced counts nothing, the whole invariant is there.
Steady == OneRun /\ GrantStands /\ AskedTooLate /\ RenewsItsOwn

\* An answer or a timeout: o is taken off, and whatever else changes is a run or a
\* request that ends or is told to stop, or a memory that is dropped.
LEMMA AnswerStands ==
    ASSUME IInv, PInv, SInv, NEW o \in ops, ops' = Without(o),
           UNCHANGED <<entry, active, at, forced>>,
           \A p \in Procs : proc[p] # "dead" => proc'[p] # "dead",
           \A p \in Procs : local'[p].acq \in {local[p].acq, NoAttempt},
           \A a \in Attempts :
               \/ phase'[a] = phase[a]
               \/ Asking(o) /\ a = o.acq /\ phase'[a] = "done"
               \/ /\ phase[a] \notin {"idle", "acquiring"}
                  /\ phase'[a] \in {"stopping", "done"}
                  /\ Running(a)' => Running(a)
    PROVE  PInv' /\ SInv'
<1>1. PICK g : Remain(Without(o), g, {o}) BY OthersRemain DEF IInv
<1> DEFINE T == Without(o)
<1> HIDE DEF T
<1>2. Remain(T, g, {o}) /\ ops' = T \cup {} BY <1>1 DEF T
<1>3. Passes(T, g, {}) BY <1>2 DEF Passes, Remain
<1>4. ASSUME NEW y \in T
      PROVE  y.age <= TIMEOUT /\ (Asking(y) => phase'[y.acq] = "acquiring")
  <2> DEFINE x == g[y]
  <2>1. x \in ops /\ x # o /\ Echo(y, x) /\ Suits(x) BY <1>2 DEF Remain, Drawn, PInv
  <2> HIDE DEF x
  <2>2. Asking(y) <=> Asking(x) BY <2>1, BearsFacts DEF Echo
  <2>3. y.age <= TIMEOUT BY <2>1 DEF Echo, Suits
  <2>4. ASSUME Asking(y) PROVE phase'[y.acq] = "acquiring"
    <3>1. x.acq \in Attempts /\ phase[x.acq] = "acquiring" /\ y.acq = x.acq
      BY <2>1, <2>2, <2>4 DEF Suits, Echo, Bears, Asking
    <3>2. ~ (Asking(o) /\ x.acq = o.acq)
      BY <2>1, <2>2, <2>4 DEF PInv, AsksOnce
    <3> QED BY <3>1, <3>2
  <2> QED BY <2>3, <2>4
<1>5. Seated'
  <2> SUFFICES ASSUME NEW a \in Attempts
               PROVE  /\ phase'[a] = "idle" => at[a] = NoProc
                      /\ phase'[a] \in {"acquiring", "working", "stopping"} =>
                            at[a] \in Procs /\ proc'[at[a]] # "dead"
    BY DEF Seated
  <2>1. /\ phase[a] = "idle" => at[a] = NoProc
        /\ phase[a] \in {"acquiring", "working", "stopping"} =>
              at[a] \in Procs /\ proc[at[a]] # "dead"
    BY DEF PInv, Seated
  <2>2. CASE phase'[a] = phase[a] BY <2>1, <2>2
  <2>3. CASE phase'[a] = "done" BY <2>3
  <2>4. CASE phase'[a] = "stopping" /\ (Running(a)' => Running(a))
    BY <2>1, <2>4 DEF Running
  <2> QED BY <2>2, <2>3, <2>4
<1>6. NamesItsSeat' BY SeatsNamed
<1>7. Staying(T) BY <1>4, <1>5, <1>6 DEF Staying
<1>8. PInv' BY <1>3, <1>7, SuitsOn
<1>9. ASSUME forced' = 0 PROVE Steady'
  <2>1. NobodyComesIn(T, {})
    BY DEF NobodyComesIn, Running, PInv, Seated
  <2> QED BY <1>2, <1>9, <2>1, QuietStands DEF SInv, Steady
<1> QED BY <1>8, <1>9 DEF SInv, Steady

-----------------------------------------------------------------------------
(* Acquiring.                                                              *)

\* Whoever asks does so in a process without a run.
LEMMA BeginAcquireStands ==
    ASSUME IInv, PInv, SInv, NEW a \in Attempts, NEW p \in Procs, BeginAcquire(a, p)
    PROVE  PInv' /\ SInv'
<1> USE DEF BeginAcquire
<1> DEFINE o == Write("create", p, a, a, 0)
           g == [x \in ops |-> x]
<1>1. o \in Ops BY LockAssumption, WriteTyped DEF Acqs, Ages
<1>2. PICK w \in Ops : /\ ops' = ops \cup {w} /\ Bears(w, o) /\ w.age = o.age
                       /\ w.current = o.current /\ w.res = o.res
  BY <1>1, SendingJoins DEF IInv, SoundWrites
<1>3. /\ w.kind = "create" /\ w.proc = p /\ w.acq = a /\ w.by = a /\ w.age = 0
      /\ w.gone = FALSE /\ w.res = "sent"
  BY <1>2 DEF Bears, Write
<1> HIDE DEF o, g
<1>4. Remain(ops, g, {}) BY AllRemain DEF g
<1>5. Passes(ops, g, {w}) BY <1>2, <1>4 DEF Passes, Remain
<1>6. at[a] = NoProc BY DEF PInv, Seated
<1>7. /\ at' = [at EXCEPT ![a] = p] /\ phase' = [phase EXCEPT ![a] = "acquiring"]
      /\ at'[a] = p /\ phase'[a] = "acquiring"
      /\ \A b \in Attempts : b # a => at'[b] = at[b] /\ phase'[b] = phase[b]
  BY DEF IInv, TypeOK
<1>8. \A y \in ops : y.age <= TIMEOUT /\ (Asking(y) => y.acq \in Attempts /\ phase[y.acq] = "acquiring")
  BY DEF PInv, Suits, Asking
<1>9. \A b \in Attempts : at[b] # NoProc => at'[b] = at[b] BY <1>6, <1>7
<1>10. Staying(ops)
  <2>1. Seated' BY <1>7, LockAssumption DEF PInv, Seated
  <2>2. NamesItsSeat' BY <1>9, SeatsNamed
  <2> QED BY <1>7, <1>8, <1>9, <2>1, <2>2 DEF Staying
<1>11. Suits(w)'
  BY <1>3, <1>7, LockAssumption DEF Suits, Asking, Renewing, Deleting
<1>12. \A y \in ops : Asking(y) => w.acq # y.acq BY <1>3, <1>8
<1>13. PInv'
  <2>1. ~ Renewing(w) BY <1>3 DEF Renewing
  <2> QED BY <1>5, <1>10, <1>11, <1>12, <2>1, SuitsOn
<1>14. ASSUME forced' = 0 PROVE Steady'
  <2>1. \A b \in Attempts : Running(b)' => Running(b) /\ b # a
    BY <1>7 DEF Running
  <2>2. \A b \in Attempts : Running(b) => at[b] # p
    BY <1>14, LockAssumption DEF SInv, OneRun
  <2>3. NobodyComesIn(ops, {w})
    BY <1>3, <1>7, <2>1, <2>2 DEF NobodyComesIn, Asking, Renewing, Deletes
  <2> QED BY <1>2, <1>4, <1>14, <2>3, QuietStands DEF SInv, Steady
<1> QED BY <1>13, <1>14 DEF SInv, Steady

\* A takeover is not sent where a run of the same process holds the entry.
LEMMA CreateRefusedStands ==
    ASSUME Punctual, IInv, PInv, SInv, NEW o \in ops, CreateRefused(o)
    PROVE  PInv' /\ SInv'
<1> USE DEF CreateRefused
<1>1. /\ o \in Ops /\ Suits(o) /\ Asking(o) /\ Abandon(o) = {Without(o)}
      /\ SoundWrites(ops)
  BY NothingStaysBehind DEF IInv, SoundWrites, PInv, Asking
<1>2. o.acq \in Attempts /\ o.by = o.acq /\ at[o.acq] = o.proc /\ phase[o.acq] = "acquiring"
  BY <1>1 DEF Suits, Asking
<1>3. CASE /\ deadHolderTakeover(o.acq, o.proc)
           /\ \E rest \in Abandon(o) :
                 ops' = Sending(rest, Write("take", o.proc, o.acq, o.by, o.age))
           /\ UNCHANGED phase
  <2> DEFINE t == Write("take", o.proc, o.acq, o.by, o.age)
             T == Without(o)
  <2>1. ops' = Sending(T, t) BY <1>1, <1>3
  <2>2. t \in Ops BY <1>1, WriteTyped DEF Ops
  <2>3. T \subseteq Ops /\ IsFiniteSet(T) BY <1>1, WithoutSound DEF SoundWrites
  <2>4. PICK g : Remain(T, g, {o}) BY <1>1, OthersRemain
  <2>5. PICK w \in Ops : /\ Sending(T, t) = T \cup {w} /\ Bears(w, t) /\ w.age = t.age
                         /\ w.current = t.current /\ w.res = t.res
    <3> HIDE DEF T, t
    <3> QED BY <2>2, <2>3, SendingJoins
  <2>6. /\ w.kind = "take" /\ w.proc = o.proc /\ w.acq = o.acq /\ w.by = o.by
        /\ w.age = o.age /\ w.gone = FALSE /\ w.res = "sent"
    BY <2>5 DEF Bears, Write
  <2> HIDE DEF T, t
  <2>7. ops' = T \cup {w} BY <2>1, <2>5
  <2>8. ASSUME NEW y \in T
        PROVE  /\ y.age <= TIMEOUT
               /\ Asking(y) => phase[y.acq] = "acquiring" /\ y.acq # o.acq
    <3> DEFINE x == g[y]
    <3>1. x \in ops /\ x # o /\ Echo(y, x) /\ Suits(x) BY <2>4 DEF Remain, Drawn, PInv
    <3> HIDE DEF x
    <3>2. Asking(y) <=> Asking(x) BY <3>1, BearsFacts DEF Echo
    <3>3. y.age <= TIMEOUT BY <3>1 DEF Echo, Suits
    <3>4. ASSUME Asking(y) PROVE phase[y.acq] = "acquiring" /\ y.acq # o.acq
      BY <1>1, <3>1, <3>2, <3>4 DEF Suits, Echo, Bears, PInv, AsksOnce
    <3> QED BY <3>3, <3>4
  <2>9. Staying(T)
    <3>1. Seated' BY <1>3 DEF PInv, Seated
    <3>2. NamesItsSeat' BY SeatsNamed
    <3> QED BY <1>3, <2>8, <3>1, <3>2 DEF Staying
  <2>10. PInv'
    <3>1. Suits(w)'
      BY <1>1, <1>2, <1>3, <2>6 DEF Suits, Asking, Renewing, Deleting
    <3>2. ~ Renewing(w) BY <2>6 DEF Renewing
    <3>3. Passes(T, g, {w}) BY <2>4, <2>7 DEF Passes, Remain
    <3> QED BY <2>6, <2>8, <2>9, <3>1, <3>2, <3>3, SuitsOn
  <2>11. ASSUME forced' = 0 PROVE Steady'
    <3>1. ASSUME NEW b \in Attempts, Running(b) PROVE at[b] # o.proc
      <4>1. at[b] = o.proc => entry.acq = b
        BY <1>1, <2>11, <3>1 DEF SInv, AskedTooLate, Fresh
      <4>2. entry.acq = b => entry.proc = at[b] BY DEF PInv, NamesItsSeat
      <4> QED BY <1>3, <4>1, <4>2 DEF deadHolderTakeover
    <3>2. NobodyComesIn(T, {w})
      BY <1>3, <2>6, <3>1 DEF NobodyComesIn, Running, Renewing, Deletes
    <3> QED BY <2>4, <2>7, <2>11, <3>2, QuietStands DEF SInv, Steady
  <2> QED BY <2>10, <2>11 DEF SInv, Steady
<1>4. CASE /\ ops' \in Abandon(o)
           /\ phase' = [phase EXCEPT ![o.acq] = "done"]
  <2>1. ops' = Without(o) BY <1>1, <1>4
  <2>2. \A b \in Attempts : phase'[b] = phase[b] \/ (b = o.acq /\ phase'[b] = "done")
    BY <1>4 DEF IInv, TypeOK
  <2> QED BY <1>1, <2>1, <2>2, AnswerStands
<1> QED BY <1>3, <1>4 DEF Inspect

\* A takeover that did not come off.
LEMMA TakeRefusedStands ==
    ASSUME Punctual, IInv, PInv, SInv, NEW o \in ops, TakeRefused(o)
    PROVE  PInv' /\ SInv'
<1> USE DEF TakeRefused
<1>1. ops' = Without(o) BY NothingStaysBehind DEF IInv, TimedOut
<1>2. Asking(o) BY DEF Asking, TimedOut
<1>3. \A b \in Attempts : phase'[b] = phase[b] \/ (b = o.acq /\ phase'[b] = "done")
  BY DEF IInv, TypeOK
<1> QED BY <1>1, <1>2, <1>3, AnswerStands

\* Whoever comes in holds the entry, and is alone in its process.
LEMMA AcquiredStands ==
    ASSUME Punctual, IInv, PInv, SInv, NEW o \in ops, Acquired(o)
    PROVE  PInv' /\ SInv'
<1> USE DEF Acquired
<1>1. /\ o \in Ops /\ Suits(o) /\ Asking(o) /\ SoundWrites(ops) /\ ops' = Without(o)
      /\ o.res = "ok"
  BY DEF IInv, SoundWrites, PInv, Asking, Answered
<1>2. /\ o.acq \in Attempts /\ o.by = o.acq /\ at[o.acq] = o.proc /\ o.proc \in Procs
      /\ phase[o.acq] = "acquiring" /\ o.age \in Nat /\ o.age <= TIMEOUT
  BY <1>1 DEF Suits, Asking, Ops, Ages
<1>3. PICK g : Remain(Without(o), g, {o}) BY <1>1, OthersRemain
<1> DEFINE T == Without(o)
<1> HIDE DEF T
<1>4. Remain(T, g, {o}) /\ ops' = T BY <1>1, <1>3 DEF T
<1>5. /\ local'[o.proc].acq = o.acq /\ active'[o.proc] = o.acq /\ phase'[o.acq] = "working"
      /\ \A p \in Procs : p # o.proc => local'[p] = local[p] /\ active'[p] = active[p]
      /\ \A b \in Attempts : b # o.acq => phase'[b] = phase[b]
  BY <1>2 DEF IInv, TypeOK
<1>6. ASSUME NEW y \in T
      PROVE  /\ g[y] \in ops /\ g[y] # o /\ Echo(y, g[y]) /\ Suits(g[y]) /\ Sound(g[y])
             /\ g[y] \in Ops
             /\ Asking(y) <=> Asking(g[y])
             /\ Renewing(y) <=> Renewing(g[y])
             /\ Asking(y) => y.acq # o.acq
  <2>1. /\ g[y] \in ops /\ g[y] # o /\ Echo(y, g[y]) /\ Suits(g[y]) /\ Sound(g[y])
        /\ g[y] \in Ops
    BY <1>1, <1>4 DEF Remain, Drawn, PInv, SoundWrites
  <2>2. /\ Asking(y) <=> Asking(g[y])
        /\ Renewing(y) <=> Renewing(g[y])
    BY <2>1, BearsFacts DEF Echo
  <2>3. Asking(y) => y.acq # o.acq
    BY <1>1, <2>1, <2>2 DEF PInv, AsksOnce, Echo, Bears
  <2> QED BY <2>1, <2>2, <2>3
<1>7. PInv'
  <2>1. Seated' BY <1>2, <1>5 DEF PInv, Seated
  <2>2. NamesItsSeat' BY <1>2, <1>5 DEF PInv, NamesItsSeat
  <2>3. \A y \in T : y.age <= TIMEOUT /\ (Asking(y) => phase'[y.acq] = "acquiring")
    <3> SUFFICES ASSUME NEW y \in T
                 PROVE  y.age <= TIMEOUT /\ (Asking(y) => phase'[y.acq] = "acquiring")
      OBVIOUS
    <3> DEFINE x == g[y]
    <3>1. /\ Echo(y, x) /\ Suits(x) /\ (Asking(y) <=> Asking(x))
          /\ Asking(y) => y.acq # o.acq
      BY <1>6
    <3> HIDE DEF x
    <3>2. Asking(y) => y.acq \in Attempts /\ phase[y.acq] = "acquiring"
      BY <3>1 DEF Suits, Echo, Bears, Asking
    <3> QED BY <1>5, <3>1, <3>2 DEF Suits, Echo
  <2>4. Staying(T) BY <1>5, <2>1, <2>2, <2>3 DEF Staying
  <2>5. Passes(T, g, {}) BY <1>4 DEF Passes, Remain
  <2> QED BY <2>4, <2>5, SuitsOn
<1>8. ASSUME forced' = 0 PROVE Steady'
  <2>1. Steady BY <1>8 DEF SInv, Steady
  <2>2. /\ entry.acq = o.acq /\ entry.age <= o.age /\ Undeleted
        /\ \A b \in Attempts : Running(b) => at[b] # o.proc
    BY <1>1, <2>1 DEF Steady, GrantStands, Fresh
  <2>3. \A b \in Attempts : Running(b)' => b = o.acq \/ (Running(b) /\ at[b] # o.proc)
    BY <1>5, <2>2 DEF Running
  <2>4. OneRun'
    <3>1. \A b \in Attempts : Running(b) => at[b] \in Procs BY DEF PInv, Seated, Running
    <3> QED BY <1>2, <1>5, <2>1, <2>3, <3>1 DEF Steady, OneRun
  <2>5. ASSUME NEW y \in T, Asking(y)
        PROVE  y.res # "ok" /\ ~ (y.kind = "take" /\ y.current)
    <3> DEFINE x == g[y]
    <3>1. /\ x \in ops /\ Echo(y, x) /\ Sound(x) /\ Asking(x)
          /\ x.acq # entry.acq
      <4>1. x \in ops /\ Echo(y, x) /\ Sound(x) /\ Asking(x) BY <1>6, <2>5
      <4>2. y.acq # o.acq BY <1>6, <2>5
      <4> QED BY <2>2, <4>1, <4>2 DEF Echo, Bears
    <3> HIDE DEF x
    <3>2. x.res # "ok" BY <2>1, <3>1 DEF Steady, GrantStands, Fresh
    <3>3. ASSUME x.kind = "take", x.current PROVE FALSE
      <4>1. x.res = "sent" BY <3>1, <3>3 DEF Sound, KnowsEntry
      <4>2. entry.age + Skew >= DEAD BY <3>1, <3>3, <4>1 DEF Sound, KnowsEntry
      <4>3. entry.age \in Nat BY DEF IInv, TypeOK, Entries, Ages
      <4> QED BY <1>2, <2>2, <4>2, <4>3, LockAssumption DEF Punctual
    <3> QED BY <3>1, <3>2, <3>3 DEF Echo, Bears
  <2>6. GrantStands'
    BY <1>4, <2>5 DEF GrantStands, Asking
  <2>7. Undeleted'
    <3> SUFFICES ASSUME NEW y \in T, Deletes(y) PROVE FALSE
      BY <1>4 DEF Undeleted, Deletes
    <3>1. g[y] \in ops /\ Echo(y, g[y]) BY <1>6
    <3>2. Deletes(g[y]) BY <3>1 DEF Deletes, Echo, Bears
    <3> QED BY <2>2, <3>1, <3>2 DEF Undeleted
  <2>8. AskedTooLate'
    <3> SUFFICES ASSUME NEW b \in Attempts, NEW y \in T,
                        Running(b)', Asking(y), y.proc = at[b]
                 PROVE  /\ y.kind = "create" => Fresh(b, y.age + TIMEOUT)'
                        /\ y.kind = "take" => ~ y.current /\ y.res # "ok"
      BY <1>4 DEF AskedTooLate, Asking
    <3>1. y.kind = "take" => ~ y.current /\ y.res # "ok" BY <2>5
    <3>2. ASSUME y.kind = "create" PROVE Fresh(b, y.age + TIMEOUT)'
      <4> DEFINE x == g[y]
      <4>1. /\ x \in ops /\ x \in Ops /\ Echo(y, x) /\ Asking(x) BY <1>6
      <4> HIDE DEF x
      <4>2. y.age \in Nat /\ y.age = x.age /\ x.kind = "create" /\ x.proc = at[b]
        BY <3>2, <4>1 DEF Ops, Ages, Echo, Bears
      <4>3. entry.age \in Nat BY DEF IInv, TypeOK, Entries, Ages
      <4>4. entry.acq = b /\ entry.age <= y.age + TIMEOUT
        <5>1. CASE b = o.acq BY <1>2, <2>2, <4>2, <4>3, <5>1, LockAssumption
        <5>2. CASE Running(b) BY <2>1, <4>1, <4>2, <5>2 DEF Steady, AskedTooLate, Fresh
        <5> QED BY <2>3, <5>1, <5>2
      <4> QED BY <2>7, <4>4 DEF Fresh
    <3> QED BY <3>1, <3>2
  <2>9. RenewsItsOwn'
    <3> SUFFICES ASSUME NEW y \in T, Renewing(y)
                 PROVE  y.by = y.acq /\ (Pending(y) /\ ~ y.current => entry.acq # y.acq)
      BY <1>4 DEF RenewsItsOwn, Renewing
    <3> QED BY <1>6, <2>1 DEF Steady, RenewsItsOwn, Pending, Echo, Bears
  <2> QED BY <2>4, <2>6, <2>8, <2>9 DEF Steady
<1> QED BY <1>7, <1>8 DEF SInv, Steady

-----------------------------------------------------------------------------
(* Holding.                                                                *)

\* A run renews what its process remembers, which is its own.
LEMMA RenewStands ==
    ASSUME IInv, PInv, SInv, NEW a \in Attempts, Renew(a)
    PROVE  PInv' /\ SInv'
<1> USE DEF Renew
<1> DEFINE p == at[a]
           t == [Write("renew", p, local[p].acq, a, 0)
                    EXCEPT !.current = local[p].current]
           g == [x \in ops |-> x]
<1>1. p \in Procs BY DEF IInv, Placed
<1>2. local[p] \in Memories BY <1>1 DEF IInv, TypeOK
<1>3. Write("renew", p, local[p].acq, a, 0) \in Ops
  BY <1>1, <1>2, LockAssumption, WriteTyped DEF Memories, Acqs, Ages
<1>4. t \in Ops BY <1>2, <1>3 DEF Ops, Memories
<1>5. /\ t.kind = "renew" /\ t.proc = p /\ t.acq = local[p].acq /\ t.by = a
      /\ t.age = 0 /\ t.gone = FALSE /\ t.res = "sent"
  BY DEF Write
<1>6. ops' = Sending(ops, t) OBVIOUS
<1> HIDE DEF t, g
<1>7. PICK w \in Ops : /\ ops' = ops \cup {w} /\ Bears(w, t) /\ w.age = t.age
                       /\ w.current = t.current /\ w.res = t.res
  BY <1>4, <1>6, SendingJoins DEF IInv, SoundWrites
<1>8. /\ w.kind = "renew" /\ w.proc = p /\ w.acq = local[p].acq /\ w.by = a
      /\ w.age = 0 /\ w.gone = FALSE /\ w.res = "sent"
  BY <1>5, <1>7 DEF Bears
<1>9. Remain(ops, g, {}) BY AllRemain DEF g
<1>10. PInv'
  <2>1. Passes(ops, g, {w}) BY <1>7, <1>9 DEF Passes, Remain
  <2>2. Staying(ops)
    BY DEF PInv, Staying, Suits, Seated, NamesItsSeat
  <2>3. local[p].acq \in Attempts /\ at[local[p].acq] = p
    BY <1>1, <1>2 DEF Memories, Acqs, PInv, NamesItsSeat
  <2>4. Suits(w)'
    BY <1>8, <2>3, LockAssumption DEF Suits, Asking, Renewing, Deleting
  <2>5. ~ Asking(w) BY <1>8 DEF Asking
  <2> QED BY <2>1, <2>2, <2>4, <2>5, SuitsOn
<1>11. ASSUME forced' = 0 PROVE Steady'
  <2>1. local[p].acq = a BY <1>11 DEF SInv, OneRun, Running
  <2>2. NobodyComesIn(ops, {w})
    BY <1>8, <2>1 DEF NobodyComesIn, Running, Asking, Renewing, Deletes
  <2> QED BY <1>7, <1>9, <1>11, <2>2, QuietStands DEF SInv, Steady
<1> QED BY <1>10, <1>11 DEF SInv, Steady

\* An abort moves on an attempt that is neither idle nor acquiring, or none.
LEMMA AbortMoves ==
    ASSUME IInv, NEW a, Abort(a)
    PROVE  \A b \in Attempts : \/ phase'[b] = phase[b]
                               \/ /\ phase[b] = "working" /\ phase'[b] = "stopping"
                                  /\ Running(b)' => Running(b)
BY DEF IInv, TypeOK, Abort, Running

\* A renewal that landed.
LEMMA RenewedStands ==
    ASSUME IInv, PInv, SInv, NEW o \in ops, Renewed(o)
    PROVE  PInv' /\ SInv'
<1> USE DEF Renewed
<1>1. ops' = Without(o) BY DEF Answered
<1>2. o \in Ops BY DEF IInv, SoundWrites
<1>3. \A p \in Procs : local'[p].acq = local[p].acq
  <2>1. CASE local' = local BY <2>1
  <2>2. CASE local' = [local EXCEPT ![o.proc] =
                  [@ EXCEPT !.current = o.current, !.unproven = ProvenSince(o)]]
    BY <1>2, <2>2 DEF IInv, TypeOK, Memories, Ops
  <2> QED BY <2>1, <2>2
<1>4. phase' = phase \/ Abort(o.by) OBVIOUS
<1> QED BY <1>1, <1>3, <1>4, AbortMoves, AnswerStands

\* A lock given up for lost.
LEMMA LosingStands ==
    ASSUME IInv, PInv, SInv, NEW o \in ops, ops' = Without(o), LoseLock(o),
           UNCHANGED <<entry, proc, active, at, forced>>
    PROVE  PInv' /\ SInv'
<1>1. \A p \in Procs : local'[p].acq \in {local[p].acq, NoAttempt}
  BY DEF LoseLock, forgetLock, Forgotten, IInv, TypeOK
<1> QED BY <1>1, AbortMoves, AnswerStands DEF LoseLock

\* The revision moved: an adoption is sent, of the entry as it is, or the lock is lost.
LEMMA RenewalConflictStands ==
    ASSUME IInv, PInv, SInv, NEW o \in ops, RenewalConflict(o)
    PROVE  PInv' /\ SInv'
<1> USE DEF RenewalConflict
<1>1. o \in Ops /\ Suits(o) /\ Renewing(o) /\ SoundWrites(ops)
  BY DEF IInv, SoundWrites, PInv, Renewing
<1>2. CASE /\ ops' = Sending(Without(o), Write("adopt", o.proc, o.acq, o.by, o.age))
           /\ UNCHANGED <<local, phase>>
  <2> DEFINE t == Write("adopt", o.proc, o.acq, o.by, o.age)
             T == Without(o)
  <2>1. t \in Ops BY <1>1, WriteTyped DEF Ops
  <2>2. T \subseteq Ops /\ IsFiniteSet(T) BY <1>1, WithoutSound DEF SoundWrites
  <2>3. PICK g : Remain(T, g, {o}) BY <1>1, OthersRemain
  <2>4. PICK w \in Ops : /\ Sending(T, t) = T \cup {w} /\ Bears(w, t) /\ w.age = t.age
                         /\ w.current = t.current /\ w.res = t.res
    <3> HIDE DEF T, t
    <3> QED BY <2>1, <2>2, SendingJoins
  <2>5. /\ w.kind = "adopt" /\ w.proc = o.proc /\ w.acq = o.acq /\ w.by = o.by
        /\ w.age = o.age /\ w.gone = FALSE /\ w.res = "sent" /\ w.current = TRUE
    BY <2>4 DEF Bears, Write
  <2>6. ops' = T \cup {w} BY <1>2, <2>4
  <2> HIDE DEF T, t
  <2>7. ASSUME NEW y \in T
        PROVE  /\ y.age <= TIMEOUT
               /\ Asking(y) => phase[y.acq] = "acquiring"
    <3> DEFINE x == g[y]
    <3>1. x \in ops /\ x # o /\ Echo(y, x) /\ Suits(x) BY <2>3 DEF Remain, Drawn, PInv
    <3> HIDE DEF x
    <3>2. Asking(y) <=> Asking(x) BY <3>1, BearsFacts DEF Echo
    <3> QED BY <3>1, <3>2 DEF Suits, Echo, Bears
  <2>8. PInv'
    <3>1. Seated' BY <1>2 DEF PInv, Seated
    <3>2. NamesItsSeat' BY <1>2, SeatsNamed
    <3>3. Staying(T) BY <1>2, <2>7, <3>1, <3>2 DEF Staying
    <3>4. Suits(w)'
      BY <1>1, <1>2, <2>5 DEF Suits, Asking, Renewing, Deleting
    <3>5. ~ Asking(w) BY <2>5 DEF Asking
    <3>6. Passes(T, g, {w}) BY <2>3, <2>6 DEF Passes, Remain
    <3> QED BY <2>5, <2>7, <3>3, <3>4, <3>5, <3>6, SuitsOn
  <2>9. ASSUME forced' = 0 PROVE Steady'
    <3>1. o.by = o.acq BY <1>1, <2>9 DEF SInv, RenewsItsOwn
    <3>2. NobodyComesIn(T, {w})
      BY <1>2, <2>5, <3>1 DEF NobodyComesIn, Running, Asking, Deletes
    <3> QED BY <2>3, <2>6, <2>9, <3>2, QuietStands DEF SInv, Steady
  <2> QED BY <2>8, <2>9 DEF SInv, Steady
<1>3. CASE ops' = Without(o) /\ LoseLock(o) BY <1>3, LosingStands
<1> QED BY <1>2, <1>3

\* A renewal, or its adoption, that was refused or not answered.
LEMMA RenewalFailedStands ==
    ASSUME Punctual, IInv, PInv, SInv, NEW o \in ops, AdoptionConflict(o) \/ RenewalFailed(o)
    PROVE  PInv' /\ SInv'
<1>1. CASE AdoptionConflict(o)
  BY <1>1, LosingStands DEF AdoptionConflict, Answered
<1>2. CASE RenewalFailed(o)
  <2>1. ops' = Without(o) BY <1>2, NothingStaysBehind DEF IInv, RenewalFailed, TimedOut
  <2>2. phase' = phase \/ Abort(o.by) BY <1>2 DEF RenewalFailed
  <2> QED BY <1>2, <2>1, <2>2, AbortMoves, AnswerStands DEF RenewalFailed
<1> QED BY <1>1, <1>2

-----------------------------------------------------------------------------
(* Letting go, and starting.                                               *)

\* No answer is heard; runs may end, memories may be dropped, and the writes N, at
\* most one delete, are sent.
LetsGo(N) ==
    /\ ops' = ops \cup N
    /\ \A w, v \in N : w = v
    /\ \A w \in N : w.kind \in {"delete", "reclaim"} /\ w.res = "sent" /\ Suits(w)'
    /\ UNCHANGED <<entry, at>>
    /\ \A p \in Procs : proc[p] # "dead" => proc'[p] # "dead"
    /\ \A p \in Procs : local'[p].acq \in {local[p].acq, NoAttempt}
    /\ \A a \in Attempts :
          \/ phase'[a] = phase[a]
          \/ /\ phase[a] \notin {"idle", "acquiring"}
             /\ phase'[a] \in {"stopping", "releasing", "done"}
             /\ Running(a)' => Running(a)
    /\ forced' = 0 =>
          /\ forced = 0
          /\ \A b \in Attempts : Running(b)' => active'[at[b]] = active[at[b]]
          /\ \A w \in N : Deletes(w) =>
                /\ \A y \in ops : ~ (Asking(y) /\ y.res = "ok")
                /\ \A b \in Attempts : Running(b)' => entry.acq # b

\* Such a step keeps the invariant.
LEMMA LettingGoStands ==
    ASSUME IInv, PInv, SInv, NEW N, LetsGo(N)
    PROVE  PInv' /\ SInv'
<1> USE DEF LetsGo
<1> DEFINE g == [x \in ops |-> x]
<1> HIDE DEF g
<1>1. Remain(ops, g, {}) BY AllRemain DEF g
<1>2. Passes(ops, g, N) BY <1>1 DEF Passes, Remain
<1>3. \A w \in N : ~ Asking(w) /\ ~ Renewing(w) BY DEF Asking, Renewing
<1>4. Seated'
  <2> SUFFICES ASSUME NEW a \in Attempts
               PROVE  /\ phase'[a] = "idle" => at[a] = NoProc
                      /\ phase'[a] \in {"acquiring", "working", "stopping"} =>
                            at[a] \in Procs /\ proc'[at[a]] # "dead"
    BY DEF Seated
  <2>1. /\ phase[a] = "idle" => at[a] = NoProc
        /\ phase[a] \in {"acquiring", "working", "stopping"} =>
              at[a] \in Procs /\ proc[at[a]] # "dead"
    BY DEF PInv, Seated
  <2>2. CASE phase'[a] = phase[a] BY <2>1, <2>2
  <2>3. CASE /\ phase'[a] \in {"stopping", "releasing", "done"}
             /\ Running(a)' => Running(a)
    BY <2>1, <2>3 DEF Running
  <2> QED BY <2>2, <2>3
<1>5. NamesItsSeat' BY SeatsNamed
<1>6. \A y \in ops : y.age <= TIMEOUT /\ (Asking(y) => phase'[y.acq] = "acquiring")
  BY DEF PInv, Suits, Asking
<1>7. Staying(ops) BY <1>4, <1>5, <1>6 DEF Staying
<1>8. PInv' BY <1>2, <1>3, <1>7, SuitsOn
<1>9. ASSUME forced' = 0 PROVE Steady'
  <2>1. \A b \in Attempts : Running(b)' => Running(b) /\ at[b] \in Procs
    BY DEF Running, PInv, Seated
  <2>2. NobodyComesIn(ops, N) BY <1>3, <1>9, <2>1 DEF NobodyComesIn
  <2> QED BY <1>1, <1>9, <2>2, QuietStands DEF SInv, Steady
<1> QED BY <1>8, <1>9 DEF SInv, Steady

\* A run is told to stop.
LEMMA StopStands ==
    ASSUME IInv, PInv, SInv, NEW a \in Attempts, SelfFence(a) \/ Interrupt(a)
    PROVE  PInv' /\ SInv'
<1>1. Abort(a) /\ UNCHANGED <<entry, proc, local, active, at, ops, forced>>
  BY DEF SelfFence, Interrupt
<1>2. \A b \in Attempts : \/ phase'[b] = phase[b]
                          \/ /\ phase[b] = "working" /\ phase'[b] = "stopping"
                             /\ Running(b)' => Running(b)
  BY <1>1, AbortMoves
<1>3. ops' = ops \cup {} BY <1>1
<1>4. LetsGo({}) BY <1>1, <1>2, <1>3 DEF LetsGo
<1> QED BY <1>4, LettingGoStands

\* A delete as it is sent names the process whose entry it is.
LEMMA ReleaseSends ==
    ASSUME IInv, NEW p \in Procs, NEW by \in Acqs, releaseTaskLock(p, by)
    PROVE  /\ \A q \in Procs : local'[q].acq \in {local[q].acq, NoAttempt}
           /\ \/ ops' = ops
              \/ /\ entry.proc = p
                 /\ \E w \in Ops : /\ ops' = ops \cup {w} /\ w.kind = "delete" /\ w.proc = p
                                   /\ w.by = by /\ w.age = 0 /\ w.gone = FALSE
                                   /\ w.res = "sent"
<1>1. CASE forgetLock(p) /\ UNCHANGED ops
  BY <1>1 DEF forgetLock, Forgotten, IInv, TypeOK
<1>2. CASE /\ OwnEntry(p)
           /\ ops' = Sending(ops, Write("delete", p, entry.acq, by, 0))
           /\ UNCHANGED local
  <2> DEFINE t == Write("delete", p, entry.acq, by, 0)
  <2>1. t \in Ops
    <3>1. entry.acq \in Acqs /\ 0 \in Ages
      BY LockAssumption DEF IInv, TypeOK, Entries, Ages
    <3> QED BY <3>1, WriteTyped
  <2>2. /\ t.kind = "delete" /\ t.proc = p /\ t.by = by /\ t.age = 0 /\ t.gone = FALSE
        /\ t.res = "sent"
    BY DEF Write
  <2>3. ops' = Sending(ops, t) BY <1>2
  <2> HIDE DEF t
  <2>4. PICK w \in Ops : /\ ops' = ops \cup {w} /\ Bears(w, t) /\ w.age = t.age
                         /\ w.current = t.current /\ w.res = t.res
    BY <2>1, <2>3, SendingJoins DEF IInv, SoundWrites
  <2>5. /\ w.kind = "delete" /\ w.proc = p /\ w.by = by /\ w.age = 0 /\ w.gone = FALSE
        /\ w.res = "sent"
    BY <2>2, <2>4 DEF Bears
  <2> QED BY <1>2, <2>4, <2>5 DEF OwnEntry
<1> QED BY <1>1, <1>2 DEF releaseTaskLock

\* A run that ends deletes an entry that no other run and no grant relies on.
LEMMA FinishRunStands ==
    ASSUME IInv, PInv, SInv, NEW a \in Attempts, FinishRun(a)
    PROVE  PInv' /\ SInv'
<1> USE DEF FinishRun
<1> DEFINE p == at[a]
<1>1. p \in Procs /\ a \in Acqs /\ Running(a) BY DEF IInv, Placed, Acqs, Running
<1>2. \A b \in Attempts :
          \/ phase'[b] = phase[b] /\ b # a
          \/ /\ b = a /\ phase[b] \notin {"idle", "acquiring"}
             /\ phase'[b] \in {"releasing", "done"} /\ ~ Running(b)'
  BY DEF IInv, TypeOK, Running
<1>3. \A q \in Procs : q # p => active'[q] = active[q] BY DEF IInv, TypeOK
<1>4. ASSUME forced' = 0, NEW b \in Attempts, Running(b)'
      PROVE  at[b] # p /\ active'[at[b]] = active[at[b]]
  <2>1. Running(b) /\ b # a BY <1>2, <1>4 DEF Running
  <2>2. at[b] # p BY <1>1, <1>4, <2>1 DEF SInv, OneRun
  <2>3. at[b] \in Procs BY <2>1 DEF IInv, Placed, Running
  <2> QED BY <1>3, <2>2, <2>3
<1> HIDE DEF p
<1>5. releaseTaskLock(p, a) BY DEF p
<1>6. /\ \A q \in Procs : local'[q].acq \in {local[q].acq, NoAttempt}
      /\ \/ ops' = ops
         \/ /\ entry.proc = p
            /\ \E w \in Ops : /\ ops' = ops \cup {w} /\ w.kind = "delete" /\ w.proc = p
                              /\ w.by = a /\ w.age = 0 /\ w.gone = FALSE
                              /\ w.res = "sent"
  BY <1>1, <1>5, ReleaseSends
<1>7. CASE ops' = ops
  <2>1. ops' = ops \cup {} BY <1>7
  <2>2. LetsGo({}) BY <1>2, <1>4, <1>6, <2>1 DEF LetsGo
  <2> QED BY <2>2, LettingGoStands
<1>8. CASE /\ entry.proc = p
           /\ \E w \in Ops : /\ ops' = ops \cup {w} /\ w.kind = "delete" /\ w.proc = p
                             /\ w.by = a /\ w.age = 0 /\ w.gone = FALSE
                             /\ w.res = "sent"
  <2>1. PICK w \in Ops : /\ ops' = ops \cup {w} /\ w.kind = "delete" /\ w.proc = p
                         /\ w.by = a /\ w.age = 0 /\ w.gone = FALSE /\ w.res = "sent"
    BY <1>8
  <2>2. Suits(w)'
    BY <1>2, <2>1, LockAssumption DEF Suits, Asking, Renewing, Deleting
  <2>3. ASSUME forced' = 0, NEW y \in ops, Asking(y), y.res = "ok" PROVE FALSE
    <3>1. entry.acq = y.acq /\ at[a] # y.proc
      BY <1>1, <2>3 DEF SInv, GrantStands, Fresh
    <3>2. y.acq \in Attempts /\ at[y.acq] = y.proc
      BY <2>3 DEF PInv, Suits, Asking
    <3> QED BY <1>8, <3>1, <3>2 DEF PInv, NamesItsSeat, p
  <2>4. ASSUME forced' = 0, NEW b \in Attempts, Running(b)' PROVE entry.acq # b
    BY <1>4, <1>8, <2>4 DEF PInv, NamesItsSeat
  <2>5. LetsGo({w}) BY <1>2, <1>4, <1>6, <2>1, <2>2, <2>3, <2>4 DEF LetsGo
  <2> QED BY <2>5, LettingGoStands
<1> QED BY <1>6, <1>7, <1>8

\* After a forced release only what holds whatever was forced is claimed.
LEMMA ForceReleaseStands ==
    ASSUME IInv, PInv, SInv, NEW a \in Attempts, ForceRelease(a)
    PROVE  PInv' /\ SInv'
<1> USE DEF ForceRelease
<1> DEFINE p == at[a]
<1>1. p \in Procs /\ NoAttempt \in Acqs /\ forced' # 0
  BY DEF IInv, TypeOK, Placed, Acqs
<1>2. \A b \in Attempts : \/ phase'[b] = phase[b]
                          \/ /\ phase[b] = "working" /\ phase'[b] = "stopping"
                             /\ Running(b)' => Running(b)
  BY AbortMoves
<1> HIDE DEF p
<1>3. releaseTaskLock(p, NoAttempt) BY DEF p
<1>4. /\ \A q \in Procs : local'[q].acq \in {local[q].acq, NoAttempt}
      /\ \/ ops' = ops
         \/ \E w \in Ops : /\ ops' = ops \cup {w} /\ w.kind = "delete" /\ w.proc = p
                           /\ w.by = NoAttempt /\ w.age = 0 /\ w.gone = FALSE
                           /\ w.res = "sent"
  <2> HIDE DEF ForceRelease
  <2>1. \A q \in Procs, by \in Acqs : releaseTaskLock(q, by) =>
           /\ \A o \in Procs : local'[o].acq \in {local[o].acq, NoAttempt}
           /\ \/ ops' = ops
              \/ \E w \in Ops : /\ ops' = ops \cup {w} /\ w.kind = "delete" /\ w.proc = q
                                /\ w.by = by /\ w.age = 0 /\ w.gone = FALSE
                                /\ w.res = "sent"
    BY ReleaseSends
  <2> QED BY <1>1, <1>3, <2>1
<1>5. CASE ops' = ops
  <2>1. ops' = ops \cup {} BY <1>5
  <2>2. LetsGo({}) BY <1>1, <1>2, <1>4, <2>1 DEF LetsGo
  <2> QED BY <2>2, LettingGoStands
<1>6. CASE \E w \in Ops : /\ ops' = ops \cup {w} /\ w.kind = "delete" /\ w.proc = p
                          /\ w.by = NoAttempt /\ w.age = 0 /\ w.gone = FALSE
                          /\ w.res = "sent"
  <2>1. PICK w \in Ops : /\ ops' = ops \cup {w} /\ w.kind = "delete" /\ w.proc = p
                         /\ w.by = NoAttempt /\ w.age = 0 /\ w.gone = FALSE
                         /\ w.res = "sent"
    BY <1>6
  <2>2. Suits(w)' BY <2>1, LockAssumption DEF Suits, Asking, Renewing, Deleting
  <2>3. LetsGo({w}) BY <1>1, <1>2, <1>4, <2>1, <2>2 DEF LetsGo
  <2> QED BY <2>3, LettingGoStands
<1> QED BY <1>4, <1>5, <1>6

\* A release or a hand-back that is over.
LEMMA ReleasedStands ==
    ASSUME Punctual, IInv, PInv, SInv, NEW o \in ops, Released(o) \/ Reclaimed(o)
    PROVE  PInv' /\ SInv'
<1>1. ops' = Without(o)
  BY NothingStaysBehind DEF IInv, Released, Reclaimed, TimedOut
<1>2. CASE Released(o)
  <2>1. \A p \in Procs : local'[p].acq \in {local[p].acq, NoAttempt}
    BY <1>2 DEF Released, forgetLock, Forgotten, IInv, TypeOK
  <2>2. o.by \in Attempts => phase[o.by] \notin {"idle", "acquiring"}
    BY <1>2 DEF Released, TimedOut, PInv, Suits, Deleting
  <2>3. \A b \in Attempts :
            \/ phase'[b] = phase[b]
            \/ /\ phase[b] \notin {"idle", "acquiring"} /\ phase'[b] = "done"
               /\ Running(b)' => Running(b)
    BY <1>2, <2>2 DEF Released, Running
  <2> QED BY <1>1, <1>2, <2>1, <2>3, AnswerStands DEF Released
<1>3. CASE Reclaimed(o)
  <2>1. \A p \in Procs : proc[p] # "dead" => proc'[p] # "dead"
    BY <1>3 DEF Reclaimed, IInv, TypeOK
  <2> QED BY <1>1, <1>3, <2>1, AnswerStands DEF Reclaimed
<1> QED BY <1>2, <1>3

\* A process starts.
LEMMA StartStands ==
    ASSUME IInv, PInv, SInv, NEW p \in Procs, Start(p)
    PROVE  PInv' /\ SInv'
<1> USE DEF Start
<1>1. \A q \in Procs : proc[q] # "dead" => proc'[q] # "dead" BY DEF IInv, TypeOK
<1>2. CASE ops' = Sending(ops, Write("reclaim", p, entry.acq, NoAttempt, 0))
  <2> DEFINE t == Write("reclaim", p, entry.acq, NoAttempt, 0)
  <2>1. t \in Ops
    <3>1. entry.acq \in Acqs /\ 0 \in Ages /\ NoAttempt \in Acqs
      BY LockAssumption DEF IInv, TypeOK, Entries, Ages, Acqs
    <3> QED BY <3>1, WriteTyped
  <2>2. t.kind = "reclaim" /\ t.by = NoAttempt /\ t.age = 0 /\ t.gone = FALSE /\ t.res = "sent"
    BY DEF Write
  <2> HIDE DEF t
  <2>3. PICK w \in Ops : /\ ops' = ops \cup {w} /\ Bears(w, t) /\ w.age = t.age
                         /\ w.current = t.current /\ w.res = t.res
    BY <1>2, <2>1, SendingJoins DEF IInv, SoundWrites, t
  <2>4. w.kind = "reclaim" /\ w.by = NoAttempt /\ w.age = 0 /\ w.gone = FALSE /\ w.res = "sent"
    BY <2>2, <2>3 DEF Bears
  <2>5. Suits(w)' BY <2>4, LockAssumption DEF Suits, Asking, Renewing, Deleting
  <2>6. ~ Deletes(w) BY <2>4 DEF Deletes
  <2>7. LetsGo({w}) BY <1>1, <2>3, <2>4, <2>5, <2>6 DEF LetsGo
  <2> QED BY <2>7, LettingGoStands
<1>3. CASE UNCHANGED ops
  <2>1. ops' = ops \cup {} BY <1>3
  <2>2. LetsGo({}) BY <1>1, <2>1 DEF LetsGo
  <2> QED BY <2>2, LettingGoStands
<1> QED BY <1>2, <1>3

\* Nothing a dead process sent is stored any more.
LEMMA NothingSurvives ==
    ASSUME Punctual, IInv, NEW p \in Procs, Crash(p)
    PROVE  ops' = {o \in ops : o.proc # p}
<1> USE DEF Crash
<1> DEFINE mine == {o \in ops : o.proc = p}
           T == ops \ mine
<1> DEFINE waiting == {x \in mine : x.res = "sent"}
           sent == {Ownerless(o) : o \in waiting}
           others == {o \in ops \ mine : o.gone}
<1>1. PICK kept \in SUBSET sent : /\ Cardinality(others \cup kept) <= MaxGone
                                  /\ ops' = T \cup kept
  OBVIOUS
<1>2. IsFiniteSet(sent)
  <2> DEFINE f == [x \in waiting |-> Ownerless(x)]
  <2>1. waiting \in SUBSET ops OBVIOUS
  <2>2. IsFiniteSet(waiting) BY <2>1, FS_Subset DEF IInv, SoundWrites
  <2>3. sent = {f[x] : x \in waiting} OBVIOUS
  <2> HIDE DEF f, waiting, sent
  <2> QED BY <2>2, <2>3, ImageFinite
<1>3. IsFiniteSet(others)
  <2>1. others \in SUBSET ops OBVIOUS
  <2> QED BY <2>1, FS_Subset DEF IInv, SoundWrites
<1> HIDE DEF others, sent, mine
<1>4. IsFiniteSet(others \cup kept) BY <1>1, <1>2, <1>3, FS_Subset, FS_Union
<1>5. Cardinality(others \cup kept) \in Nat BY <1>4, FS_CardinalityType
<1>6. Cardinality(others \cup kept) = 0 BY <1>1, <1>5 DEF Punctual
<1>7. others \cup kept = {} BY <1>4, <1>6, FS_EmptySet
<1> QED BY <1>1, <1>7 DEF mine

\* A process dies and its attempts with it.
LEMMA CrashStands ==
    ASSUME Punctual, IInv, PInv, SInv, NEW p \in Procs, Crash(p)
    PROVE  PInv' /\ SInv'
<1> USE DEF Crash
<1> DEFINE T == {o \in ops : o.proc # p}
           g == [x \in T |-> x]
<1>1. ops' = T BY NothingSurvives
<1>2. Remain(T, g, {}) BY DEF Remain, Drawn, Echo, Bears
<1>3. T \subseteq ops /\ \A y \in T : y.proc # p OBVIOUS
<1> HIDE DEF T, g
<1>4. \A b \in Attempts : phase'[b] = (IF at[b] = p THEN "done" ELSE phase[b])
  OBVIOUS
<1>5. \A q \in Procs : /\ q # p => proc'[q] = proc[q] /\ active'[q] = active[q]
                       /\ local'[q].acq \in {local[q].acq, NoAttempt}
  BY DEF forgetLock, Forgotten, IInv, TypeOK
<1>6. PInv'
  <2>1. Seated' BY <1>4, <1>5, LockAssumption DEF PInv, Seated
  <2>2. NamesItsSeat' BY <1>5, SeatsNamed
  <2>3. \A y \in T : y.age <= TIMEOUT /\ (Asking(y) => phase'[y.acq] = "acquiring")
    BY <1>3, <1>4 DEF PInv, Suits, Asking
  <2>4. Staying(T) BY <1>4, <2>1, <2>2, <2>3 DEF Staying
  <2>5. Passes(T, g, {}) BY <1>1, <1>2 DEF Passes, Remain
  <2> QED BY <2>4, <2>5, SuitsOn
<1>7. ASSUME forced' = 0 PROVE Steady'
  <2>1. \A b \in Attempts : Running(b)' => Running(b) /\ at[b] # p BY <1>4 DEF Running
  <2>2. \A b \in Attempts : Running(b) => at[b] \in Procs BY DEF IInv, Placed, Running
  <2>3. NobodyComesIn(T, {}) BY <1>5, <2>1, <2>2 DEF NobodyComesIn
  <2>4. ops' = T \cup {} BY <1>1
  <2> QED BY <1>2, <1>7, <2>3, <2>4, QuietStands DEF SInv, Steady
<1> QED BY <1>6, <1>7 DEF SInv, Steady

-----------------------------------------------------------------------------
(* The store.                                                              *)

\* Where the write o was, there is now y.
LEMMA InPlace ==
    ASSUME NEW o \in ops, NEW y, Bears(y, o)
    PROVE  \E g : /\ Drawn((ops \ {o}) \cup {y}, g)
                  /\ \A x \in (ops \ {o}) \cup {y} :
                        (x \in ops \ {o} /\ g[x] = x) \/ (x = y /\ g[x] = o)
<1> DEFINE T == (ops \ {o}) \cup {y}
           g == [x \in T |-> IF x \in ops \ {o} THEN x ELSE o]
<1>1. \A x \in T : (x \in ops \ {o} /\ g[x] = x) \/ (x = y /\ g[x] = o /\ x \notin ops \ {o})
  OBVIOUS
<1>2. g \in [T -> ops] OBVIOUS
<1> HIDE DEF g
<1>3. Drawn(T, g) BY <1>1, <1>2 DEF Drawn, Bears
<1> QED BY <1>1, <1>3

\* An answer that is no success changes nothing else.
LEMMA ReplyStands ==
    ASSUME IInv, PInv, SInv, NEW o \in ops, NEW y, Echo(y, o),
           ops' = (ops \ {o}) \cup {y},
           UNCHANGED <<entry, proc, local, active, phase, at, forced>>
    PROVE  PInv' /\ SInv'
<1> DEFINE T == (ops \ {o}) \cup {y}
<1>1. PICK g : /\ Drawn(T, g)
               /\ \A x \in T : (x \in ops \ {o} /\ g[x] = x) \/ (x = y /\ g[x] = o)
  BY InPlace DEF Echo
<1> HIDE DEF T
<1>2. Remain(T, g, {}) BY <1>1 DEF Remain, Echo, Bears
<1>3. ops' = T \cup {} BY DEF T
<1>4. PInv'
  <2>1. \A x \in T : x.age <= TIMEOUT /\ (Asking(x) => phase[x.acq] = "acquiring")
    <3> SUFFICES ASSUME NEW x \in T
                 PROVE  x.age <= TIMEOUT /\ (Asking(x) => phase[x.acq] = "acquiring")
      OBVIOUS
    <3>1. g[x] \in ops /\ Echo(x, g[x]) /\ Suits(g[x]) BY <1>2 DEF Remain, Drawn, PInv
    <3>2. Asking(x) <=> Asking(g[x]) BY <3>1, BearsFacts DEF Echo
    <3> QED BY <3>1, <3>2 DEF Suits, Echo, Bears
  <2>2. Staying(T) BY <2>1 DEF Staying, PInv, Seated, NamesItsSeat
  <2>3. Passes(T, g, {}) BY <1>1, <1>3 DEF Passes
  <2> QED BY <2>2, <2>3, SuitsOn
<1>5. ASSUME forced' = 0 PROVE Steady'
  <2>1. NobodyComesIn(T, {}) BY DEF NobodyComesIn, Running
  <2> QED BY <1>2, <1>3, <1>5, <2>1, QuietStands DEF SInv, Steady
<1> QED BY <1>4, <1>5 DEF SInv, Steady

\* A write that is refused, and an answer that is lost.
LEMMA StoreRefusedStands ==
    ASSUME IInv, PInv, SInv, NEW o \in ops,
           AnswerLost(o) \/ (Store(o) /\ ~ Accepted(o))
    PROVE  PInv' /\ SInv'
<1>1. o \in Ops /\ Sound(o) /\ ~ o.gone BY DEF IInv, SoundWrites, PInv, Suits
<1>2. CASE AnswerLost(o)
  <2> DEFINE y == [o EXCEPT !.res = "lost"]
  <2>1. Echo(y, o) BY <1>1 DEF Echo, Bears, Ops
  <2>2. ops' = (ops \ {o}) \cup {y} BY <1>2 DEF AnswerLost
  <2> HIDE DEF y
  <2> QED BY <1>2, <2>1, <2>2, ReplyStands DEF AnswerLost
<1>3. CASE Store(o) /\ ~ Accepted(o)
  <2> DEFINE y == [o EXCEPT !.res = "conflict", !.current = FALSE]
  <2>1. o.current = FALSE
    BY <1>1, <1>3 DEF Store, Accepted, Sound, KnowsEntry, Ops
  <2>2. Echo(y, o)
    <3>1. o.res = "sent" BY <1>3 DEF Store
    <3> QED BY <1>1, <2>1, <3>1 DEF Echo, Bears, Ops
  <2>3. ops' = (ops \ {o}) \cup {y} BY <1>1, <1>3 DEF Store, Reply
  <2> HIDE DEF y
  <2> QED BY <1>3, <2>2, <2>3, ReplyStands DEF Store
<1> QED BY <1>2, <1>3

\* Every stale write was one of those that have become stale.
LEMMA StaleDrawn ==
    ASSUME NEW S, S \subseteq ops, ops \subseteq Ops
    PROVE  \E g : /\ Drawn(Stale(S), g)
                  /\ \A y \in Stale(S) : /\ g[y] \in S /\ y.age = g[y].age
                                         /\ y.res = g[y].res /\ y.current = FALSE
<1> DEFINE f == [x \in S |-> [x EXCEPT !.current = FALSE]]
           W == Stale(S)
           g == [y \in W |-> CHOOSE x \in S : f[x] = y]
<1>1. W = {f[x] : x \in S} BY DEF Stale
<1>2. ASSUME NEW x \in S
      PROVE  /\ Bears(f[x], x) /\ f[x].age = x.age /\ f[x].res = x.res
             /\ f[x].current = FALSE
  <2>1. x \in Ops OBVIOUS
  <2> QED BY <2>1 DEF Ops, Bears
<1> HIDE DEF f
<1>3. ASSUME NEW y \in W PROVE g[y] \in S /\ f[g[y]] = y
  <2>1. \E x \in S : f[x] = y BY <1>1
  <2> QED BY <2>1
<1>4. g \in [W -> ops] BY <1>3
<1> HIDE DEF g
<1>5. Drawn(W, g) BY <1>2, <1>3, <1>4 DEF Drawn
<1>6. ASSUME NEW y \in W
      PROVE  g[y] \in S /\ y.age = g[y].age /\ y.res = g[y].res /\ y.current = FALSE
  <2>1. g[y] \in S /\ f[g[y]] = y BY <1>3
  <2> QED BY <1>2, <2>1
<1> QED BY <1>5, <1>6

\* The entry moves and every other revision is stale.
LEMMA MovingSuits ==
    ASSUME IInv, PInv, NEW h, Drawn(ops', h), \A y \in ops' : y.age = h[y].age,
           local' = AllStale, UNCHANGED <<proc, phase, at>>,
           entry'.acq \in Attempts => at[entry'.acq] = entry'.proc
    PROVE  PInv'
<1>1. \A p \in Procs : local'[p].acq = local[p].acq
  BY DEF AllStale, IInv, TypeOK, Memories
<1>2. Seated' /\ NamesItsSeat' BY <1>1 DEF PInv, Seated, NamesItsSeat
<1>3. ASSUME NEW y \in ops'
      PROVE  y.age <= TIMEOUT /\ (Asking(y) => phase[y.acq] = "acquiring")
  <2>1. h[y] \in ops /\ Bears(y, h[y]) /\ Suits(h[y]) /\ y.age = h[y].age
    BY DEF Drawn, PInv
  <2>2. Asking(y) <=> Asking(h[y]) BY <2>1, BearsFacts
  <2> QED BY <2>1, <2>2 DEF Suits, Bears
<1>4. PICK U : U = ops' OBVIOUS
<1>5. Staying(U) BY <1>2, <1>3, <1>4 DEF Staying
<1>6. Passes(U, h, {}) BY <1>4 DEF Passes
<1> QED BY <1>5, <1>6, SuitsOn

\* What a moving entry leaves of the runs.
LEMMA MovingRuns ==
    ASSUME IInv, OneRun, local' = AllStale, UNCHANGED <<active, phase, at>>
    PROVE  OneRun'
<1>1. \A p \in Procs : local'[p].acq = local[p].acq
  BY DEF AllStale, IInv, TypeOK, Memories
<1>2. \A a \in Attempts : Running(a) => at[a] \in Procs BY DEF IInv, Placed, Running
<1> QED BY <1>1, <1>2 DEF OneRun, Running

\* The bucket drops the entry: nothing young is dropped.
LEMMA ExpireStands ==
    ASSUME Punctual, IInv, PInv, SInv, Expire
    PROVE  PInv' /\ SInv'
<1> USE DEF Expire
<1>1. ops \subseteq Ops BY DEF IInv, SoundWrites
<1>2. PICK h : /\ Drawn(Stale(ops), h)
               /\ \A y \in Stale(ops) : /\ h[y] \in ops /\ y.age = h[y].age
                                        /\ y.res = h[y].res /\ y.current = FALSE
  BY <1>1, StaleDrawn
<1>3. /\ Drawn(ops', h)
      /\ \A y \in ops' : /\ h[y] \in ops /\ y.age = h[y].age
                         /\ y.res = h[y].res /\ y.current = FALSE
  BY <1>2
<1>4. entry'.acq \notin Attempts BY LockAssumption DEF Free
<1>5. PInv' BY <1>3, <1>4, MovingSuits
<1>6. ASSUME forced' = 0 PROVE Steady'
  <2>1. Steady BY <1>6 DEF SInv, Steady
  <2>2. OneRun' BY <2>1, MovingRuns DEF Steady
  <2>3. ASSUME NEW y \in ops'
        PROVE  /\ h[y] \in ops /\ h[y] \in Ops /\ Suits(h[y]) /\ y.kind = h[y].kind
               /\ y.proc = h[y].proc /\ y.acq = h[y].acq /\ y.by = h[y].by
               /\ Asking(y) <=> Asking(h[y])
               /\ Renewing(y) <=> Renewing(h[y])
    BY <1>1, <1>3, BearsFacts DEF Drawn, Bears, PInv
  <2>4. ASSUME NEW x \in ops, Asking(x), x.res = "ok" PROVE FALSE
    <3>1. entry.age <= x.age /\ x.age <= TIMEOUT /\ x.age \in Nat
      BY <1>1, <2>1, <2>4 DEF Steady, GrantStands, Fresh, PInv, Suits, Ops, Ages
    <3> QED BY <3>1, LockAssumption DEF Punctual
  <2>5. ASSUME NEW b \in Attempts, NEW x \in ops, Running(b), Asking(x), x.proc = at[b],
               x.kind = "create"
        PROVE  FALSE
    <3>1. entry.age <= x.age + TIMEOUT /\ x.age <= TIMEOUT /\ x.age \in Nat
      BY <1>1, <2>1, <2>5 DEF Steady, AskedTooLate, Fresh, PInv, Suits, Ops, Ages
    <3> QED BY <3>1, LockAssumption DEF Punctual
  <2>6. GrantStands'
    <3> SUFFICES ASSUME NEW y \in ops', Asking(y), y.res = "ok" PROVE FALSE
      BY DEF GrantStands, Asking
    <3> QED BY <1>3, <2>3, <2>4
  <2>7. AskedTooLate'
    <3> SUFFICES ASSUME NEW b \in Attempts, NEW y \in ops',
                        Running(b), Asking(y), y.proc = at[b]
                 PROVE  y.kind = "take" /\ ~ y.current /\ y.res # "ok"
      BY DEF AskedTooLate, Asking, Running
    <3>1. y.kind # "create" BY <2>3, <2>5
    <3>2. y.res # "ok" BY <1>3, <2>3, <2>4
    <3> QED BY <1>3, <3>1, <3>2 DEF Asking
  <2>8. RenewsItsOwn'
    <3> SUFFICES ASSUME NEW y \in ops', Renewing(y)
                 PROVE  y.by = y.acq /\ entry'.acq # y.acq
      BY DEF RenewsItsOwn, Renewing
    <3>1. h[y] \in ops /\ Renewing(h[y]) /\ Suits(h[y]) /\ y.by = h[y].by /\ y.acq = h[y].acq
      BY <2>3
    <3>2. y.by = y.acq BY <2>1, <3>1 DEF Steady, RenewsItsOwn
    <3>3. y.acq \in Attempts BY <3>1 DEF Suits, Renewing
    <3> QED BY <1>4, <3>2, <3>3
  <2> QED BY <2>2, <2>6, <2>7, <2>8 DEF Steady
<1> QED BY <1>5, <1>6 DEF SInv, Steady

\* A write that is stored moves no entry that a grant, or a run whose process is
\* still asking, relies on.
LEMMA StoreAcceptedStands ==
    ASSUME Punctual, IInv, PInv, SInv, RefusedAreStale(ops), Ordered(ops), InTurn(ops),
           NEW o \in ops, Store(o), Accepted(o)
    PROVE  PInv' /\ SInv'
<1> DEFINE r == [o EXCEPT !.res = "ok", !.current = TRUE]
           S == Stale(ops \ {o})
<1>1. /\ o \in Ops /\ ops \subseteq Ops /\ Sound(o) /\ Suits(o) /\ ~ o.gone /\ o.res = "sent"
  BY DEF IInv, SoundWrites, PInv, Suits, Store
<1>2. /\ entry' = Stored(o) /\ local' = AllStale
      /\ UNCHANGED <<proc, active, phase, at, forced>>
      /\ ops' = S \cup {r}
  BY <1>1 DEF Store, Reply
<1>3. /\ Bears(r, o) /\ r.age = o.age /\ r.res = "ok" /\ r.current = TRUE
  BY <1>1 DEF Bears, Ops
<1> HIDE DEF r
<1>4. PICK g : /\ Drawn(S, g)
               /\ \A y \in S : /\ g[y] \in ops \ {o} /\ y.age = g[y].age
                               /\ y.res = g[y].res /\ y.current = FALSE
  BY <1>1, StaleDrawn
<1> HIDE DEF S
<1> DEFINE h == [y \in S \cup {r} |-> IF y = r THEN o ELSE g[y]]
<1>5. r \notin S BY <1>3, <1>4
<1>6. h[r] = o /\ \A y \in S : h[y] = g[y] BY <1>5
<1>7. Drawn(S \cup {r}, h)
  <2>1. h \in [S \cup {r} -> ops] BY <1>4
  <2> HIDE DEF h
  <2> QED BY <1>3, <1>4, <1>5, <1>6, <2>1 DEF Drawn
<1> HIDE DEF h
<1>8. \A y \in ops' : y.age = h[y].age BY <1>2, <1>3, <1>4, <1>6
<1>9. \/ o.kind \in {"create", "take", "renew", "adopt"} /\ entry'.acq = o.acq
             /\ entry'.proc = o.proc /\ entry'.age = 0
      \/ o.kind \in {"delete", "reclaim"} /\ entry'.acq = NoAttempt
  BY <1>1, <1>2 DEF Stored, Free, Ops
<1>10. PInv'
  <2>1. entry'.acq \in Attempts => at[entry'.acq] = entry'.proc
    BY <1>1, <1>9, LockAssumption DEF Suits
  <2> QED BY <1>2, <1>7, <1>8, <2>1, MovingSuits
<1>11. ASSUME forced' = 0 PROVE Steady'
  <2>1. Steady BY <1>2, <1>11 DEF SInv, Steady
  <2>2. OneRun' BY <1>2, <2>1, MovingRuns DEF Steady
  <2>3. entry.age \in Nat BY DEF IInv, TypeOK, Entries, Ages
  <2>4. ASSUME NEW a \in Attempts, Fresh(a, 2 * TIMEOUT), at[a] \in Procs,
               proc[at[a]] # "dead"
        PROVE  o.kind \in {"renew", "adopt"} /\ o.acq = a
    <3>1. entry.acq = a /\ entry.proc = at[a] /\ Undeleted /\ entry.age <= 2 * TIMEOUT
      BY <2>4 DEF Fresh, PInv, NamesItsSeat
    <3>2. o.kind # "create"
      <4>1. entry # Free BY <3>1, LockAssumption DEF Free
      <4> QED BY <4>1 DEF Accepted
    <3>3. o.current /\ KnowsEntry(o) BY <1>1, <3>2 DEF Accepted, Sound
    <3>4. o.kind # "take" BY <1>1, <2>3, <3>1, <3>3, LockAssumption DEF KnowsEntry, Punctual
    <3>5. o.kind # "delete" BY <1>1, <3>1, <3>3 DEF Undeleted, Deletes
    <3>6. o.kind # "reclaim" BY <1>1, <2>4, <3>1, <3>3 DEF KnowsEntry
    <3>7. o.kind \in {"renew", "adopt"} BY <1>1, <3>2, <3>4, <3>5, <3>6 DEF Ops
    <3> QED BY <3>1, <3>3, <3>7 DEF KnowsEntry
  <2>5. ASSUME NEW x \in ops, Asking(x), x.res = "ok" PROVE FALSE
    <3>1. /\ x.acq \in Attempts /\ phase[x.acq] = "acquiring" /\ x.age <= TIMEOUT
          /\ x.age \in Nat
      BY <1>1, <2>5 DEF PInv, Suits, Asking, Ops, Ages
    <3>2. at[x.acq] \in Procs /\ proc[at[x.acq]] # "dead" BY <3>1 DEF PInv, Seated
    <3>3. Fresh(x.acq, x.age) BY <2>1, <2>5 DEF Steady, GrantStands
    <3>4. Fresh(x.acq, 2 * TIMEOUT)
      BY <2>3, <3>1, <3>3, LockAssumption DEF Fresh
    <3>5. o.kind \in {"renew", "adopt"} /\ o.acq = x.acq BY <2>4, <3>1, <3>2, <3>4
    <3>6. Renewing(o) BY <1>1, <3>5 DEF Renewing
    <3>7. o.by = o.acq BY <2>1, <3>6 DEF Steady, RenewsItsOwn
    <3> QED BY <1>1, <3>1, <3>5, <3>6, <3>7 DEF Suits
  <2>6. ASSUME NEW b \in Attempts, NEW x \in ops, Running(b), Asking(x), x.proc = at[b],
               x.kind = "create"
        PROVE  Fresh(b, x.age + TIMEOUT) /\ o.kind \in {"renew", "adopt"} /\ o.acq = b
    <3>1. x.age <= TIMEOUT /\ x.age \in Nat BY <1>1 DEF PInv, Suits, Ops, Ages
    <3>2. at[b] \in Procs /\ proc[at[b]] # "dead" BY <2>6 DEF PInv, Seated, Running
    <3>3. Fresh(b, x.age + TIMEOUT) BY <2>1, <2>6 DEF Steady, AskedTooLate
    <3>4. Fresh(b, 2 * TIMEOUT) BY <2>3, <3>1, <3>3, LockAssumption DEF Fresh
    <3> QED BY <2>4, <3>2, <3>3, <3>4
  <2>7. ASSUME Asking(o), NEW b \in Attempts, Running(b) PROVE at[b] # o.proc
    <3>1. CASE o.kind = "create" BY <2>6, <2>7, <3>1
    <3>2. CASE o.kind = "take"
      BY <2>1, <2>7, <3>2 DEF Steady, AskedTooLate, Accepted
    <3> QED BY <2>7, <3>1, <3>2 DEF Asking
  <2>8. o.kind \in {"create", "take", "renew", "adopt"} => Undeleted'
    <3> SUFFICES ASSUME o.kind \in {"create", "take", "renew", "adopt"},
                        NEW y \in ops', Deletes(y)
                 PROVE  FALSE
      BY DEF Undeleted, Deletes
    <3>1. y \notin S BY <1>4 DEF Deletes
    <3> QED BY <1>2, <1>3, <3>1 DEF Deletes
  <2>9. ASSUME NEW y \in S
        PROVE  /\ g[y] \in ops /\ g[y] # o /\ g[y] \in Ops /\ Suits(g[y])
               /\ y.kind = g[y].kind /\ y.proc = g[y].proc
               /\ y.acq = g[y].acq /\ y.by = g[y].by
               /\ y.age = g[y].age /\ y.res = g[y].res /\ y.current = FALSE
               /\ Asking(y) <=> Asking(g[y])
               /\ Renewing(y) <=> Renewing(g[y])
    <3>1. g[y] \in ops /\ g[y] # o /\ Bears(y, g[y]) BY <1>4 DEF Drawn
    <3>2. /\ Asking(y) <=> Asking(g[y])
          /\ Renewing(y) <=> Renewing(g[y])
      BY <3>1, BearsFacts
    <3> QED BY <1>1, <1>4, <3>1, <3>2 DEF Bears, PInv
  <2>10. /\ r.kind = o.kind /\ r.proc = o.proc /\ r.acq = o.acq /\ r.by = o.by
         /\ Asking(r) <=> Asking(o)
         /\ Renewing(r) <=> Renewing(o)
    BY <1>3, BearsFacts DEF Bears
  <2>11. GrantStands'
    <3> SUFFICES ASSUME NEW y \in ops', Asking(y), y.res = "ok"
                 PROVE  /\ Fresh(y.acq, y.age)'
                        /\ \A b \in Attempts : Running(b) => at[b] # y.proc
      BY <1>2 DEF GrantStands, Asking, Running
    <3>1. y = r
      <4>1. y \in S => g[y] \in ops /\ Asking(g[y]) /\ g[y].res = "ok" BY <2>9
      <4> QED BY <1>2, <2>5, <4>1
    <3>2. Asking(o) /\ y.acq = o.acq /\ y.age = o.age /\ y.proc = o.proc
      BY <1>3, <2>10, <3>1
    <3>3. o.age \in Nat /\ entry'.acq = o.acq /\ entry'.age = 0
      BY <1>1, <1>9, <3>2 DEF Asking, Ops, Ages
    <3>4. Undeleted' BY <2>8, <3>2 DEF Asking
    <3> QED BY <2>7, <3>2, <3>3, <3>4 DEF Fresh
  <2>12. AskedTooLate'
    <3> SUFFICES ASSUME NEW b \in Attempts, NEW y \in ops',
                        Running(b), Asking(y), y.proc = at[b]
                 PROVE  /\ y.kind = "create" => Fresh(b, y.age + TIMEOUT)'
                        /\ y.kind = "take" => ~ y.current /\ y.res # "ok"
      BY <1>2 DEF AskedTooLate, Asking, Running
    <3>1. y \in S BY <1>2, <2>7, <2>10
    <3>2. y.kind = "take" => ~ y.current /\ y.res # "ok"
      <4>1. /\ g[y] \in ops /\ Asking(g[y]) /\ g[y].res = y.res /\ y.current = FALSE
        BY <2>9, <3>1
      <4> QED BY <2>5, <4>1
    <3>3. ASSUME y.kind = "create" PROVE Fresh(b, y.age + TIMEOUT)'
      <4>1. /\ g[y] \in ops /\ g[y] \in Ops /\ Asking(g[y]) /\ g[y].proc = at[b]
            /\ g[y].kind = "create" /\ g[y].age = y.age
        BY <2>9, <3>1, <3>3
      <4>2. o.kind \in {"renew", "adopt"} /\ o.acq = b BY <2>6, <4>1
      <4>3. y.age \in Nat BY <4>1 DEF Ops, Ages
      <4>4. entry'.acq = b /\ entry'.age = 0 BY <1>9, <4>2
      <4> QED BY <2>8, <4>2, <4>3, <4>4, LockAssumption DEF Fresh
    <3> QED BY <3>2, <3>3
  <2>13. RenewsItsOwn'
    <3> SUFFICES ASSUME NEW y \in ops', Renewing(y)
                 PROVE  y.by = y.acq /\ (Pending(y) /\ ~ y.current => entry'.acq # y.acq)
      BY DEF RenewsItsOwn, Renewing
    <3>1. CASE y = r BY <1>3, <2>1, <2>10, <3>1 DEF Steady, RenewsItsOwn, Pending
    <3>2. CASE y \in S
      <4> DEFINE x == g[y]
      <4>1. /\ x \in ops /\ x # o /\ Suits(x) /\ Renewing(x) /\ y.by = x.by /\ y.acq = x.acq
            /\ x.kind = y.kind /\ x.res = y.res
        BY <2>9, <3>2
      <4> HIDE DEF x
      <4>2. x.by = x.acq /\ x.acq \in Attempts
        BY <2>1, <4>1 DEF Steady, RenewsItsOwn, Suits, Renewing
      <4>3. phase[x.acq] # "acquiring" BY <4>1, <4>2 DEF Suits
      <4>4. ASSUME Pending(x) PROVE entry'.acq # x.acq
        <5>1. CASE o.kind \in {"delete", "reclaim"} BY <1>9, <4>2, <5>1, LockAssumption
        <5>2. CASE o.kind \in {"create", "take"}
          <6>1. phase[o.acq] = "acquiring" BY <1>1, <5>2 DEF Suits, Asking
          <6> QED BY <1>9, <4>3, <5>2, <6>1
        <5>3. CASE o.kind \in {"renew", "adopt"}
          <6>1. Renewing(o) BY <1>1, <5>3 DEF Renewing
          <6>2. o.by = o.acq BY <2>1, <6>1 DEF Steady, RenewsItsOwn
          <6>3. ASSUME o.by = x.by PROVE FALSE
            <7>1. entry.acq = x.acq
              BY <1>1, <4>2, <5>3, <6>2, <6>3 DEF Accepted, Sound, KnowsEntry
            <7>2. x.current BY <2>1, <4>1, <4>4, <7>1 DEF Steady, RenewsItsOwn
            <7>3. x.res = "sent" BY <4>1, <4>4, <7>2 DEF Pending, RefusedAreStale
            <7>4. x.kind = "adopt" BY <4>4 DEF Pending
            <7>5. o.kind = "renew" /\ x.turn < o.turn
              BY <1>1, <4>1, <5>3, <6>1, <6>3, <7>3, <7>4 DEF InTurn
            <7>6. x.proc = o.proc /\ ~ x.gone
              BY <1>1, <4>1, <6>1, <6>3 DEF Suits
            <7> QED BY <1>1, <4>1, <7>3, <7>5, <7>6 DEF Store, Awaited
          <6> QED BY <1>9, <4>2, <5>3, <6>2, <6>3
        <5> QED BY <1>9, <5>1, <5>2, <5>3
      <4> QED BY <4>1, <4>2, <4>4 DEF Pending
    <3> QED BY <1>2, <3>1, <3>2
  <2> QED BY <2>2, <2>11, <2>12, <2>13 DEF Steady
<1> QED BY <1>10, <1>11 DEF SInv, Steady

-----------------------------------------------------------------------------
(* Time.                                                                   *)

\* The entry and the requests age together.
LEMMA TickStands ==
    ASSUME IInv, PInv, SInv, Tick
    PROVE  PInv' /\ SInv'
<1> USE DEF Tick
<1> DEFINE f == [o \in ops |-> [o EXCEPT !.age = @ + 1]]
           g == [y \in ops' |-> CHOOSE x \in ops : f[x] = y]
<1>1. ops \subseteq Ops /\ \A o \in ops : ~ o.gone
  BY DEF IInv, SoundWrites, PInv, Suits
<1>2. ops' = {f[x] : x \in ops} BY <1>1
<1>3. ASSUME NEW x \in ops
      PROVE  /\ Bears(f[x], x) /\ f[x].age = x.age + 1 /\ f[x].res = x.res
             /\ f[x].current = x.current
  <2>1. x \in Ops BY <1>1
  <2> QED BY <2>1 DEF Ops, Bears
<1> HIDE DEF f
<1>4. ASSUME NEW y \in ops' PROVE g[y] \in ops /\ f[g[y]] = y
  <2>1. \E x \in ops : f[x] = y BY <1>2
  <2> QED BY <2>1
<1>5. g \in [ops' -> ops] BY <1>4
<1> HIDE DEF g
<1>6. Drawn(ops', g)
  <2>1. \A y \in ops' : Bears(y, g[y]) BY <1>3, <1>4
  <2>2. \A y, z \in ops' : g[y] = g[z] => y = z BY <1>4
  <2> QED BY <1>5, <2>1, <2>2 DEF Drawn
<1>7. ASSUME NEW y \in ops'
      PROVE  /\ g[y] \in ops /\ g[y] \in Ops /\ Suits(g[y])
             /\ y.kind = g[y].kind /\ y.proc = g[y].proc
             /\ y.acq = g[y].acq /\ y.by = g[y].by
             /\ y.age = g[y].age + 1 /\ y.res = g[y].res /\ y.current = g[y].current
             /\ g[y].age \in Nat /\ g[y].age < TIMEOUT
             /\ Asking(y) <=> Asking(g[y])
             /\ Renewing(y) <=> Renewing(g[y])
             /\ Deletes(y) <=> Deletes(g[y])
  <2> DEFINE x == g[y]
  <2>1. x \in ops /\ f[x] = y BY <1>4
  <2> HIDE DEF x
  <2>2. Bears(y, x) /\ y.age = x.age + 1 /\ y.res = x.res /\ y.current = x.current
    BY <1>3, <2>1
  <2>3. x \in Ops /\ Suits(x) /\ x.age \in Nat /\ x.age < TIMEOUT
    BY <1>1, <2>1 DEF PInv, Ops, Ages
  <2>4. /\ Asking(y) <=> Asking(x)
        /\ Renewing(y) <=> Renewing(x)
        /\ Deletes(y) <=> Deletes(x)
    BY <2>2, BearsFacts DEF Deletes, Bears
  <2> QED BY <2>1, <2>2, <2>3, <2>4 DEF x, Bears
<1>8. /\ entry'.acq = entry.acq /\ entry'.proc = entry.proc
      /\ entry.age \in Nat /\ entry'.age \in Nat /\ entry'.age <= entry.age + 1
  <2>1. entry \in Entries BY DEF IInv, TypeOK
  <2> QED BY <2>1 DEF Entries, Ages, Free
<1>9. \A p \in Procs : local'[p].acq = local[p].acq BY DEF IInv, TypeOK, Memories
<1>10. PInv'
  <2>1. Seated' /\ NamesItsSeat' BY <1>8, <1>9 DEF PInv, Seated, NamesItsSeat
  <2>2. PICK U : U = ops' OBVIOUS
  <2>3. \A y \in U : y.age <= TIMEOUT /\ (Asking(y) => phase[y.acq] = "acquiring")
    <3> SUFFICES ASSUME NEW y \in ops'
                 PROVE  y.age <= TIMEOUT /\ (Asking(y) => phase[y.acq] = "acquiring")
      BY <2>2
    <3>1. y.age <= TIMEOUT BY <1>7, LockAssumption
    <3> QED BY <1>7, <3>1 DEF Suits
  <2>4. Staying(U) BY <2>1, <2>3 DEF Staying
  <2>5. Passes(U, g, {}) BY <1>6, <2>2 DEF Passes
  <2> QED BY <2>4, <2>5, SuitsOn
<1>11. ASSUME forced' = 0 PROVE Steady'
  <2>1. Steady BY <1>11 DEF SInv, Steady
  <2>2. OneRun'
    <3>1. \A a \in Attempts : Running(a) => at[a] \in Procs BY DEF IInv, Placed, Running
    <3> QED BY <1>9, <2>1, <3>1 DEF Steady, OneRun, Running
  <2>3. ASSUME NEW a, NEW t \in Nat, Fresh(a, t) PROVE Fresh(a, t + 1)'
    <3>1. Undeleted' BY <1>7, <2>3 DEF Fresh, Undeleted, Deletes
    <3> QED BY <1>8, <2>3, <3>1 DEF Fresh
  <2>4. GrantStands'
    <3> SUFFICES ASSUME NEW y \in ops', Asking(y), y.res = "ok"
                 PROVE  /\ Fresh(y.acq, y.age)'
                        /\ \A b \in Attempts : Running(b) => at[b] # y.proc
      BY DEF GrantStands, Asking, Running
    <3> DEFINE x == g[y]
    <3>1. /\ x \in ops /\ Asking(x) /\ x.res = "ok" /\ x.age \in Nat
          /\ y.acq = x.acq /\ y.proc = x.proc /\ y.age = x.age + 1
      BY <1>7
    <3> HIDE DEF x
    <3>2. Fresh(x.acq, x.age) /\ \A b \in Attempts : Running(b) => at[b] # x.proc
      BY <2>1, <3>1 DEF Steady, GrantStands
    <3> QED BY <2>3, <3>1, <3>2
  <2>5. AskedTooLate'
    <3> SUFFICES ASSUME NEW b \in Attempts, NEW y \in ops',
                        Running(b), Asking(y), y.proc = at[b]
                 PROVE  /\ y.kind = "create" => Fresh(b, y.age + TIMEOUT)'
                        /\ y.kind = "take" => ~ y.current /\ y.res # "ok"
      BY DEF AskedTooLate, Asking, Running
    <3> DEFINE x == g[y]
    <3>1. /\ x \in ops /\ Asking(x) /\ x.age \in Nat /\ y.res = x.res
          /\ y.proc = x.proc /\ y.age = x.age + 1 /\ y.kind = x.kind
          /\ y.current = x.current
      BY <1>7
    <3> HIDE DEF x
    <3>2. /\ x.kind = "create" => Fresh(b, x.age + TIMEOUT)
          /\ x.kind = "take" => ~ x.current /\ x.res # "ok"
      BY <2>1, <3>1 DEF Steady, AskedTooLate
    <3>3. ASSUME y.kind = "create" PROVE Fresh(b, y.age + TIMEOUT)'
      <4>1. Fresh(b, x.age + TIMEOUT) BY <3>1, <3>2, <3>3
      <4>2. Undeleted' BY <1>7, <4>1 DEF Fresh, Undeleted, Deletes
      <4>3. entry'.acq = b /\ entry.age <= x.age + TIMEOUT BY <1>8, <4>1 DEF Fresh
      <4>4. TIMEOUT \in Nat BY LockAssumption
      <4>5. entry'.age <= y.age + TIMEOUT
        <5>1. x.age \in Nat /\ y.age = x.age + 1 BY <3>1
        <5>2. entry.age \in Nat /\ entry'.age \in Nat /\ entry'.age <= entry.age + 1
          BY <1>8
        <5> QED BY <4>3, <4>4, <5>1, <5>2
      <4> QED BY <4>2, <4>3, <4>5 DEF Fresh
    <3> QED BY <3>1, <3>2, <3>3
  <2>6. RenewsItsOwn'
    <3> SUFFICES ASSUME NEW y \in ops', Renewing(y)
                 PROVE  y.by = y.acq /\ (Pending(y) /\ ~ y.current => entry'.acq # y.acq)
      BY DEF RenewsItsOwn, Renewing
    <3> QED BY <1>7, <1>8, <2>1 DEF Steady, RenewsItsOwn, Pending
  <2> QED BY <2>2, <2>4, <2>5, <2>6 DEF Steady
<1> QED BY <1>10, <1>11 DEF SInv, Steady

-----------------------------------------------------------------------------
(* Refusals.                                                               *)

\* Taking a write off, or giving up on it, leaves the refused ones as they are.
LEMMA AbandonKeepsRefusals ==
    ASSUME SoundWrites(ops), RefusedAreStale(ops), NEW o \in ops
    PROVE  RefusedAreStale(Without(o)) /\ \A rest \in Abandon(o) : RefusedAreStale(rest)
<1> DEFINE f == [x \in ops |-> IF x \in Awaited(ops, o.proc) /\ x.turn > o.turn
                                THEN [x EXCEPT !.turn = @ - 1] ELSE x]
<1>1. \A x \in ops : x \in Ops BY DEF SoundWrites
<1>2. ASSUME NEW x \in ops PROVE f[x].res = x.res /\ f[x].current = x.current
  <2>1. x \in Ops BY <1>1
  <2> QED BY <2>1 DEF Ops
<1>3. RefusedAreStale(Without(o))
  <2>1. Without(o) = {f[x] : x \in ops \ {o}} BY DEF Without
  <2> HIDE DEF f
  <2> QED BY <1>2, <2>1 DEF RefusedAreStale
<1>4. Ownerless(o).res = o.res BY <1>1 DEF Ownerless, Ops
<1> QED BY <1>3, <1>4 DEF RefusedAreStale, Abandon

\* Whatever is sent is sent unanswered.
LEMMA WriteKeepsRefusals ==
    ASSUME NEW S, RefusedAreStale(S), NEW kind, NEW p, NEW acq, NEW by, NEW age
    PROVE  RefusedAreStale(Sending(S, Write(kind, p, acq, by, age)))
BY DEF RefusedAreStale, Sending, Write

\* Every step keeps refusals refusals.
LEMMA NextKeepsRefusals ==
    ASSUME IInv, RefusedAreStale(ops), [Next]_vars
    PROVE  RefusedAreStale(ops')
<1>1. SoundWrites(ops) /\ ops \subseteq Ops BY DEF IInv, SoundWrites
<1>2. CASE StoreStep
  <2>1. PICK o \in ops : Store(o) \/ AnswerLost(o) BY <1>2 DEF StoreStep
  <2>2. o \in Ops BY <1>1
  <2>3. CASE AnswerLost(o)
    <3>1. [o EXCEPT !.res = "lost"].res = "lost" BY <2>2 DEF Ops
    <3> QED BY <2>3, <3>1 DEF AnswerLost, RefusedAreStale
  <2>4. CASE Store(o) /\ Accepted(o)
    <3>1. RefusedAreStale(Stale(ops \ {o})) BY <1>1 DEF RefusedAreStale, Stale, Ops
    <3>2. RefusedAreStale(Reply(o, "ok", TRUE)) BY <2>2 DEF RefusedAreStale, Reply, Ops
    <3> QED BY <2>4, <3>1, <3>2 DEF Store, RefusedAreStale
  <2>5. CASE Store(o) /\ ~ Accepted(o)
    <3>1. RefusedAreStale(Reply(o, "conflict", FALSE)) BY <2>2 DEF RefusedAreStale, Reply, Ops
    <3> QED BY <2>5, <3>1 DEF Store, RefusedAreStale
  <2> QED BY <2>1, <2>3, <2>4, <2>5
<1>3. CASE AnswerStep
  <2>1. PICK o \in ops : \/ CreateRefused(o) \/ TakeRefused(o) \/ Acquired(o)
                         \/ Renewed(o) \/ RenewalConflict(o) \/ AdoptionConflict(o)
                         \/ RenewalFailed(o) \/ Released(o) \/ Reclaimed(o)
    BY <1>3 DEF AnswerStep
  <2>2. RefusedAreStale(Without(o)) /\ \A rest \in Abandon(o) : RefusedAreStale(rest)
    BY <1>1, AbandonKeepsRefusals
  <2>3. CASE CreateRefused(o)
    <3>1. \/ ops' \in Abandon(o)
          \/ \E rest \in Abandon(o) :
                ops' = Sending(rest, Write("take", o.proc, o.acq, o.by, o.age))
      BY <2>3 DEF CreateRefused, Inspect
    <3> QED BY <2>2, <3>1, WriteKeepsRefusals
  <2>4. CASE RenewalConflict(o)
    <3>1. \/ ops' = Without(o)
          \/ ops' = Sending(Without(o), Write("adopt", o.proc, o.acq, o.by, o.age))
      BY <2>4 DEF RenewalConflict
    <3> QED BY <2>2, <3>1, WriteKeepsRefusals
  <2>5. CASE Acquired(o) \/ Renewed(o) \/ AdoptionConflict(o)
    BY <2>2, <2>5 DEF Acquired, Renewed, AdoptionConflict, Answered
  <2>6. CASE TakeRefused(o) \/ RenewalFailed(o) \/ Released(o) \/ Reclaimed(o)
    BY <2>2, <2>6 DEF TakeRefused, RenewalFailed, Released, Reclaimed, TimedOut
  <2> QED BY <2>1, <2>3, <2>4, <2>5, <2>6
<1>4. CASE RunStep
  <2>1. PICK a \in Attempts :
            \/ \E p \in Procs : BeginAcquire(a, p)
            \/ Renew(a) \/ SelfFence(a) \/ Interrupt(a) \/ ForceRelease(a) \/ FinishRun(a)
    BY <1>4 DEF RunStep
  <2>2. CASE \E p \in Procs : BeginAcquire(a, p)
    BY <2>2, WriteKeepsRefusals DEF BeginAcquire
  <2>3. CASE Renew(a)
    <3> DEFINE t == [Write("renew", at[a], local[at[a]].acq, a, 0)
                        EXCEPT !.current = local[at[a]].current]
    <3>1. ops' = Sending(ops, t) BY <2>3 DEF Renew
    <3>2. \A n : [t EXCEPT !.turn = n].res = "sent" BY DEF Write
    <3> HIDE DEF t
    <3> QED BY <3>1, <3>2 DEF Sending, RefusedAreStale
  <2>4. CASE ForceRelease(a) \/ FinishRun(a)
    BY <2>4, WriteKeepsRefusals DEF ForceRelease, FinishRun, releaseTaskLock
  <2>5. CASE SelfFence(a) \/ Interrupt(a) BY <2>5 DEF SelfFence, Interrupt
  <2> QED BY <2>1, <2>2, <2>3, <2>4, <2>5
<1>5. CASE ProcStep
  <2>1. PICK p \in Procs : Start(p) \/ Crash(p) BY <1>5 DEF ProcStep
  <2>2. CASE Start(p) BY <2>2, WriteKeepsRefusals DEF Start
  <2>3. CASE Crash(p)
    <3>1. \A x \in ops : Ownerless(x).res = x.res BY <1>1 DEF Ownerless, Ops
    <3> QED BY <2>3, <3>1 DEF Crash, RefusedAreStale
  <2> QED BY <2>1, <2>2, <2>3
<1>6. CASE Expire BY <1>1, <1>6 DEF Expire, RefusedAreStale, Stale, Ops
<1>7. CASE Tick
  <2> DEFINE f == [x \in ops |-> IF x.gone THEN x ELSE [x EXCEPT !.age = @ + 1]]
  <2>1. ops' = {f[x] : x \in ops} BY <1>7 DEF Tick
  <2>2. ASSUME NEW x \in ops PROVE f[x].res = x.res /\ f[x].current = x.current
    <3>1. x \in Ops BY <1>1
    <3> QED BY <3>1 DEF Ops
  <2> HIDE DEF f
  <2> QED BY <2>1, <2>2 DEF RefusedAreStale
<1>8. CASE UNCHANGED vars BY <1>8 DEF vars, RefusedAreStale
<1> QED BY <1>2, <1>3, <1>4, <1>5, <1>6, <1>7, <1>8 DEF Next

-----------------------------------------------------------------------------
(* Turns.                                                                  *)

\* Taking a write off leaves the renewals of every run in turn.
LEMMA HeirsInTurn ==
    ASSUME IInv, PInv, InTurn(ops), NEW T, NEW g, NEW R, Heirs(T, g, R), Ordered(T),
           T \subseteq Ops, \A y \in T : ~ y.gone
    PROVE  InTurn(T)
<1>1. ASSUME NEW y \in T
      PROVE  /\ g[y] \in ops /\ g[y] \in Ops /\ y \in Ops
             /\ y.kind = g[y].kind /\ y.by = g[y].by /\ y.age = g[y].age
             /\ y.res = g[y].res /\ y.proc = g[y].proc
             /\ Renewing(y) <=> Renewing(g[y])
             /\ ~ y.gone /\ Suits(g[y])
  <2>1. g[y] \in ops /\ g[y] \in Ops /\ Suits(g[y]) /\ y \in Ops /\ Kin(y, g[y])
    BY DEF Heirs, IInv, SoundWrites, PInv
  <2> QED BY <2>1 DEF Heirs, Kin, Like, Suits, Renewing
<1>2. \A y \in T : y.kind = "renew" => y.age <= READBACK BY <1>1 DEF InTurn
<1>3. ASSUME NEW y \in T, NEW z \in T, y # z, Renewing(y), Renewing(z), y.by = z.by
      PROVE  /\ ~ (y.kind = "renew" /\ z.kind = "renew")
             /\ y.kind = "adopt" /\ z.kind = "renew" => y.turn < z.turn
             /\ y.kind = "adopt" /\ z.kind = "adopt" => ~ (y.res = "sent" /\ z.res = "sent")
  <2>1. g[y] # g[z] BY <1>1, <1>3 DEF Heirs
  <2>2. /\ ~ (y.kind = "renew" /\ z.kind = "renew")
        /\ y.kind = "adopt" /\ z.kind = "renew" => g[y].turn < g[z].turn
        /\ y.kind = "adopt" /\ z.kind = "adopt" => ~ (y.res = "sent" /\ z.res = "sent")
    BY <1>1, <1>3, <2>1 DEF InTurn
  <2>3. ASSUME y.kind = "adopt", z.kind = "renew" PROVE y.turn < z.turn
    <3>0. y.proc = z.proc /\ ~ y.gone /\ ~ z.gone BY <1>1, <1>3 DEF Suits
    <3>1. y.turn # z.turn BY <1>3, <3>0 DEF Ordered
    <3>2. y.turn > z.turn => g[y].turn > g[z].turn BY <3>0 DEF Heirs
    <3>3. /\ y.turn \in Nat /\ z.turn \in Nat
          /\ g[y].turn \in Nat /\ g[z].turn \in Nat
      BY <1>1 DEF Ops
    <3> QED BY <2>2, <2>3, <3>1, <3>2, <3>3
  <2> QED BY <2>2, <2>3
<1> QED BY <1>2, <1>3 DEF InTurn

\* So does a step of the store or the clock, every write staying in its place.
LEMMA PlacesInTurn ==
    ASSUME InTurn(ops), NEW f, NEW T, T = {f[x] : x \in ops},
           \A x \in ops : /\ f[x].kind = x.kind /\ f[x].by = x.by /\ f[x].turn = x.turn
                          /\ f[x].gone = x.gone /\ (f[x].res = "sent" => x.res = "sent")
                          /\ x.kind = "renew" => f[x].age <= READBACK
    PROVE  InTurn(T)
<1>1. \A y \in T : \E x \in ops : y = f[x] OBVIOUS
<1>2. \A x \in ops : Renewing(f[x]) <=> Renewing(x) BY DEF Renewing
<1>3. ASSUME NEW x \in ops, NEW z \in ops, f[x] # f[z], Renewing(f[x]), Renewing(f[z]),
             f[x].by = f[z].by
      PROVE  /\ ~ (f[x].kind = "renew" /\ f[z].kind = "renew")
             /\ f[x].kind = "adopt" /\ f[z].kind = "renew" => f[x].turn < f[z].turn
             /\ f[x].kind = "adopt" /\ f[z].kind = "adopt" =>
                   ~ (f[x].res = "sent" /\ f[z].res = "sent")
  BY <1>2, <1>3 DEF InTurn
<1>4. \A y \in T : y.kind = "renew" => y.age <= READBACK BY <1>1
<1>5. \A y, z \in T : y # z /\ Renewing(y) /\ Renewing(z) /\ y.by = z.by =>
          /\ ~ (y.kind = "renew" /\ z.kind = "renew")
          /\ y.kind = "adopt" /\ z.kind = "renew" => y.turn < z.turn
          /\ y.kind = "adopt" /\ z.kind = "adopt" => ~ (y.res = "sent" /\ z.res = "sent")
  BY <1>1, <1>3
<1> QED BY <1>4, <1>5 DEF InTurn

\* A write that is sent comes after what its process waits for: a renewal when no
\* other is there, an adoption when nothing of its run is still to be served.
LEMMA SendingInTurn ==
    ASSUME NEW S, S \subseteq Ops, IsFiniteSet(S), Ordered(S), InTurn(S),
           NEW o \in Ops, ~ o.gone, o.res = "sent",
           o.kind = "renew" => o.age <= READBACK,
           \A y \in S : Renewing(o) /\ Renewing(y) /\ y.by = o.by =>
               /\ y.kind = "adopt" /\ y.proc = o.proc
               /\ o.kind = "adopt" => y.res # "sent"
    PROVE  Ordered(Sending(S, o)) /\ InTurn(Sending(S, o))
<1>1. PICK w \in Ops :
          /\ Sending(S, o) = S \cup {w} /\ Ordered(S \cup {w})
          /\ Like(w, o) /\ w.by = o.by /\ w.age = o.age /\ ~ w.gone
          /\ \A y \in S : ~ y.gone /\ y.proc = w.proc => y.turn < w.turn
  BY SendingOrdered
<1>2. /\ w.kind = o.kind /\ w.proc = o.proc /\ w.res = "sent"
      /\ Renewing(w) <=> Renewing(o)
  BY <1>1 DEF Like, Renewing
<1>3. \A x \in S \cup {w} : x.kind = "renew" => x.age <= READBACK
  BY <1>1, <1>2 DEF InTurn
<1>4. ASSUME NEW y \in S, Renewing(w), Renewing(y), y.by = w.by
      PROVE  /\ y.kind = "adopt" /\ y.turn < w.turn
             /\ w.kind = "adopt" => y.res # "sent"
  BY <1>1, <1>2, <1>4 DEF Renewing
<1>5. ASSUME NEW x \in S \cup {w}, NEW y \in S \cup {w},
             x # y, Renewing(x), Renewing(y), x.by = y.by
      PROVE  /\ ~ (x.kind = "renew" /\ y.kind = "renew")
             /\ x.kind = "adopt" /\ y.kind = "renew" => x.turn < y.turn
             /\ x.kind = "adopt" /\ y.kind = "adopt" => ~ (x.res = "sent" /\ y.res = "sent")
  <2>1. CASE x \in S /\ y \in S BY <1>5, <2>1 DEF InTurn
  <2>2. CASE x = w /\ y \in S BY <1>4, <1>5, <2>2
  <2>3. CASE y = w /\ x \in S BY <1>4, <1>5, <2>3
  <2> QED BY <1>5, <2>1, <2>2, <2>3
<1>6. InTurn(S \cup {w}) BY <1>3, <1>5 DEF InTurn
<1> QED BY <1>1, <1>6

\* When o is answered or given up, the others stay in order and in turn; those
\* that are left are the ones there were, in the same order.
LEMMA LeavingInTurn ==
    ASSUME IInv, PInv, Ordered(ops), InTurn(ops), NEW o \in ops
    PROVE  /\ Ordered(Without(o)) /\ InTurn(Without(o))
           /\ Without(o) \subseteq Ops /\ IsFiniteSet(Without(o))
<1>1. SoundWrites(ops) /\ ~ o.gone BY DEF IInv, PInv, Suits
<1>2. Ordered(Without(o)) BY <1>1, WithoutOrdered
<1>3. PICK g : Heirs(Without(o), g, {o}) BY <1>1, WithoutOrdered
<1>4. SoundWrites(Without(o)) BY <1>1, WithoutSound
<1>5. Without(o) \subseteq Ops /\ IsFiniteSet(Without(o)) BY <1>4 DEF SoundWrites
<1>6. \A y \in Without(o) : ~ y.gone
  <2>1. PICK h : Remain(Without(o), h, {o}) BY <1>1, OthersRemain
  <2> QED BY <2>1 DEF Remain, Drawn, Bears, PInv, Suits
<1>7. InTurn(Without(o)) BY <1>2, <1>3, <1>5, <1>6, HeirsInTurn
<1> QED BY <1>2, <1>5, <1>7

\* The refused renewal has left nothing of its run to be served before it.
LEMMA AdoptionInTurn ==
    ASSUME IInv, PInv, Ordered(ops), InTurn(ops), NEW o \in ops,
           o.kind = "renew", o.res = "conflict"
    PROVE  LET T == Sending(Without(o), Write("adopt", o.proc, o.acq, o.by, o.age))
           IN  Ordered(T) /\ InTurn(T)
<1> DEFINE t == Write("adopt", o.proc, o.acq, o.by, o.age)
           S == Without(o)
<1>1. Ordered(S) /\ InTurn(S) /\ S \subseteq Ops /\ IsFiniteSet(S) BY LeavingInTurn
<1>2. o \in Ops /\ Suits(o) /\ Renewing(o) /\ SoundWrites(ops)
  BY DEF IInv, SoundWrites, PInv, Suits, Renewing
<1>3. t \in Ops BY <1>2, WriteTyped DEF Ops
<1>4. t.kind = "adopt" /\ t.proc = o.proc /\ t.by = o.by /\ ~ t.gone /\ t.res = "sent"
  BY DEF Write
<1>5. PICK g : Remain(S, g, {o}) BY <1>2, OthersRemain
<1> HIDE DEF t, S
<1>6. ASSUME NEW y \in S, Renewing(y), y.by = t.by
      PROVE  y.kind = "adopt" /\ y.proc = t.proc /\ y.res # "sent"
  <2> DEFINE x == g[y]
  <2>1. x \in ops /\ x # o /\ Echo(y, x) /\ Suits(x) BY <1>5 DEF Remain, Drawn, PInv
  <2> HIDE DEF x
  <2>2. Renewing(x) /\ x.by = o.by /\ y.proc = x.proc
    BY <1>4, <1>6, <2>1, BearsFacts DEF Echo, Bears
  <2>3. x.proc = o.proc BY <1>2, <2>1, <2>2 DEF Suits
  <2>4. x.kind = "adopt" /\ x.turn < o.turn
    BY <1>2, <2>1, <2>2 DEF InTurn, Renewing
  <2>5. o.turn < x.turn \/ x.res = "lost"
    BY <1>2, <2>1, <2>3 DEF Ordered, Suits
  <2>6. x.turn \in Nat /\ o.turn \in Nat BY <1>2, <2>1 DEF SoundWrites, Ops
  <2>7. x.res = "lost" BY <2>4, <2>5, <2>6
  <2> QED BY <1>4, <2>1, <2>2, <2>3, <2>4, <2>7 DEF Echo, Bears
<1>7. Ordered(Sending(S, t)) /\ InTurn(Sending(S, t))
  BY <1>1, <1>3, <1>4, <1>6, SendingInTurn
<1> QED BY <1>7 DEF S, t

\* A write that renews nothing can be sent at any time.
LEMMA OtherInTurn ==
    ASSUME NEW S, S \subseteq Ops, IsFiniteSet(S), Ordered(S), InTurn(S),
           NEW kind \in {"create", "take", "delete", "reclaim"}, NEW p \in Procs,
           NEW acq \in Acqs, NEW by \in Acqs, NEW age \in Ages
    PROVE  LET T == Sending(S, Write(kind, p, acq, by, age)) IN Ordered(T) /\ InTurn(T)
<1> DEFINE t == Write(kind, p, acq, by, age)
<1>1. t \in Ops BY WriteTyped
<1>2. ~ t.gone /\ t.res = "sent" /\ t.kind # "renew" /\ ~ Renewing(t)
  BY DEF Write, Renewing
<1> HIDE DEF t
<1>3. Ordered(Sending(S, t)) /\ InTurn(Sending(S, t)) BY <1>1, <1>2, SendingInTurn
<1> QED BY <1>3 DEF t

\* The next renewal finds none of its run's renewals, and its adoptions ahead.
LEMMA RenewInTurn ==
    ASSUME Punctual, IInv, PInv, Ordered(ops), InTurn(ops), NEW a \in Attempts, Renew(a)
    PROVE  Ordered(ops') /\ InTurn(ops')
<1> DEFINE p == at[a]
           t == [Write("renew", p, local[p].acq, a, 0) EXCEPT !.current = local[p].current]
<1>1. p \in Procs BY DEF IInv, Placed, Renew
<1>2. local[p] \in Memories BY <1>1 DEF IInv, TypeOK
<1>3. Write("renew", p, local[p].acq, a, 0) \in Ops
  BY <1>1, <1>2, LockAssumption, WriteTyped DEF Memories, Acqs, Ages
<1>4. t \in Ops BY <1>2, <1>3 DEF Ops, Memories
<1>5. t.proc = p /\ t.by = a /\ t.age = 0 /\ ~ t.gone /\ t.res = "sent" /\ t.kind = "renew"
  BY DEF Write
<1>6. ops' = Sending(ops, t) BY DEF Renew
<1> HIDE DEF t
<1>7. ASSUME NEW y \in ops, Renewing(y), y.by = a
      PROVE  y.kind = "adopt" /\ y.proc = p
  <2>1. y.age >= REFRESH BY <1>7 DEF Renew, Renewing
  <2>2. y \in Ops /\ Suits(y) /\ y.age \in Nat BY DEF IInv, SoundWrites, PInv, Ops, Ages
  <2>3. y.kind # "renew" BY <2>1, <2>2, LockAssumption DEF InTurn, Punctual
  <2> QED BY <1>7, <2>2, <2>3 DEF Suits, Renewing
<1>8. ops \subseteq Ops /\ IsFiniteSet(ops) BY DEF IInv, SoundWrites
<1>9. t.age <= READBACK BY <1>5, LockAssumption
<1> QED BY <1>4, <1>5, <1>6, <1>7, <1>8, <1>9, SendingInTurn

\* The store and the clock leave every write in its place.
LEMMA ServingInTurn ==
    ASSUME IInv, PInv, Ordered(ops), InTurn(ops),
           \/ \E o \in ops : Store(o) \/ AnswerLost(o)
           \/ Expire \/ Tick
    PROVE  Ordered(ops') /\ InTurn(ops')
<1>1. \A x \in ops : x \in Ops /\ ~ x.gone /\ x.age \in Nat
  BY DEF IInv, SoundWrites, PInv, Suits, Ops, Ages
<1>2. ASSUME NEW f, ops' = {f[x] : x \in ops},
             \A x \in ops :
                /\ f[x].proc = x.proc /\ f[x].turn = x.turn /\ f[x].gone = x.gone
                /\ f[x].kind = x.kind /\ f[x].by = x.by
                /\ f[x].res = "sent" => x.res = "sent"
                /\ x.res = "lost" => f[x].res = "lost"
                /\ x.kind = "renew" => f[x].age <= READBACK
                /\ f[x].res # x.res =>
                      \/ f[x].res = "lost" /\ x.res # "sent"
                      \/ \A z \in ops : z.proc = x.proc /\ z # x =>
                            x.turn < z.turn \/ z.res = "lost"
      PROVE  Ordered(ops') /\ InTurn(ops')
  <2>1. InPlaces(ops, f) BY <1>1, <1>2 DEF InPlaces
  <2>2. Ordered(ops') BY <1>2, <2>1, PlacesOrdered DEF IInv
  <2>3. InTurn(ops') BY <1>2, PlacesInTurn
  <2> QED BY <2>2, <2>3
<1>3. CASE \E o \in ops : Store(o)
  <2>1. PICK o \in ops : Store(o) BY <1>3
  <2>2. ASSUME NEW z \in ops, z.proc = o.proc, z # o PROVE o.turn < z.turn \/ z.res = "lost"
    <3>1. z.turn < o.turn => z.res = "lost" BY <1>1, <2>1, <2>2 DEF Store, Awaited
    <3>2. z.turn # o.turn /\ z.turn \in Nat /\ o.turn \in Nat
      BY <1>1, <2>2 DEF Ordered, Ops
    <3> QED BY <3>1, <3>2
  <2> DEFINE moved == Accepted(o)
             f == [x \in ops |-> IF moved THEN AfterStore(o, x, TRUE)
                                 ELSE AfterStore(o, x, FALSE)]
  <2>3. ops' = {f[x] : x \in ops}
    <3>1. CASE moved
      <4>1. ops' = Stale(ops \ {o}) \cup {[o EXCEPT !.res = "ok", !.current = TRUE]}
        BY <1>1, <2>1, <3>1 DEF Store, Reply
      <4> QED BY <3>1, <4>1 DEF Stale, AfterStore
    <3>2. CASE ~ moved
      <4>1. ops' = (ops \ {o}) \cup {[o EXCEPT !.res = "conflict", !.current = FALSE]}
        BY <1>1, <2>1, <3>2 DEF Store, Reply
      <4> QED BY <3>2, <4>1 DEF AfterStore
    <3> QED BY <3>1, <3>2
  <2>4. ASSUME NEW x \in ops
        PROVE  /\ f[x].proc = x.proc /\ f[x].turn = x.turn /\ f[x].gone = x.gone
               /\ f[x].kind = x.kind /\ f[x].by = x.by /\ f[x].age = x.age
               /\ x # o => f[x].res = x.res
               /\ x = o => f[x].res \in {"ok", "conflict"}
    BY <1>1 DEF AfterStore, Ops
  <2>5. o.res = "sent" BY <2>1 DEF Store
  <2> HIDE DEF f
  <2> QED BY <1>2, <2>2, <2>3, <2>4, <2>5 DEF InTurn
<1>4. CASE \E o \in ops : AnswerLost(o)
  <2>1. PICK o \in ops : AnswerLost(o) BY <1>4
  <2> DEFINE f == [x \in ops |-> IF x = o THEN [o EXCEPT !.res = "lost"] ELSE x]
  <2>2. ops' = {f[x] : x \in ops} BY <2>1 DEF AnswerLost
  <2>3. ASSUME NEW x \in ops
        PROVE  /\ f[x].proc = x.proc /\ f[x].turn = x.turn /\ f[x].gone = x.gone
               /\ f[x].kind = x.kind /\ f[x].by = x.by /\ f[x].age = x.age
               /\ x # o => f[x].res = x.res
               /\ x = o => f[x].res = "lost"
    BY <1>1 DEF Ops
  <2>4. o.res # "sent" BY <2>1 DEF AnswerLost
  <2> HIDE DEF f
  <2> QED BY <1>2, <2>2, <2>3, <2>4 DEF InTurn
<1>5. CASE Expire
  <2> DEFINE f == [x \in ops |-> [x EXCEPT !.current = FALSE]]
  <2>1. ops' = {f[x] : x \in ops} BY <1>5 DEF Expire, Stale
  <2>2. ASSUME NEW x \in ops
        PROVE  /\ f[x].proc = x.proc /\ f[x].turn = x.turn /\ f[x].gone = x.gone
               /\ f[x].kind = x.kind /\ f[x].by = x.by /\ f[x].age = x.age
               /\ f[x].res = x.res
    BY <1>1 DEF Ops
  <2> HIDE DEF f
  <2> QED BY <1>2, <2>1, <2>2 DEF InTurn
<1>6. CASE Tick
  <2> DEFINE f == [x \in ops |-> [x EXCEPT !.age = @ + 1]]
  <2>1. ops' = {f[x] : x \in ops} BY <1>1, <1>6 DEF Tick
  <2>2. ASSUME NEW x \in ops
        PROVE  /\ f[x].proc = x.proc /\ f[x].turn = x.turn /\ f[x].gone = x.gone
               /\ f[x].kind = x.kind /\ f[x].by = x.by /\ f[x].res = x.res
               /\ f[x].age = x.age + 1
    BY <1>1 DEF Ops
  <2>3. \A x \in ops : x.kind = "renew" => x.age < READBACK BY <1>1, <1>6 DEF Tick
  <2> HIDE DEF f
  <2>4. ASSUME NEW x \in ops
        PROVE  /\ f[x].proc = x.proc /\ f[x].turn = x.turn /\ f[x].gone = x.gone
               /\ f[x].kind = x.kind /\ f[x].by = x.by /\ f[x].res = x.res
               /\ x.kind = "renew" => f[x].age <= READBACK
    <3>1. x.age \in Nat /\ f[x].age = x.age + 1 /\ (x.kind = "renew" => x.age < READBACK)
      BY <1>1, <2>2, <2>3
    <3>2. x.kind = "renew" => f[x].age <= READBACK BY <3>1, LockAssumption
    <3> QED BY <2>2, <3>2
  <2> QED BY <1>2, <2>1, <2>4
<1> QED BY <1>3, <1>4, <1>5, <1>6

\* Every step keeps the order and the turns.
LEMMA NextKeepsTurns ==
    ASSUME Punctual, IInv, PInv, Ordered(ops), InTurn(ops), [Next]_vars
    PROVE  Ordered(ops') /\ InTurn(ops')
<1>1. /\ SoundWrites(ops) /\ ops \subseteq Ops /\ IsFiniteSet(ops)
      /\ \A x \in ops : x \in Ops /\ ~ x.gone
      /\ 0 \in Ages /\ NoAttempt \in Acqs /\ Attempts \subseteq Acqs
      /\ entry.acq \in Acqs
  BY LockAssumption DEF IInv, SoundWrites, PInv, Suits, Ages, Acqs, TypeOK, Entries
<1>2. CASE StoreStep \/ Expire \/ Tick BY <1>2, ServingInTurn DEF StoreStep
<1>3. CASE AnswerStep
  <2>1. PICK o \in ops : \/ CreateRefused(o) \/ TakeRefused(o) \/ Acquired(o)
                         \/ Renewed(o) \/ RenewalConflict(o) \/ AdoptionConflict(o)
                         \/ RenewalFailed(o) \/ Released(o) \/ Reclaimed(o)
    BY <1>3 DEF AnswerStep
  <2>2. /\ Ordered(Without(o)) /\ InTurn(Without(o)) /\ Abandon(o) = {Without(o)}
        /\ Without(o) \subseteq Ops /\ IsFiniteSet(Without(o))
    BY <1>1, LeavingInTurn, NothingStaysBehind
  <2>3. CASE CreateRefused(o)
    <3>1. CASE ops' = Without(o) BY <2>2, <3>1
    <3>2. CASE ops' = Sending(Without(o), Write("take", o.proc, o.acq, o.by, o.age))
      <4>1. o.proc \in Procs /\ o.acq \in Acqs /\ o.by \in Acqs /\ o.age \in Ages
        BY <1>1 DEF Ops
      <4> QED BY <2>2, <3>2, <4>1, OtherInTurn
    <3> QED BY <2>2, <2>3, <3>1, <3>2 DEF CreateRefused, Inspect
  <2>4. CASE RenewalConflict(o)
    <3>1. CASE ops' = Without(o) BY <2>2, <3>1
    <3>2. CASE ops' = Sending(Without(o), Write("adopt", o.proc, o.acq, o.by, o.age))
      BY <2>4, <3>2, AdoptionInTurn DEF RenewalConflict
    <3> QED BY <2>4, <3>1, <3>2 DEF RenewalConflict
  <2>5. CASE Acquired(o) \/ Renewed(o) \/ AdoptionConflict(o)
    BY <2>2, <2>5 DEF Acquired, Renewed, AdoptionConflict, Answered
  <2>6. CASE TakeRefused(o) \/ RenewalFailed(o) \/ Released(o) \/ Reclaimed(o)
    BY <2>2, <2>6 DEF TakeRefused, RenewalFailed, Released, Reclaimed, TimedOut
  <2> QED BY <2>1, <2>3, <2>4, <2>5, <2>6
<1>4. CASE RunStep
  <2>1. PICK a \in Attempts :
            \/ \E p \in Procs : BeginAcquire(a, p)
            \/ Renew(a) \/ SelfFence(a) \/ Interrupt(a) \/ ForceRelease(a) \/ FinishRun(a)
    BY <1>4 DEF RunStep
  <2>2. CASE \E p \in Procs : BeginAcquire(a, p)
    BY <1>1, <2>2, OtherInTurn DEF BeginAcquire
  <2>3. CASE Renew(a) BY <2>3, RenewInTurn
  <2>4. CASE ForceRelease(a) \/ FinishRun(a)
    <3>1. at[a] \in Procs BY <2>4 DEF ForceRelease, FinishRun, IInv, Placed
    <3>2. PICK by \in Acqs :
              ops' = ops \/ ops' = Sending(ops, Write("delete", at[a], entry.acq, by, 0))
      BY <1>1, <2>4 DEF ForceRelease, FinishRun, releaseTaskLock
    <3> QED BY <1>1, <3>1, <3>2, OtherInTurn
  <2>5. CASE SelfFence(a) \/ Interrupt(a) BY <2>5 DEF SelfFence, Interrupt
  <2> QED BY <2>1, <2>2, <2>3, <2>4, <2>5
<1>5. CASE ProcStep
  <2>1. PICK p \in Procs : Start(p) \/ Crash(p) BY <1>5 DEF ProcStep
  <2>2. CASE Start(p)
    <3>1. ops' = ops \/ ops' = Sending(ops, Write("reclaim", p, entry.acq, NoAttempt, 0))
      BY <2>2 DEF Start
    <3> QED BY <1>1, <3>1, OtherInTurn
  <2>3. CASE Crash(p)
    <3>1. ops' = {o \in ops : o.proc # p} BY <2>3, NothingSurvives
    <3>2. \A q : q # p => Awaited(ops', q) = Awaited(ops, q) BY <3>1 DEF Awaited
    <3>3. Ordered(ops') BY <3>1, <3>2 DEF Ordered
    <3>4. InTurn(ops') BY <3>1 DEF InTurn
    <3> QED BY <3>3, <3>4
  <2> QED BY <2>1, <2>2, <2>3
<1>6. CASE UNCHANGED vars BY <1>6 DEF vars
<1> QED BY <1>2, <1>3, <1>4, <1>5, <1>6 DEF Next

-----------------------------------------------------------------------------
(* The theorem.                                                            *)

\* The invariant holds at the start.
LEMMA InitStands ==
    ASSUME Init
    PROVE  PInv /\ SInv
<1> USE DEF Init
<1>1. PInv
  BY LockAssumption DEF PInv, AsksOnce, Seated, NamesItsSeat, Free, Forgotten
<1>2. SInv
  BY DEF SInv, OneRun, GrantStands, AskedTooLate, RenewsItsOwn, Running
<1> QED BY <1>1, <1>2

\* Every step keeps it.
LEMMA NextStands ==
    ASSUME Punctual, IInv, PInv, SInv, RefusedAreStale(ops), Ordered(ops), InTurn(ops),
           [Next]_vars
    PROVE  PInv' /\ SInv'
<1>1. CASE StoreStep
  BY <1>1, StoreAcceptedStands, StoreRefusedStands DEF StoreStep
<1>2. CASE AnswerStep
  BY <1>2, CreateRefusedStands, TakeRefusedStands, AcquiredStands, RenewedStands,
     RenewalConflictStands, RenewalFailedStands, ReleasedStands
  DEF AnswerStep
<1>3. CASE RunStep
  BY <1>3, BeginAcquireStands, RenewStands, StopStands, ForceReleaseStands,
     FinishRunStands
  DEF RunStep
<1>4. CASE ProcStep BY <1>4, StartStands, CrashStands DEF ProcStep
<1>5. CASE Expire \/ Tick BY <1>5, ExpireStands, TickStands
<1>6. CASE UNCHANGED vars
  BY <1>6 DEF vars, PInv, Suits, AsksOnce, Seated, NamesItsSeat, SInv, OneRun,
              Running, GrantStands, Fresh, Undeleted, AskedTooLate, RenewsItsOwn,
              Asking, Renewing, Deleting, Deletes
<1> QED BY <1>1, <1>2, <1>3, <1>4, <1>5, <1>6 DEF Next

\* The lock gone from the memory of a run told to stop was given up for lost.
LEMMA StandDownStep ==
    ASSUME IInv, PInv, SInv, RefusedAreStale(ops), [Next]_vars, NEW a \in Attempts,
           Working(a), phase'[a] = "stopping",
           local[at[a]].acq = a, local'[at[a]].acq # a, forced' = 0
    PROVE  entry.acq # a
<1>1. phase[a] = "working" /\ at[a] \in Procs
  BY DEF Working, IInv, Placed
<1>2. /\ phase' # phase /\ local' # local BY <1>1
<1>3. PICK o \in ops : /\ \/ RenewalConflict(o) /\ ~ OwnCommittedWrite(o)
                          \/ AdoptionConflict(o)
                       /\ LoseLock(o)
  <2>1. CASE StoreStep BY <1>2, <2>1 DEF StoreStep, Store, AnswerLost
  <2>2. CASE AnswerStep
    <3>1. PICK o \in ops : \/ CreateRefused(o) \/ TakeRefused(o) \/ Acquired(o)
                           \/ Renewed(o) \/ RenewalConflict(o) \/ AdoptionConflict(o)
                           \/ RenewalFailed(o) \/ Released(o) \/ Reclaimed(o)
      BY <2>2 DEF AnswerStep
    <3>2. CASE CreateRefused(o) \/ TakeRefused(o) \/ RenewalFailed(o) \/ Reclaimed(o)
      BY <1>2, <3>2 DEF CreateRefused, TakeRefused, RenewalFailed, Reclaimed
    <3>3. CASE Acquired(o)
      <4>1. phase'[a] \in {phase[a], "working"} BY <3>3 DEF Acquired, IInv, TypeOK
      <4> QED BY <1>1, <4>1
    <3>4. CASE Renewed(o) BY <1>2, <3>4 DEF Renewed
    <3>5. CASE RenewalConflict(o) BY <1>2, <3>5 DEF RenewalConflict
    <3>6. CASE AdoptionConflict(o) BY <3>6 DEF AdoptionConflict
    <3>7. CASE Released(o) BY <1>1, <3>7 DEF Released
    <3> QED BY <3>1, <3>2, <3>3, <3>4, <3>5, <3>6, <3>7
  <2>3. CASE RunStep
    <3>1. PICK b \in Attempts :
              \/ \E p \in Procs : BeginAcquire(b, p)
              \/ Renew(b) \/ SelfFence(b) \/ Interrupt(b) \/ ForceRelease(b) \/ FinishRun(b)
      BY <2>3 DEF RunStep
    <3>2. ~ ForceRelease(b) BY DEF ForceRelease, IInv, TypeOK
    <3>3. ASSUME FinishRun(b) PROVE FALSE
      <4>1. phase'[a] \in {phase[a], "releasing", "done"}
        BY <3>3 DEF FinishRun, IInv, TypeOK
      <4> QED BY <1>1, <4>1
    <3> QED BY <1>2, <3>1, <3>2, <3>3 DEF BeginAcquire, Renew, SelfFence, Interrupt
  <2>4. CASE ProcStep BY <1>1, <1>2, <2>4 DEF ProcStep, Start, Crash
  <2>5. CASE Expire \/ Tick \/ UNCHANGED vars BY <1>2, <2>5 DEF Expire, Tick, vars
  <2> QED BY <2>1, <2>2, <2>3, <2>4, <2>5 DEF Next
<1>4. o.by = a
  <2>1. Abort(o.by) BY <1>3 DEF LoseLock
  <2> QED BY <1>1, <2>1 DEF Abort, IInv, TypeOK
<1>5. o.proc = at[a] /\ local[o.proc].acq = o.acq
  <2>1. forgetLock(o.proc) /\ local[o.proc].acq = o.acq BY <1>2, <1>3 DEF LoseLock
  <2> QED BY <1>1, <2>1 DEF forgetLock, IInv, TypeOK
<1>6. o.acq = a BY <1>5
<1>7. CASE RenewalConflict(o) /\ ~ OwnCommittedWrite(o)
  BY <1>5, <1>6, <1>7 DEF OwnCommittedWrite, PInv, NamesItsSeat
<1>8. CASE AdoptionConflict(o)
  <2>1. o \in Ops /\ Sound(o) /\ Renewing(o) /\ o.kind = "adopt" /\ o.res = "conflict"
    BY <1>8 DEF AdoptionConflict, Answered, Renewing, IInv, SoundWrites
  <2>2. forced = 0 BY <1>8 DEF AdoptionConflict
  <2>3. ~ o.current BY <2>1 DEF RefusedAreStale
  <2> QED BY <1>6, <2>1, <2>2, <2>3 DEF SInv, RenewsItsOwn, Pending
<1> QED BY <1>3, <1>7, <1>8

\* StandsDownOnlyWhenLost, however many answers are lost and whatever adoption is
\* under way when the next renewal is sent: when no write is stored after its
\* sender has given up on it and no read-back takes until the next renewal, a run
\* whose lock nobody has released by force gives it up for lost (loseLock in
\* lock.ts) only when it is.
THEOREM StandsDownRightly ==
    ASSUME Punctual
    PROVE  Spec => StandsDownOnlyWhenLost
<1> DEFINE Stand == \A a \in Attempts :
               ( /\ Working(a) /\ phase'[a] = "stopping"
                 /\ local[at[a]].acq = a /\ local'[at[a]].acq # a
                 /\ forced' = 0 )
                   => entry.acq # a
           All == /\ IInv /\ PInv /\ SInv
                  /\ RefusedAreStale(ops) /\ Ordered(ops) /\ InTurn(ops)
<1>1. Init => All
  BY InitSound, InitStands DEF Init, RefusedAreStale, Ordered, InTurn
<1>2. All /\ [Next]_vars => All'
  <2> SUFFICES ASSUME All, [Next]_vars PROVE All' OBVIOUS
  <2>1. IInv' BY NextKeeps
  <2>2. PInv' /\ SInv' BY NextStands
  <2>3. RefusedAreStale(ops)' BY NextKeepsRefusals DEF RefusedAreStale
  <2>4. Ordered(ops') /\ InTurn(ops') BY NextKeepsTurns
  <2>5. Ordered(ops)' /\ InTurn(ops)'
    BY <2>4 DEF Ordered, InTurn, Awaited, Renewing
  <2> QED BY <2>1, <2>2, <2>3, <2>5
<1>3. All /\ [Next]_vars => [Stand]_vars BY StandDownStep
<1> QED BY <1>1, <1>2, <1>3, PTL DEF Spec, StandsDownOnlyWhenLost
=============================================================================
