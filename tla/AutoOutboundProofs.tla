-------------------------- MODULE AutoOutboundProofs --------------------------
(***************************************************************************)
(* What holds of automatic outbound for every number of targets and         *)
(* attempts and every limit: its types, the limit on concurrent calls, one  *)
(* call to a target at a time, and no call to a target that has answered.   *)
(***************************************************************************)
EXTENDS AutoOutbound, FiniteSetTheorems, TLAPS

Early == {"unused", "claimed", "over", "restoring", "deferring"}

\* An attempt as a record: its record is open, its call is or may be up, its
\* session can still bring an event to its record.
IsOpen(r) == r.rec \in {"open", "answered"}
IsPlaced(r) == r.call \in {"asked", "ringing", "talking"}
Busy(r) == r.pc \notin {"unused", "done"} \/ r.bind \/ r.ans # "idle" \/ r.end # "idle"
Tied(r) == r.sess # "none" /\ (IsOpen(r) \/ IsPlaced(r))

\* It may still write what its target is to be.
Speaks(r) == Busy(r) \/ Tied(r)
Holds(r) == r.pc \in (Early \ {"unused"}) \cup {"acquired", "recorded"} \/ Tied(r)
Current(r) == r.pc \in (Early \ {"unused"}) \cup {"acquired"} \/ IsOpen(r)

\* It is in the counter.
Has(r) == r.held \/ r.pc = "over"

\* How the stages of one attempt belong together: until it has a place there is
\* no record and no call; who ends the record of a call that was made still has
\* the place to give back; an open record at work on has its session.
Sound(r) ==
  /\ r.pc = "unused" <=> r.target = NoTarget
  /\ r.pc \in Early => ~r.held
  /\ r.pc \in Early \cup {"acquired"} => r.rec = "none"
  /\ r.pc \in Early \cup {"acquired", "recorded"} => r.call = "none" /\ r.sess = "none"
  /\ r.pc \in Early => ~r.bind /\ r.ans = "idle" /\ r.end = "idle"
  /\ r.pc \in {"acquired", "recorded", "refused"} => r.held
  /\ r.pc = "recorded" => r.rec = "open"
  /\ r.pc = "asking" /\ r.call = "asked" => r.rec = "open"
  /\ r.pc \in {"refused", "finalising"} => r.call = "void" /\ r.rec = "open"
  /\ IsPlaced(r) => r.held /\ r.sess # "none"
  /\ IsOpen(r) /\ r.call # "void" => r.held
  /\ IsOpen(r) /\ Busy(r) /\ r.pc # "recorded" => r.sess # "none"
  /\ r.sess = "attempt" /\ r.call # "void" => IsOpen(r)
  /\ r.bind \/ r.ans # "idle" => r.call \in {"talking", "missed", "hung_up"}
  /\ r.end # "idle" => r.sess = "call" /\ r.call \in {"missed", "hung_up"}
  /\ r.end = "owner" => r.held
  /\ r.end \in {"owner", "released"} => ~IsOpen(r)

\* Unless the counter was dropped under calls, it covers all it counts, and the
\* places that were given never pass the limit.
Held == {a \in Attempts : at[a].held}
Ledger ==
  ~spoiled => /\ Cardinality({a \in Attempts : Has(at[a])}) <= count
              /\ Cardinality(Held) <= MaxConcurrency

\* One attempt speaks for a target.
Sole ==
  \A a, b \in Attempts :
    at[a].target = at[b].target /\ Speaks(at[a]) /\ Speaks(at[b]) => a = b

\* Its session is the one the sweep asks for, and its target stays claimed.
Known ==
  \A a \in Attempts :
    /\ Tied(at[a]) => token[at[a].target] = a
    /\ Holds(at[a]) => target[at[a].target] \in {"calling", "deleted"}

\* A target that was not swept is not called again before the record of its call
\* has ended, and not at all once it has ended as answered.
Settled ==
  \A a \in Attempts : at[a].target \notin swept =>
    /\ Current(at[a]) => target[at[a].target] \in {"calling", "deleted"}
    /\ IsPlaced(at[a]) => IsOpen(at[a])
    /\ at[a].rec = "ended_answered" => target[at[a].target] = "completed"
    /\ \A b \in Attempts :
         at[a].target = at[b].target /\ Current(at[a]) /\ Current(at[b]) => a = b

AllSound == \A a \in Attempts : Sound(at[a])

IInv == TypeOK /\ AllSound /\ Ledger /\ Sole /\ Known /\ Settled

-----------------------------------------------------------------------------
(* What every step of an attempt has to show.                              *)

\* A place is taken, given back, or neither; or the counter starts again.
Accounts(q, r) ==
  \/ spoiled'
  \/ Counted = {} /\ ~Has(r) /\ count' >= 0
  \/ (Has(r) => Has(q)) /\ (r.held => q.held) /\ count' >= count
  \/ Has(q) /\ ~Has(r) /\ count' >= count - 1
  \/ count' >= count + 1 /\ (r.held => q.held \/ count + 1 <= MaxConcurrency)

\* The index is written by who speaks for the target, or by who is in it; the
\* target by who speaks for it and has not seen the end of its record.
Indexes(a, r) ==
  /\ \A u \in Targets :
       token'[u] = token[u] \/ (u = at[a].target /\ (Speaks(at[a]) \/ token[u] = a))
  /\ Tied(r) => token'[r.target] = a

Writes(a, r) ==
  /\ \A u \in Targets :
       target'[u] = target[u]
         \/ (u = at[a].target /\ Speaks(at[a]) /\ Current(at[a]))
  /\ Holds(r) => target'[r.target] \in {"calling", "deleted"}
  /\ r.target \notin swept =>
       /\ Current(r) => target'[r.target] \in {"calling", "deleted"}
       /\ IsPlaced(r) => IsOpen(r)
       /\ r.rec = "ended_answered" => target'[r.target] = "completed"

\* The variables that are not the attempts' keep their types.
RestTyped ==
  /\ task' \in TaskStates
  /\ target' \in [Targets -> TargetStates]
  /\ token' \in [Targets -> Attempts \cup {NoAttempt}]
  /\ count' \in Int
  /\ scan' \in BOOLEAN /\ pausing' \in BOOLEAN
  /\ spoiled' \in BOOLEAN /\ (spoiled => spoiled')

\* The places given and the places counted are finitely many, the former among the latter.
LEMMA HeldIsCounted ==
  ASSUME TypeOK, AllSound
  PROVE  /\ Counted = {a \in Attempts : Has(at[a])}
         /\ Held \subseteq Counted
         /\ IsFiniteSet(Counted) /\ IsFiniteSet(Held)
         /\ Cardinality(Held) <= Cardinality(Counted)
         /\ Cardinality(Counted) \in Nat /\ Cardinality(Held) \in Nat
<1>1. Counted = {a \in Attempts : Has(at[a])} /\ Held \subseteq Counted /\ Counted \subseteq Attempts
  BY DEF Counted, Has, Held
<1>2. IsFiniteSet(Counted) /\ IsFiniteSet(Held)
  BY <1>1, AttemptsAssumption, FS_Subset
<1> QED BY <1>1, <1>2, FS_Subset, FS_CardinalityType

\* A step of one attempt that accounts for its place keeps the ledger.
LEMMA LedgerStep ==
  ASSUME IInv, NEW a \in Attempts, NEW r \in AttemptType,
         at' = [at EXCEPT ![a] = r], Accounts(at[a], r), RestTyped
  PROVE  Ledger'
<1> DEFINE Of1 == {b \in Attempts : Has(at[b])}
           Of2 == {b \in Attempts : Has(at'[b])}
           Held2 == {b \in Attempts : at'[b].held}
<1>1. /\ at'[a] = r /\ \A b \in Attempts \ {a} : at'[b] = at[b]
      /\ at[a] \in AttemptType
  BY DEF IInv, TypeOK
<1>2. /\ Of1 = Counted /\ IsFiniteSet(Of1) /\ IsFiniteSet(Held)
      /\ Cardinality(Held) <= Cardinality(Of1)
      /\ Cardinality(Of1) \in Nat /\ Cardinality(Held) \in Nat
  BY HeldIsCounted DEF IInv
<1>3. count \in Int /\ count' \in Int /\ MaxConcurrency \in Nat
  BY MaxConcurrencyAssumption DEF IInv, TypeOK, RestTyped
<1>4. SUFFICES ASSUME ~spoiled'
               PROVE  Cardinality(Of2) <= count' /\ Cardinality(Held2) <= MaxConcurrency
  BY DEF Ledger, Held
<1>5. Cardinality(Of1) <= count /\ Cardinality(Held) <= MaxConcurrency
  BY <1>4 DEF IInv, Ledger, RestTyped
<1>6. /\ IsFiniteSet(Of1 \cup {a}) /\ Cardinality(Of1 \cup {a}) <= Cardinality(Of1) + 1
      /\ IsFiniteSet(Held \cup {a}) /\ Cardinality(Held \cup {a}) <= Cardinality(Held) + 1
      /\ Cardinality(Of1 \cup {a}) \in Nat /\ Cardinality(Held \cup {a}) \in Nat
  <2> SUFFICES ASSUME NEW S, IsFiniteSet(S), Cardinality(S) \in Nat
               PROVE  /\ IsFiniteSet(S \cup {a}) /\ Cardinality(S \cup {a}) <= Cardinality(S) + 1
                      /\ Cardinality(S \cup {a}) \in Nat
    BY <1>2
  <2>1. /\ IsFiniteSet(S \cup {a})
        /\ \/ Cardinality(S \cup {a}) = Cardinality(S)
           \/ Cardinality(S \cup {a}) = Cardinality(S) + 1
    <3>1. CASE a \in S
      BY <3>1, S \cup {a} = S
    <3>2. CASE a \notin S
      BY <3>2, FS_AddElement
    <3> QED BY <3>1, <3>2
  <2> QED BY <2>1
<1>0. CASE Counted = {} /\ ~Has(r) /\ count' >= 0
  <2>1. Of2 = {} /\ Held2 = {}
    BY <1>0, <1>1, <1>2 DEF Has
  <2>2. Cardinality(Of2) = 0 /\ Cardinality(Held2) = 0
    BY <2>1, FS_EmptySet
  <2> HIDE DEF Of2, Held2
  <2> QED BY <2>2, <1>0, <1>3
<1>7. CASE (Has(r) => Has(at[a])) /\ (r.held => at[a].held) /\ count' >= count
  <2>1. Of2 \subseteq Of1 /\ Held2 \subseteq Held
    BY <1>1, <1>7 DEF Held
  <2>2. Cardinality(Of2) <= Cardinality(Of1) /\ Cardinality(Held2) <= Cardinality(Held)
        /\ Cardinality(Of2) \in Nat /\ Cardinality(Held2) \in Nat
    BY <2>1, <1>2, FS_Subset, FS_CardinalityType
  <2> QED BY <2>2, <1>2, <1>3, <1>5, <1>7
<1>8. CASE Has(at[a]) /\ ~Has(r) /\ count' >= count - 1
  <2>1. Of2 = Of1 \ {a} /\ Held2 \subseteq Held /\ a \in Of1
    BY <1>1, <1>8 DEF Held, Has
  <2>2. Cardinality(Of2) = Cardinality(Of1) - 1 /\ Cardinality(Held2) <= Cardinality(Held)
        /\ Cardinality(Held2) \in Nat
    BY <2>1, <1>2, FS_RemoveElement, FS_Subset, FS_CardinalityType
  <2> QED BY <2>2, <1>2, <1>3, <1>5, <1>8
<1>9. CASE count' >= count + 1 /\ (r.held => at[a].held \/ count + 1 <= MaxConcurrency)
  <2>1. Of2 \subseteq Of1 \cup {a} /\ Held2 \subseteq Held \cup {a}
        /\ ((~r.held \/ at[a].held) => Held2 \subseteq Held)
    BY <1>1 DEF Held
  <2>2. /\ Cardinality(Of2) <= Cardinality(Of1 \cup {a})
        /\ Cardinality(Held2) <= Cardinality(Held \cup {a})
        /\ ((~r.held \/ at[a].held) => Cardinality(Held2) <= Cardinality(Held))
        /\ Cardinality(Of2) \in Nat /\ Cardinality(Held2) \in Nat
    BY <2>1, <1>2, <1>6, FS_Subset, FS_CardinalityType
  <2> QED BY <2>2, <1>2, <1>3, <1>5, <1>6, <1>9
<1> QED BY <1>0, <1>4, <1>7, <1>8, <1>9 DEF Accounts

\* A step of one attempt that meets those conditions keeps the invariant.
LEMMA AttemptStep ==
  ASSUME IInv, NEW a \in Attempts, NEW r \in AttemptType,
         at' = [at EXCEPT ![a] = r], Sound(r), RestTyped, swept' = swept,
         r.target \in {at[a].target, NoTarget},
         Speaks(r) => Speaks(at[a]), Current(r) => Current(at[a]),
         Accounts(at[a], r), Indexes(a, r), Writes(a, r)
  PROVE  IInv'
<1>1. /\ at'[a] = r /\ \A b \in Attempts \ {a} : at'[b] = at[b]
      /\ at' \in [Attempts -> AttemptType]
      /\ at[a] \in AttemptType
  BY DEF IInv, TypeOK
<1>2. TypeOK'
  BY <1>1 DEF IInv, TypeOK, RestTyped
<1>3. AllSound'
  <2> SUFFICES ASSUME NEW b \in Attempts PROVE Sound(at'[b])
    BY DEF AllSound, Sound, IsOpen, IsPlaced, Busy
  <2> QED BY <1>1 DEF IInv, AllSound
<1>4. Ledger'
  BY LedgerStep
<1>5. \A b \in Attempts :
        /\ at[b].pc = "unused" <=> at[b].target = NoTarget
        /\ at[b].target \in Targets \cup {NoTarget}
        /\ at[b].target = NoTarget => ~Speaks(at[b]) /\ ~Current(at[b]) /\ ~Holds(at[b])
  <2> SUFFICES ASSUME NEW b \in Attempts
               PROVE  /\ at[b].pc = "unused" <=> at[b].target = NoTarget
                      /\ at[b].target \in Targets \cup {NoTarget}
                      /\ at[b].target = NoTarget =>
                           ~Speaks(at[b]) /\ ~Current(at[b]) /\ ~Holds(at[b])
    OBVIOUS
  <2>1. Sound(at[b]) /\ at[b] \in AttemptType
    BY DEF IInv, AllSound, TypeOK
  <2> QED BY <2>1 DEF Sound, AttemptType, Speaks, Busy, Tied, IsOpen, IsPlaced, Current, Holds, Early
<1>6. /\ r.target = NoTarget => ~Speaks(r) /\ ~Current(r) /\ ~Holds(r)
      /\ Holds(r) => Speaks(r)
  BY DEF Sound, AttemptType, Speaks, Busy, Tied, IsOpen, IsPlaced, Current, Holds, Early
<1>7. \A b \in Attempts : Holds(at[b]) => Speaks(at[b])
  BY DEF Speaks, Busy, Holds, Early
<1>8. \A b \in Attempts : Tied(at[b]) => Holds(at[b])
  BY DEF Holds
<1>9. Sole'
  <2> SUFFICES ASSUME NEW b \in Attempts, NEW c \in Attempts,
                      at'[b].target = at'[c].target, Speaks(at'[b]), Speaks(at'[c])
               PROVE  b = c
    BY DEF Sole, Speaks, Busy, Tied, IsOpen, IsPlaced
  <2>1. Speaks(at[b]) /\ Speaks(at[c]) /\ at[b].target = at[c].target
    BY <1>1, <1>5, <1>6
  <2> QED BY <2>1 DEF IInv, Sole
<1>10. Known'
  <2> SUFFICES ASSUME NEW b \in Attempts
               PROVE  /\ Tied(at'[b]) => token'[at'[b].target] = b
                      /\ Holds(at'[b]) => target'[at'[b].target] \in {"calling", "deleted"}
    BY DEF Known, Tied, Holds, IsOpen, IsPlaced
  <2>1. CASE b = a
    BY <1>1, <2>1 DEF Indexes, Writes
  <2>2. CASE b # a
    <3>1. /\ at'[b] = at[b]
          /\ Tied(at[b]) => token[at[b].target] = b
          /\ Holds(at[b]) => target[at[b].target] \in {"calling", "deleted"} /\ at[b].target \in Targets
      BY <1>1, <1>5, <2>2 DEF IInv, Known
    <3>2. Holds(at[b]) /\ at[b].target = at[a].target => ~Speaks(at[a])
      BY <1>7, <2>2 DEF IInv, Sole
    <3> QED BY <3>1, <3>2, <1>8, <2>2 DEF Indexes, Writes
  <2> QED BY <2>1, <2>2
<1>11. Settled'
  <2> SUFFICES ASSUME NEW b \in Attempts, at'[b].target \notin swept
               PROVE  /\ Current(at'[b]) => target'[at'[b].target] \in {"calling", "deleted"}
                      /\ IsPlaced(at'[b]) => IsOpen(at'[b])
                      /\ at'[b].rec = "ended_answered" => target'[at'[b].target] = "completed"
                      /\ \A c \in Attempts :
                           at'[b].target = at'[c].target /\ Current(at'[b]) /\ Current(at'[c]) => b = c
    BY DEF Settled, Current, IsOpen, IsPlaced
  <2>1. \A c \in Attempts :
          at'[b].target = at'[c].target /\ Current(at'[b]) /\ Current(at'[c]) => b = c
    <3> SUFFICES ASSUME NEW c \in Attempts, at'[b].target = at'[c].target,
                        Current(at'[b]), Current(at'[c])
                 PROVE  b = c
      OBVIOUS
    <3>1. /\ Current(at[b]) /\ Current(at[c]) /\ at[b].target = at[c].target
          /\ at[b].target \notin swept
      BY <1>1, <1>5, <1>6
    <3> QED BY <3>1 DEF IInv, Settled
  <2>2. CASE b = a
    BY <1>1, <2>1, <2>2 DEF Writes
  <2>3. CASE b # a
    <3>1. /\ at'[b] = at[b] /\ at[b].target \notin swept
          /\ Current(at[b]) => target[at[b].target] \in {"calling", "deleted"}
          /\ IsPlaced(at[b]) => IsOpen(at[b])
          /\ at[b].rec = "ended_answered" => target[at[b].target] = "completed"
      BY <1>1, <2>3 DEF IInv, Settled
    <3>2. Current(at[b]) \/ at[b].rec = "ended_answered" => at[b].target \in Targets
      <4>1. Sound(at[b])
        BY DEF IInv, AllSound
      <4> QED BY <4>1, <1>5 DEF Sound, Early
    <3>3. Current(at[b]) /\ at[b].target = at[a].target => ~Current(at[a])
      BY <3>1, <2>3 DEF IInv, Settled
    <3>4. at[b].rec = "ended_answered" /\ at[b].target = at[a].target => ~Current(at[a])
      BY <3>1 DEF IInv, Settled
    <3> QED BY <2>1, <3>1, <3>2, <3>3, <3>4 DEF Writes
  <2> QED BY <2>2, <2>3
<1> QED BY <1>2, <1>3, <1>4, <1>9, <1>10, <1>11 DEF IInv

\* What a step that concerns neither target nor index has to show.
Follows(q, r) ==
  /\ r.target = q.target
  /\ Speaks(r) => Speaks(q)
  /\ Tied(r) => Tied(q)
  /\ Holds(r) => Holds(q)
  /\ Current(r) => Current(q)
  /\ IsPlaced(r) => IsPlaced(q) /\ (IsOpen(q) => IsOpen(r))
  /\ r.rec = "ended_answered" => q.rec = "ended_answered"

\* A step of one attempt that leaves target and index alone keeps the invariant.
LEMMA LocalStep ==
  ASSUME IInv, NEW a \in Attempts, NEW r \in AttemptType,
         at' = [at EXCEPT ![a] = r], Sound(r), Follows(at[a], r), Accounts(at[a], r),
         UNCHANGED <<target, token, swept>>,
         task' \in TaskStates, count' \in Int, scan' \in BOOLEAN, pausing' \in BOOLEAN,
         spoiled' \in BOOLEAN, spoiled => spoiled'
  PROVE  IInv'
<1>1. RestTyped
  BY DEF RestTyped, IInv, TypeOK
<1>2. Indexes(a, r)
  BY DEF Indexes, Follows, IInv, Known
<1>3. Writes(a, r)
  BY DEF Writes, Follows, IInv, Known, Settled
<1> QED BY <1>1, <1>2, <1>3, AttemptStep DEF Follows

-----------------------------------------------------------------------------
(* The coroutine of an attempt.                                            *)

\* What the invariant says of one attempt, and the types the steps need.
LEMMA AttemptIsSound ==
  ASSUME IInv, NEW a \in Attempts
  PROVE  /\ at[a] \in AttemptType /\ Sound(at[a])
         /\ task \in TaskStates /\ count \in Int /\ scan \in BOOLEAN /\ pausing \in BOOLEAN
         /\ spoiled \in BOOLEAN
BY DEF IInv, TypeOK, AllSound

\* The coroutine's steps on its own attempt and the counter, and its death.
LEMMA DialLocal ==
  ASSUME IInv, NEW a \in Attempts,
         \/ SeesInactive(a) \/ Acquire(a) \/ StepBack(a) \/ Refuse(a) \/ CreateRecord(a)
         \/ GetReply(a) \/ GetRefusal(a) \/ LoseReply(a) \/ Reconcile(a) \/ ReleaseRefused(a)
         \/ CountFailure(a) \/ AutoPause(a) \/ Reset(a) \/ DialDies(a)
  PROVE  IInv'
<1> DEFINE q == at[a]
<1>0. /\ q \in AttemptType /\ Sound(q)
      /\ task \in TaskStates /\ count \in Int /\ scan \in BOOLEAN /\ pausing \in BOOLEAN
      /\ spoiled \in BOOLEAN
  BY AttemptIsSound
<1>s. ASSUME NEW r \in AttemptType, at' = [at EXCEPT ![a] = r], Sound(r), Follows(q, r),
             Accounts(q, r), UNCHANGED <<target, token, scan, pausing, swept>>,
             task' \in TaskStates, count' \in Int, spoiled' \in BOOLEAN, spoiled => spoiled'
      PROVE  IInv'
  BY <1>0, <1>s, LocalStep
\* A step that moves the counter of the coroutine only.
<1>m. ASSUME NEW to \in Coroutine, at' = [at EXCEPT ![a] = [q EXCEPT !.pc = to]],
             Sound([q EXCEPT !.pc = to]), Follows(q, [q EXCEPT !.pc = to]),
             to # "over", UNCHANGED <<target, token, count, scan, pausing, swept, spoiled>>,
             task' \in TaskStates
      PROVE  IInv'
  <2> DEFINE r == [q EXCEPT !.pc = to]
  <2>1. r \in AttemptType /\ r.held = q.held /\ r.pc = to
    BY <1>0 DEF AttemptType
  <2>2. Accounts(q, r)
    BY <2>1, <1>0, <1>m DEF Accounts, Has
  <2> QED BY <2>1, <2>2, <1>0, <1>m, <1>s
<1> USE <1>0
<1> USE DEF Sound, Follows, Speaks, Busy, Tied, Holds, Current, IsOpen, IsPlaced, Early
<1> HIDE DEF q
<1>1. CASE SeesInactive(a)
  <2>1. q.pc = "claimed" /\ at' = [at EXCEPT ![a] = [q EXCEPT !.pc = "restoring"]]
        /\ UNCHANGED <<task, target, token, count, scan, pausing, swept, spoiled>>
    BY <1>1 DEF SeesInactive, Step, Becomes, q
  <2>2. Sound([q EXCEPT !.pc = "restoring"]) /\ Follows(q, [q EXCEPT !.pc = "restoring"])
    BY <2>1 DEF AttemptType
  <2> QED BY <2>1, <2>2, <1>m DEF Coroutine
<1>2. CASE Acquire(a) /\ count + 1 > MaxConcurrency
  <2> DEFINE r == [q EXCEPT !.pc = "over"]
  <2>1. /\ q.pc = "claimed" /\ count + 1 > MaxConcurrency /\ at' = [at EXCEPT ![a] = r] /\ count' = count + 1
        /\ UNCHANGED <<task, target, token, scan, pausing, swept, spoiled>>
    BY <1>2 DEF Acquire, Step, Becomes, q
  <2>2. r \in AttemptType /\ Sound(r) /\ Follows(q, r)
    BY <2>1 DEF AttemptType, Coroutine, Records, Calls
  <2>3. Accounts(q, r)
    BY <2>1 DEF AttemptType, Accounts, Has, Released
  <2>4. count' \in Int
    BY <2>1 DEF Released
  <2> QED BY <2>1, <2>2, <2>3, <2>4, <1>s
<1>3. CASE Acquire(a) /\ ~(count + 1 > MaxConcurrency)
  <2> DEFINE r == [q EXCEPT !.pc = "acquired", !.held = TRUE]
  <2>1. /\ q.pc = "claimed" /\ ~(count + 1 > MaxConcurrency) /\ at' = [at EXCEPT ![a] = r] /\ count' = count + 1
        /\ UNCHANGED <<task, target, token, scan, pausing, swept, spoiled>>
    BY <1>3 DEF Acquire, Step, Becomes, q
  <2>2. r \in AttemptType /\ Sound(r) /\ Follows(q, r)
    BY <2>1 DEF AttemptType, Coroutine, Records, Calls
  <2>3. Accounts(q, r)
    BY <2>1, MaxConcurrencyAssumption DEF AttemptType, Accounts, Has, Released
  <2>4. count' \in Int
    BY <2>1 DEF Released
  <2> QED BY <2>1, <2>2, <2>3, <2>4, <1>s
<1>4. CASE StepBack(a)
  <2> DEFINE r == [q EXCEPT !.pc = "restoring"]
  <2>1. /\ q.pc = "over" /\ at' = [at EXCEPT ![a] = r] /\ count' = count - 1
        /\ UNCHANGED <<task, target, token, scan, pausing, swept, spoiled>>
    BY <1>4 DEF StepBack, Step, Becomes, q
  <2>2. r \in AttemptType /\ Sound(r) /\ Follows(q, r)
    BY <2>1 DEF AttemptType, Coroutine, Records, Calls
  <2>3. Accounts(q, r)
    BY <2>1 DEF AttemptType, Accounts, Has, Released
  <2>4. count' \in Int
    BY <2>1 DEF Released
  <2> QED BY <2>1, <2>2, <2>3, <2>4, <1>s
<1>5. CASE Refuse(a)
  <2>1. PICK to \in {"restoring", "deferring"} :
          /\ q.pc = "acquired" /\ at' = [at EXCEPT ![a] = [q EXCEPT !.pc = to, !.held = FALSE]]
          /\ count' = Released
          /\ UNCHANGED <<task, target, token, scan, pausing, swept, spoiled>>
    BY <1>5 DEF Refuse, Becomes, q
  <2> DEFINE r == [q EXCEPT !.pc = to, !.held = FALSE]
  <2>2. r \in AttemptType /\ Sound(r) /\ Follows(q, r)
    BY <2>1 DEF AttemptType, Coroutine
  <2>3. Accounts(q, r)
    BY <2>1 DEF AttemptType, Accounts, Has, Released
  <2>4. count' \in Int
    BY <2>1 DEF Released
  <2> QED BY <2>1, <2>2, <2>3, <2>4, <1>s
<1>6. CASE CreateRecord(a)
  <2> DEFINE r == [q EXCEPT !.pc = "recorded", !.rec = "open"]
  <2>1. /\ q.pc = "acquired" /\ at' = [at EXCEPT ![a] = r] /\ count' = count
        /\ UNCHANGED <<task, target, token, scan, pausing, swept, spoiled>>
    BY <1>6 DEF CreateRecord, Step, Becomes, q
  <2>2. r \in AttemptType /\ Sound(r) /\ Follows(q, r)
    BY <2>1 DEF AttemptType, Coroutine, Records, Calls
  <2>3. Accounts(q, r)
    BY <2>1 DEF AttemptType, Accounts, Has, Released
  <2>4. count' \in Int
    BY <2>1 DEF Released
  <2> QED BY <2>1, <2>2, <2>3, <2>4, <1>s
<1>7. CASE GetReply(a)
  <2>1. q.pc = "asking" /\ q.call \notin {"asked", "void"} /\ at' = [at EXCEPT ![a] = [q EXCEPT !.pc = "replied"]]
        /\ UNCHANGED <<task, target, token, count, scan, pausing, swept, spoiled>>
    BY <1>7 DEF GetReply, Step, Becomes, q
  <2>2. Sound([q EXCEPT !.pc = "replied"]) /\ Follows(q, [q EXCEPT !.pc = "replied"])
    BY <2>1 DEF AttemptType
  <2> QED BY <2>1, <2>2, <1>m DEF Coroutine
<1>8. CASE GetRefusal(a)
  <2> DEFINE r == [q EXCEPT !.pc = "refused", !.call = "void"]
  <2>1. /\ q.pc = "asking" /\ q.call = "asked" /\ at' = [at EXCEPT ![a] = r] /\ count' = count
        /\ UNCHANGED <<task, target, token, scan, pausing, swept, spoiled>>
    BY <1>8 DEF GetRefusal, Step, Becomes, q
  <2>2. r \in AttemptType /\ Sound(r) /\ Follows(q, r)
    BY <2>1 DEF AttemptType, Coroutine, Records, Calls
  <2>3. Accounts(q, r)
    BY <2>1 DEF AttemptType, Accounts, Has, Released
  <2>4. count' \in Int
    BY <2>1 DEF Released
  <2> QED BY <2>1, <2>2, <2>3, <2>4, <1>s
<1>9. CASE LoseReply(a)
  <2>1. q.pc = "asking" /\ at' = [at EXCEPT ![a] = [q EXCEPT !.pc = "reconciling"]]
        /\ UNCHANGED <<task, target, token, count, scan, pausing, swept, spoiled>>
    BY <1>9 DEF LoseReply, Step, Becomes, q
  <2>2. Sound([q EXCEPT !.pc = "reconciling"]) /\ Follows(q, [q EXCEPT !.pc = "reconciling"])
    BY <2>1 DEF AttemptType
  <2> QED BY <2>1, <2>2, <1>m DEF Coroutine
<1>10. CASE Reconcile(a) /\ Live(a) /\ Step(a, "reconciling", "replied")
  <2>1. q.pc = "reconciling" /\ q.call \in {"ringing", "talking"} /\ at' = [at EXCEPT ![a] = [q EXCEPT !.pc = "replied"]]
        /\ UNCHANGED <<task, target, token, count, scan, pausing, swept, spoiled>>
    BY <1>10 DEF Reconcile, Step, Becomes, q, Live
  <2>2. Sound([q EXCEPT !.pc = "replied"]) /\ Follows(q, [q EXCEPT !.pc = "replied"])
    BY <2>1 DEF AttemptType
  <2> QED BY <2>1, <2>2, <1>m DEF Coroutine
<1>11. CASE Reconcile(a) /\ Step(a, "reconciling", "done")
  <2>1. q.pc = "reconciling" /\ at' = [at EXCEPT ![a] = [q EXCEPT !.pc = "done"]]
        /\ UNCHANGED <<task, target, token, count, scan, pausing, swept, spoiled>>
    BY <1>11 DEF Reconcile, Step, Becomes, q
  <2>2. Sound([q EXCEPT !.pc = "done"]) /\ Follows(q, [q EXCEPT !.pc = "done"])
    BY <2>1 DEF AttemptType
  <2> QED BY <2>1, <2>2, <1>m DEF Coroutine
<1>12. CASE ReleaseRefused(a)
  <2> DEFINE r == [q EXCEPT !.pc = "finalising", !.held = FALSE]
  <2>1. /\ q.pc = "refused" /\ at' = [at EXCEPT ![a] = r] /\ count' = Released
        /\ UNCHANGED <<task, target, token, scan, pausing, swept, spoiled>>
    BY <1>12 DEF ReleaseRefused, Step, Becomes, q
  <2>2. r \in AttemptType /\ Sound(r) /\ Follows(q, r)
    BY <2>1 DEF AttemptType, Coroutine, Records, Calls
  <2>3. Accounts(q, r)
    BY <2>1 DEF AttemptType, Accounts, Has, Released
  <2>4. count' \in Int
    BY <2>1 DEF Released
  <2> QED BY <2>1, <2>2, <2>3, <2>4, <1>s
<1>13. CASE CountFailure(a) /\ Step(a, "counting", "stopping")
  <2>1. q.pc = "counting" /\ at' = [at EXCEPT ![a] = [q EXCEPT !.pc = "stopping"]]
        /\ UNCHANGED <<task, target, token, count, scan, pausing, swept, spoiled>>
    BY <1>13 DEF CountFailure, Step, Becomes, q
  <2>2. Sound([q EXCEPT !.pc = "stopping"]) /\ Follows(q, [q EXCEPT !.pc = "stopping"])
    BY <2>1 DEF AttemptType
  <2> QED BY <2>1, <2>2, <1>m DEF Coroutine
<1>14. CASE CountFailure(a) /\ Step(a, "counting", "done")
  <2>1. q.pc = "counting" /\ at' = [at EXCEPT ![a] = [q EXCEPT !.pc = "done"]]
        /\ UNCHANGED <<task, target, token, count, scan, pausing, swept, spoiled>>
    BY <1>14 DEF CountFailure, Step, Becomes, q
  <2>2. Sound([q EXCEPT !.pc = "done"]) /\ Follows(q, [q EXCEPT !.pc = "done"])
    BY <2>1 DEF AttemptType
  <2> QED BY <2>1, <2>2, <1>m DEF Coroutine
<1>15. CASE AutoPause(a) /\ task = "active"
  <2>1. q.pc = "stopping" /\ task' \in TaskStates /\ at' = [at EXCEPT ![a] = [q EXCEPT !.pc = "resetting"]]
        /\ UNCHANGED <<target, token, count, scan, pausing, swept, spoiled>>
    BY <1>15 DEF AutoPause, Step, Becomes, q, TaskStates
  <2>2. Sound([q EXCEPT !.pc = "resetting"]) /\ Follows(q, [q EXCEPT !.pc = "resetting"])
    BY <2>1 DEF AttemptType
  <2> QED BY <2>1, <2>2, <1>m DEF Coroutine
<1>16. CASE AutoPause(a) /\ task # "active"
  <2>1. q.pc = "stopping" /\ task' = task /\ at' = [at EXCEPT ![a] = [q EXCEPT !.pc = "done"]]
        /\ UNCHANGED <<target, token, count, scan, pausing, swept, spoiled>>
    BY <1>16 DEF AutoPause, Step, Becomes, q
  <2>2. Sound([q EXCEPT !.pc = "done"]) /\ Follows(q, [q EXCEPT !.pc = "done"])
    BY <2>1 DEF AttemptType
  <2> QED BY <2>1, <2>2, <1>m DEF Coroutine
<1>17. CASE Reset(a)
  <2> DEFINE r == [q EXCEPT !.pc = "done"]
  <2>1. /\ q.pc = "resetting" /\ at' = [at EXCEPT ![a] = r]
        /\ count' = 0 /\ spoiled' = (spoiled \/ Counted # {})
        /\ UNCHANGED <<task, target, token, scan, pausing, swept>>
    BY <1>17 DEF Reset, DropCounter, Step, Becomes, q
  <2>2. r \in AttemptType /\ Sound(r) /\ Follows(q, r)
    BY <2>1 DEF AttemptType, Coroutine
  <2>3. spoiled' \in BOOLEAN /\ (spoiled => spoiled') /\ (Counted # {} => spoiled')
    BY <2>1
  <2>4. Counted = {} => ~Has(r)
    BY DEF Counted, Has, q
  <2>5. count' \in Int /\ count' >= 0
    BY <2>1
  <2>6. Accounts(q, r)
    BY ONLY <2>3, <2>4, <2>5 DEF Accounts
  <2>7. task' \in TaskStates
    BY <2>1
  <2> HIDE DEF r
  <2> QED BY <2>1, <2>2, <2>3, <2>5, <2>6, <2>7, <1>s
<1>18. CASE DialDies(a)
  <2>1. q.pc \notin {"unused", "done"} /\ at' = [at EXCEPT ![a] = [q EXCEPT !.pc = "done"]]
        /\ UNCHANGED <<task, target, token, count, scan, pausing, swept, spoiled>>
    BY <1>18 DEF DialDies, Step, Becomes, q, Dialing
  <2>2. Sound([q EXCEPT !.pc = "done"]) /\ Follows(q, [q EXCEPT !.pc = "done"])
    BY <2>1 DEF AttemptType
  <2> QED BY <2>1, <2>2, <1>m DEF Coroutine
<1> QED
  BY ONLY <1>1, <1>2, <1>3, <1>4, <1>5, <1>6, <1>7, <1>8, <1>9, <1>10, <1>11, <1>12, <1>13, <1>14,
     <1>15, <1>16, <1>17, <1>18,
     \/ SeesInactive(a) \/ Acquire(a) \/ StepBack(a) \/ Refuse(a) \/ CreateRecord(a)
     \/ GetReply(a) \/ GetRefusal(a) \/ LoseReply(a) \/ Reconcile(a) \/ ReleaseRefused(a)
     \/ CountFailure(a) \/ AutoPause(a) \/ Reset(a) \/ DialDies(a)
     DEF Reconcile, CountFailure

-----------------------------------------------------------------------------
(* The kernel, and what a handler does to its own attempt only.            *)

\* What the kernel does to a call, and the handlers' steps on attempt and counter.
LEMMA HeardLocal ==
  ASSUME IInv, NEW a \in Attempts,
         \/ KernelNext(a) \/ HearNext(a) \/ AnswerMarks(a) \/ EndReleases(a) \/ HandlerDies(a)
         \/ (EndFinalises(a) /\ ~HasOpenRecord(a))
  PROVE  IInv'
<1> DEFINE q == at[a]
<1>0. /\ q \in AttemptType /\ Sound(q)
      /\ task \in TaskStates /\ count \in Int /\ scan \in BOOLEAN /\ pausing \in BOOLEAN
      /\ spoiled \in BOOLEAN
  BY AttemptIsSound
<1>s. ASSUME NEW r \in AttemptType, at' = [at EXCEPT ![a] = r], Sound(r), Follows(q, r),
             Accounts(q, r), count' \in Int,
             UNCHANGED <<task, target, token, scan, pausing, swept, spoiled>>
      PROVE  IInv'
  BY <1>0, <1>s, LocalStep
<1> USE <1>0
<1> USE DEF Sound, Follows, Speaks, Busy, Tied, Holds, Current, IsOpen, IsPlaced, Early
<1> HIDE DEF q
<1>1. CASE KernelStarts(a)
  <2> DEFINE r == [q EXCEPT !.call = "ringing"]
  <2>1. /\ q.call = "asked"
        /\ at' = [at EXCEPT ![a] = r] /\ count' = count
        /\ UNCHANGED <<task, target, token, scan, pausing, swept, spoiled>>
    BY <1>1 DEF KernelStarts, Becomes, q, CallBecomes
  <2>2. r \in AttemptType /\ Sound(r) /\ Follows(q, r)
    BY <2>1 DEF AttemptType, Records, Calls
  <2>3. Accounts(q, r) /\ count' \in Int
    BY <2>1 DEF AttemptType, Accounts, Has
  <2> HIDE DEF r
  <2> QED BY <2>1, <2>2, <2>3, <1>s
<1>2. CASE KernelLoses(a)
  <2> DEFINE r == [q EXCEPT !.call = "void"]
  <2>1. /\ q.call = "asked" /\ q.pc # "asking"
        /\ at' = [at EXCEPT ![a] = r] /\ count' = count
        /\ UNCHANGED <<task, target, token, scan, pausing, swept, spoiled>>
    BY <1>2 DEF KernelLoses, Becomes, q, CallBecomes
  <2>2. r \in AttemptType /\ Sound(r) /\ Follows(q, r)
    BY <2>1 DEF AttemptType, Records, Calls
  <2>3. Accounts(q, r) /\ count' \in Int
    BY <2>1 DEF AttemptType, Accounts, Has
  <2> HIDE DEF r
  <2> QED BY <2>1, <2>2, <2>3, <1>s
<1>3. CASE CallAnswered(a)
  <2> DEFINE r == [q EXCEPT !.call = "talking"]
  <2>1. /\ q.call = "ringing"
        /\ at' = [at EXCEPT ![a] = r] /\ count' = count
        /\ UNCHANGED <<task, target, token, scan, pausing, swept, spoiled>>
    BY <1>3 DEF CallAnswered, Becomes, q, CallBecomes
  <2>2. r \in AttemptType /\ Sound(r) /\ Follows(q, r)
    BY <2>1 DEF AttemptType, Records, Calls
  <2>3. Accounts(q, r) /\ count' \in Int
    BY <2>1 DEF AttemptType, Accounts, Has
  <2> HIDE DEF r
  <2> QED BY <2>1, <2>2, <2>3, <1>s
<1>4. CASE CallBecomes(a, "ringing", "missed")
  <2> DEFINE r == [q EXCEPT !.call = "missed"]
  <2>1. /\ q.call = "ringing"
        /\ at' = [at EXCEPT ![a] = r] /\ count' = count
        /\ UNCHANGED <<task, target, token, scan, pausing, swept, spoiled>>
    BY <1>4 DEF CallEnds, Becomes, q, CallBecomes
  <2>2. r \in AttemptType /\ Sound(r) /\ Follows(q, r)
    BY <2>1 DEF AttemptType, Records, Calls
  <2>3. Accounts(q, r) /\ count' \in Int
    BY <2>1 DEF AttemptType, Accounts, Has
  <2> HIDE DEF r
  <2> QED BY <2>1, <2>2, <2>3, <1>s
<1>5. CASE CallBecomes(a, "talking", "hung_up")
  <2> DEFINE r == [q EXCEPT !.call = "hung_up"]
  <2>1. /\ q.call = "talking"
        /\ at' = [at EXCEPT ![a] = r] /\ count' = count
        /\ UNCHANGED <<task, target, token, scan, pausing, swept, spoiled>>
    BY <1>5 DEF CallEnds, Becomes, q, CallBecomes
  <2>2. r \in AttemptType /\ Sound(r) /\ Follows(q, r)
    BY <2>1 DEF AttemptType, Records, Calls
  <2>3. Accounts(q, r) /\ count' \in Int
    BY <2>1 DEF AttemptType, Accounts, Has
  <2> HIDE DEF r
  <2> QED BY <2>1, <2>2, <2>3, <1>s
<1>6. CASE BindReads(a)
  <2> DEFINE r == [q EXCEPT !.bind = TRUE]
  <2>1. /\ q.call \in {"talking", "missed", "hung_up"} /\ q.sess = "attempt"
        /\ at' = [at EXCEPT ![a] = r] /\ count' = count
        /\ UNCHANGED <<task, target, token, scan, pausing, swept, spoiled>>
    BY <1>6 DEF BindReads, Becomes, q, Over, Unmoved
  <2>2. r \in AttemptType /\ Sound(r) /\ Follows(q, r)
    BY <2>1 DEF AttemptType, Records, Calls
  <2>3. Accounts(q, r) /\ count' \in Int
    BY <2>1 DEF AttemptType, Accounts, Has
  <2> HIDE DEF r
  <2> QED BY <2>1, <2>2, <2>3, <1>s
<1>7. CASE AnswerLoads(a)
  <2> DEFINE r == [q EXCEPT !.ans = "loaded"]
  <2>1. /\ q.call \in {"talking", "hung_up"} /\ q.sess = "call" /\ q.rec = "open"
        /\ at' = [at EXCEPT ![a] = r] /\ count' = count
        /\ UNCHANGED <<task, target, token, scan, pausing, swept, spoiled>>
    BY <1>7 DEF AnswerLoads, Becomes, q, Unmoved
  <2>2. r \in AttemptType /\ Sound(r) /\ Follows(q, r)
    BY <2>1 DEF AttemptType, Records, Calls
  <2>3. Accounts(q, r) /\ count' \in Int
    BY <2>1 DEF AttemptType, Accounts, Has
  <2> HIDE DEF r
  <2> QED BY <2>1, <2>2, <2>3, <1>s
<1>8. CASE AnswerMarks(a) /\ at[a].rec = "open"
  <2> DEFINE r == [q EXCEPT !.ans = "marked", !.rec = "answered"]
  <2>1. /\ q.ans = "loaded" /\ q.rec = "open"
        /\ at' = [at EXCEPT ![a] = r] /\ count' = count
        /\ UNCHANGED <<task, target, token, scan, pausing, swept, spoiled>>
    BY <1>8 DEF AnswerMarks, Becomes, q, Unmoved
  <2>2. r \in AttemptType /\ Sound(r) /\ Follows(q, r)
    BY <2>1 DEF AttemptType, Records, Calls
  <2>3. Accounts(q, r) /\ count' \in Int
    BY <2>1 DEF AttemptType, Accounts, Has
  <2> HIDE DEF r
  <2> QED BY <2>1, <2>2, <2>3, <1>s
<1>9. CASE AnswerMarks(a) /\ at[a].rec # "open"
  <2> DEFINE r == [q EXCEPT !.ans = "idle"]
  <2>1. /\ q.ans = "loaded" /\ q.rec # "open"
        /\ at' = [at EXCEPT ![a] = r] /\ count' = count
        /\ UNCHANGED <<task, target, token, scan, pausing, swept, spoiled>>
    BY <1>9 DEF AnswerMarks, Becomes, q, Unmoved
  <2>2. r \in AttemptType /\ Sound(r) /\ Follows(q, r)
    BY <2>1 DEF AttemptType, Records, Calls
  <2>3. Accounts(q, r) /\ count' \in Int
    BY <2>1 DEF AttemptType, Accounts, Has
  <2> HIDE DEF r
  <2> QED BY <2>1, <2>2, <2>3, <1>s
<1>10. CASE EndLoads(a)
  <2> DEFINE r == [q EXCEPT !.end = "loaded"]
  <2>1. /\ q.call \in {"missed", "hung_up"} /\ q.sess = "call" /\ IsOpen(q)
        /\ at' = [at EXCEPT ![a] = r] /\ count' = count
        /\ UNCHANGED <<task, target, token, scan, pausing, swept, spoiled>>
    BY <1>10 DEF EndLoads, Becomes, q, Over, HasOpenRecord, Unmoved
  <2>2. r \in AttemptType /\ Sound(r) /\ Follows(q, r)
    BY <2>1 DEF AttemptType, Records, Calls
  <2>3. Accounts(q, r) /\ count' \in Int
    BY <2>1 DEF AttemptType, Accounts, Has
  <2> HIDE DEF r
  <2> QED BY <2>1, <2>2, <2>3, <1>s
<1>11. CASE EndFinalises(a) /\ ~HasOpenRecord(a)
  <2> DEFINE r == [q EXCEPT !.end = "idle"]
  <2>1. /\ q.end = "loaded"
        /\ at' = [at EXCEPT ![a] = r] /\ count' = count
        /\ UNCHANGED <<task, target, token, scan, pausing, swept, spoiled>>
    BY <1>11 DEF EndFinalises, Becomes, q, Unmoved
  <2>2. r \in AttemptType /\ Sound(r) /\ Follows(q, r)
    BY <2>1 DEF AttemptType, Records, Calls
  <2>3. Accounts(q, r) /\ count' \in Int
    BY <2>1 DEF AttemptType, Accounts, Has
  <2> HIDE DEF r
  <2> QED BY <2>1, <2>2, <2>3, <1>s
<1>12. CASE EndReleases(a)
  <2> DEFINE r == [q EXCEPT !.end = "released", !.held = FALSE]
  <2>1. /\ q.end = "owner"
        /\ at' = [at EXCEPT ![a] = r] /\ count' = Released
        /\ UNCHANGED <<task, target, token, scan, pausing, swept, spoiled>>
    BY <1>12 DEF EndReleases, Becomes, q, Unmoved
  <2>2. r \in AttemptType /\ Sound(r) /\ Follows(q, r)
    BY <2>1 DEF AttemptType, Records, Calls
  <2>3. Accounts(q, r) /\ count' \in Int
    BY <2>1 DEF AttemptType, Accounts, Has, Released
  <2> HIDE DEF r
  <2> QED BY <2>1, <2>2, <2>3, <1>s
<1>13. CASE HandlerDies(a)
  <2> DEFINE r == [q EXCEPT !.bind = FALSE, !.ans = "idle", !.end = "idle"]
  <2>1. /\ q.bind \/ q.ans # "idle" \/ q.end # "idle"
        /\ at' = [at EXCEPT ![a] = r] /\ count' = count
        /\ UNCHANGED <<task, target, token, scan, pausing, swept, spoiled>>
    BY <1>13 DEF HandlerDies, Becomes, q, Handled, Unmoved
  <2>2. r \in AttemptType /\ Sound(r) /\ Follows(q, r)
    <3>1. /\ r \in AttemptType
          /\ r.target = q.target /\ r.pc = q.pc /\ r.held = q.held /\ r.rec = q.rec
          /\ r.call = q.call /\ r.sess = q.sess
          /\ ~r.bind /\ r.ans = "idle" /\ r.end = "idle"
      BY DEF AttemptType
    <3> HIDE DEF r
    <3>2. Sound(r)
      BY <3>1
    <3>3. Follows(q, r)
      BY <3>1, <2>1
    <3> QED BY <3>1, <3>2, <3>3
  <2>3. Accounts(q, r) /\ count' \in Int
    BY <2>1 DEF AttemptType, Accounts, Has
  <2> HIDE DEF r
  <2> QED BY <2>1, <2>2, <2>3, <1>s
<1> QED
  BY ONLY <1>1, <1>2, <1>3, <1>4, <1>5, <1>6, <1>7, <1>8, <1>9, <1>10, <1>11, <1>12, <1>13,
     \/ KernelNext(a) \/ HearNext(a) \/ AnswerMarks(a) \/ EndReleases(a) \/ HandlerDies(a)
     \/ (EndFinalises(a) /\ ~HasOpenRecord(a))
     DEF KernelNext, HearNext, CallEnds

-----------------------------------------------------------------------------
(* The steps that write the target or the index.                           *)

\* A step that writes the target once the record of the call is closed.
LEMMA TargetStep ==
  ASSUME IInv, NEW a \in Attempts, NEW r \in AttemptType, NEW v \in TargetStates,
         at' = [at EXCEPT ![a] = r], Sound(r), r.target \in {at[a].target, NoTarget},
         at[a].target \in Targets, Speaks(at[a]), Current(at[a]), ~Holds(r), ~Current(r), ~IsPlaced(r),
         target' = target \/ target' = [target EXCEPT ![at[a].target] = v],
         r.rec = "ended_answered" => target'[r.target] = "completed",
         (Has(r) <=> Has(at[a])) /\ (r.held <=> at[a].held), task' \in TaskStates,
         UNCHANGED <<token, count, scan, pausing, swept, spoiled>>
  PROVE  IInv'
<1>0. /\ target \in [Targets -> TargetStates] /\ token \in [Targets -> Attempts \cup {NoAttempt}]
      /\ count \in Int /\ scan \in BOOLEAN /\ pausing \in BOOLEAN /\ spoiled \in BOOLEAN
  BY DEF IInv, TypeOK
<1>1. RestTyped
  BY <1>0 DEF RestTyped
<1>2. Indexes(a, r)
  BY DEF Indexes, Holds
<1>3. Writes(a, r)
  BY <1>0 DEF Writes
<1>4. Accounts(at[a], r)
  BY <1>0 DEF Accounts
<1> QED BY <1>1, <1>2, <1>3, <1>4, AttemptStep

\* A step that stores or drops the session of a call.
LEMMA IndexStep ==
  ASSUME IInv, NEW a \in Attempts, NEW r \in AttemptType, NEW x \in Attempts \cup {NoAttempt},
         at' = [at EXCEPT ![a] = r], Sound(r), r.target = at[a].target, at[a].target \in Targets,
         token' = [token EXCEPT ![at[a].target] = x], Tied(r) => x = a,
         Speaks(at[a]) \/ token[at[a].target] = a,
         Speaks(r) => Speaks(at[a]), Holds(r) => Holds(at[a]), Current(r) => Current(at[a]),
         IsPlaced(r) => IsOpen(r) \/ (IsPlaced(at[a]) /\ r.rec = at[a].rec),
         r.rec = "ended_answered" => at[a].rec = "ended_answered",
         (Has(r) <=> Has(at[a])) /\ (r.held <=> at[a].held),
         UNCHANGED <<task, target, count, scan, pausing, swept, spoiled>>
  PROVE  IInv'
<1>0. /\ target \in [Targets -> TargetStates] /\ token \in [Targets -> Attempts \cup {NoAttempt}]
      /\ task \in TaskStates
      /\ count \in Int /\ scan \in BOOLEAN /\ pausing \in BOOLEAN /\ spoiled \in BOOLEAN
  BY DEF IInv, TypeOK
<1>1. RestTyped
  BY <1>0 DEF RestTyped
<1>2. Indexes(a, r)
  BY <1>0 DEF Indexes
<1>3. Writes(a, r)
  BY DEF Writes, IInv, Known, Settled, IsOpen
<1>4. Accounts(at[a], r)
  BY <1>0 DEF Accounts
<1> QED BY <1>1, <1>2, <1>3, <1>4, AttemptStep

\* The steps of coroutine, handlers and clock that write the target or the index.
LEMMA AttemptWrites ==
  ASSUME IInv, NEW a \in Attempts,
         \/ Restore(a) \/ Defer(a) \/ FinaliseRefused(a) \/ (EndFinalises(a) /\ HasOpenRecord(a))
         \/ Ask(a) \/ StoreReply(a) \/ BindStores(a) \/ AnswerStores(a) \/ EndDeletes(a)
         \/ SessionExpires(a)
  PROVE  IInv'
<1> DEFINE q == at[a]
<1>0. /\ q \in AttemptType /\ Sound(q) /\ task \in TaskStates
      /\ token \in [Targets -> Attempts \cup {NoAttempt}]
  BY AttemptIsSound DEF IInv, TypeOK
<1>u. Unused \in AttemptType /\ Sound(Unused)
  BY DEF Unused, AttemptType, TargetStates, Coroutine, Records, Calls, Sound, IsOpen, IsPlaced, Busy, Early
<1>t. ASSUME NEW r \in AttemptType, NEW v \in TargetStates, at' = [at EXCEPT ![a] = r], Sound(r),
             r.target \in {q.target, NoTarget},
             q.target \in Targets, Speaks(q), Current(q), ~Holds(r), ~Current(r), ~IsPlaced(r),
             target' = target \/ target' = [target EXCEPT ![q.target] = v],
             r.rec = "ended_answered" => target'[r.target] = "completed",
             (Has(r) <=> Has(q)) /\ (r.held <=> q.held), task' \in TaskStates,
             UNCHANGED <<token, count, scan, pausing, swept, spoiled>>
      PROVE  IInv'
  BY <1>t, TargetStep
<1>i. ASSUME NEW r \in AttemptType, NEW x \in Attempts \cup {NoAttempt},
             at' = [at EXCEPT ![a] = r], Sound(r), r.target = q.target, q.target \in Targets,
             token' = [token EXCEPT ![q.target] = x], Tied(r) => x = a,
             Speaks(q) \/ token[q.target] = a,
             Speaks(r) => Speaks(q), Holds(r) => Holds(q), Current(r) => Current(q),
             IsPlaced(r) => IsOpen(r) \/ (IsPlaced(q) /\ r.rec = q.rec),
             r.rec = "ended_answered" => q.rec = "ended_answered",
             (Has(r) <=> Has(q)) /\ (r.held <=> q.held),
             UNCHANGED <<task, target, count, scan, pausing, swept, spoiled>>
      PROVE  IInv'
  BY <1>i, IndexStep
<1> HIDE DEF q
<1>1. CASE Restore(a)
  <2>1. /\ q.pc = "restoring" /\ at' = [at EXCEPT ![a] = Unused] /\ task' = task
        /\ target' = target \/ target' = [target EXCEPT ![q.target] = q.prev]
        /\ UNCHANGED <<token, count, scan, pausing, swept, spoiled>>
    BY <1>1 DEF Restore, Becomes, SetTarget, q
  <2>2. q.prev \in TargetStates /\ q.target \in Targets
    BY <2>1, <1>0 DEF AttemptType, TargetStates, Sound
  <2>3. /\ Speaks(q) /\ Current(q) /\ (Has(Unused) <=> Has(q)) /\ (Unused.held <=> q.held)
        /\ ~Holds(Unused) /\ ~Current(Unused) /\ ~IsPlaced(Unused)
        /\ Unused.rec = "none" /\ Unused.target = NoTarget
    BY <2>1, <1>0 DEF Unused, Has, Sound, Speaks, Busy, Tied, Holds, Current, IsOpen, IsPlaced, Early
  <2> QED BY <2>1, <2>2, <2>3, <1>0, <1>u, <1>t
<1>2. CASE Defer(a)
  <2>1. /\ q.pc = "deferring" /\ at' = [at EXCEPT ![a] = Unused] /\ task' = task
        /\ target' = target \/ target' = [target EXCEPT ![q.target] = "pending"]
        /\ UNCHANGED <<token, count, scan, pausing, swept, spoiled>>
    BY <1>2 DEF Defer, Becomes, SetTarget, q, Write
  <2>2. "pending" \in TargetStates /\ q.target \in Targets
    BY <2>1, <1>0 DEF AttemptType, TargetStates, Sound
  <2>3. /\ Speaks(q) /\ Current(q) /\ (Has(Unused) <=> Has(q)) /\ (Unused.held <=> q.held)
        /\ ~Holds(Unused) /\ ~Current(Unused) /\ ~IsPlaced(Unused)
        /\ Unused.rec = "none" /\ Unused.target = NoTarget
    BY <2>1, <1>0 DEF Unused, Has, Sound, Speaks, Busy, Tied, Holds, Current, IsOpen, IsPlaced, Early
  <2> QED BY <2>1, <2>2, <2>3, <1>0, <1>u, <1>t
<1>3. CASE FinaliseRefused(a)
  <2> DEFINE r == [q EXCEPT !.pc = "counting", !.rec = Ended(@)]
  <2>1. PICK v \in {"pending"} :
          /\ q.pc = "finalising" /\ q.rec = "open" /\ at' = [at EXCEPT ![a] = r] /\ task' = task
          /\ target' = target \/ target' = [target EXCEPT ![q.target] = v]
          /\ UNCHANGED <<token, count, scan, pausing, swept, spoiled>>
    BY <1>0, <1>3 DEF FinaliseRefused, Becomes, SetTarget, q, Write, Sound
  <2>2. q.target \in Targets
    BY <2>1, <1>0 DEF AttemptType, Sound, Early
  <2>3. /\ r \in AttemptType
        /\ (Has(r) <=> Has(q)) /\ (r.held <=> q.held) /\ r.target = q.target
        /\ r.rec = "ended_answered" <=> q.rec = "answered"
    BY <2>1, <1>0 DEF AttemptType, Has, Coroutine, Records, Ended, IsOpen, Sound
  <2>4. Sound(r)
    BY <2>1, <1>0 DEF AttemptType, Ended, Sound, Speaks, Busy, Tied, Holds, Current, IsOpen, IsPlaced, Early
  <2>5. Speaks(q) /\ Current(q) /\ ~Holds(r) /\ ~Current(r) /\ ~IsPlaced(r)
    BY <2>1, <1>0 DEF AttemptType, Ended, Sound, Speaks, Busy, Tied, Holds, Current, IsOpen, IsPlaced, Early
  <2>6. r.rec = "ended_answered" => target'[r.target] = "completed"
    BY <2>1, <2>2, <2>3, <1>0 DEF IInv, TypeOK
  <2>7. task' \in TaskStates /\ v \in TargetStates
    BY <2>1, <1>0 DEF TaskStates, TargetStates, Verdicts
  <2> HIDE DEF r
  <2> QED BY <2>1, <2>2, <2>3, <2>4, <2>5, <2>6, <2>7, <1>t
<1>4. CASE EndFinalises(a) /\ HasOpenRecord(a)
  <2> DEFINE r == [q EXCEPT !.end = "owner", !.rec = Ended(@)]
  <2>1. PICK v \in Verdicts :
          /\ q.end = "loaded" /\ IsOpen(q) /\ at' = [at EXCEPT ![a] = r] /\ task' \in {task, "paused"}
          /\ target' = [target EXCEPT ![q.target] = v] /\ (q.rec = "answered" => v = "completed")
          /\ UNCHANGED <<token, count, scan, pausing, swept, spoiled>>
    BY <1>4 DEF EndFinalises, Becomes, SetTarget, q, HasOpenRecord, Terminal, IsOpen, Verdicts, Unmoved
  <2>2. q.target \in Targets
    BY <2>1, <1>0 DEF AttemptType, Sound, Early
  <2>3. /\ r \in AttemptType
        /\ (Has(r) <=> Has(q)) /\ (r.held <=> q.held) /\ r.target = q.target
        /\ r.rec = "ended_answered" <=> q.rec = "answered"
    BY <2>1, <1>0 DEF AttemptType, Has, Coroutine, Records, Ended, IsOpen, Sound
  <2>4. Sound(r)
    BY <2>1, <1>0 DEF AttemptType, Ended, Sound, Speaks, Busy, Tied, Holds, Current, IsOpen, IsPlaced, Early
  <2>5. Speaks(q) /\ Current(q) /\ ~Holds(r) /\ ~Current(r) /\ ~IsPlaced(r)
    BY <2>1, <1>0 DEF AttemptType, Ended, Sound, Speaks, Busy, Tied, Holds, Current, IsOpen, IsPlaced, Early
  <2>6. r.rec = "ended_answered" => target'[r.target] = "completed"
    BY <2>1, <2>2, <2>3, <1>0 DEF IInv, TypeOK
  <2>7. task' \in TaskStates /\ v \in TargetStates
    BY <2>1, <1>0 DEF TaskStates, TargetStates, Verdicts
  <2> HIDE DEF r
  <2> QED BY <2>1, <2>2, <2>3, <2>4, <2>5, <2>6, <2>7, <1>t
<1>5. CASE Ask(a)
  <2> DEFINE r == [q EXCEPT !.pc = "asking", !.sess = "attempt", !.call = "asked"]
  <2>1. /\ q.pc = "recorded" /\ at' = [at EXCEPT ![a] = r]
        /\ token' = [token EXCEPT ![q.target] = a]
        /\ UNCHANGED <<task, target, count, scan, pausing, swept, spoiled>>
    BY <1>5 DEF Ask, Becomes, StoreSession, q
  <2>2. q.target \in Targets
    BY <2>1, <1>0 DEF AttemptType, Sound, Early
  <2>3. /\ r \in AttemptType
        /\ (Has(r) <=> Has(q)) /\ (r.held <=> q.held) /\ r.target = q.target /\ r.rec = q.rec
    <3>1. r \in AttemptType
      BY <2>1, <1>0 DEF AttemptType, Coroutine, Calls
    <3>2. /\ r.held = q.held /\ r.target = q.target /\ r.rec = q.rec
          /\ r.pc = "over" <=> q.pc = "over"
      BY <2>1, <1>0 DEF AttemptType
    <3> HIDE DEF r
    <3> QED BY <3>1, <3>2 DEF Has
  <2>4. Sound(r)
    BY <2>1, <1>0 DEF AttemptType, Sound, Speaks, Busy, Tied, Holds, Current, IsOpen, IsPlaced, Early
  <2>5. /\ Speaks(q) /\ (Speaks(r) => Speaks(q)) /\ (Holds(r) => Holds(q)) /\ (Current(r) => Current(q))
        /\ IsPlaced(r) => IsOpen(r) \/ IsPlaced(q)
    BY <2>1, <1>0 DEF AttemptType, Sound, Speaks, Busy, Tied, Holds, Current, IsOpen, IsPlaced, Early
  <2>6. a \in Attempts \cup {NoAttempt}
    OBVIOUS
  <2> HIDE DEF r
  <2> QED BY <2>1, <2>2, <2>3, <2>4, <2>5, <2>6, <1>i
<1>6. CASE StoreReply(a)
  <2> DEFINE r == [q EXCEPT !.pc = "done", !.sess = "call"]
  <2>1. /\ q.pc = "replied" /\ at' = [at EXCEPT ![a] = r]
        /\ token' = [token EXCEPT ![q.target] = a]
        /\ UNCHANGED <<task, target, count, scan, pausing, swept, spoiled>>
    BY <1>6 DEF StoreReply, Becomes, StoreSession, q
  <2>2. q.target \in Targets
    BY <2>1, <1>0 DEF AttemptType, Sound, Early
  <2>3. /\ r \in AttemptType
        /\ (Has(r) <=> Has(q)) /\ (r.held <=> q.held) /\ r.target = q.target /\ r.rec = q.rec
    <3>1. r \in AttemptType
      BY <1>0 DEF AttemptType, Coroutine
    <3>2. /\ r.held = q.held /\ r.target = q.target /\ r.rec = q.rec
          /\ r.pc = "over" <=> q.pc = "over"
      BY <2>1, <1>0 DEF AttemptType
    <3> HIDE DEF r
    <3> QED BY <3>1, <3>2 DEF Has
  <2>4. Sound(r)
    BY <2>1, <1>0 DEF AttemptType, Sound, Speaks, Busy, Tied, Holds, Current, IsOpen, IsPlaced, Early
  <2>5. /\ Speaks(q) /\ (Speaks(r) => Speaks(q)) /\ (Holds(r) => Holds(q)) /\ (Current(r) => Current(q))
        /\ IsPlaced(r) => IsOpen(r) \/ IsPlaced(q)
    BY <2>1, <1>0 DEF AttemptType, Sound, Speaks, Busy, Tied, Holds, Current, IsOpen, IsPlaced, Early
  <2>6. a \in Attempts \cup {NoAttempt}
    OBVIOUS
  <2> HIDE DEF r
  <2> QED BY <2>1, <2>2, <2>3, <2>4, <2>5, <2>6, <1>i
<1>7. CASE BindStores(a)
  <2> DEFINE r == [q EXCEPT !.bind = FALSE, !.sess = "call"]
  <2>1. /\ q.bind /\ at' = [at EXCEPT ![a] = r]
        /\ token' = [token EXCEPT ![q.target] = a]
        /\ UNCHANGED <<task, target, count, scan, pausing, swept, spoiled>>
    BY <1>7 DEF BindStores, Becomes, StoreSession, q, Unmoved
  <2>2. q.target \in Targets
    BY <2>1, <1>0 DEF AttemptType, Sound, Early
  <2>3. /\ r \in AttemptType
        /\ (Has(r) <=> Has(q)) /\ (r.held <=> q.held) /\ r.target = q.target /\ r.rec = q.rec
    <3>1. r \in AttemptType
      BY <1>0 DEF AttemptType
    <3>2. /\ r.held = q.held /\ r.target = q.target /\ r.rec = q.rec
          /\ r.pc = "over" <=> q.pc = "over"
      BY <2>1, <1>0 DEF AttemptType
    <3> HIDE DEF r
    <3> QED BY <3>1, <3>2 DEF Has
  <2>4. Sound(r)
    BY <2>1, <1>0 DEF AttemptType, Sound, Speaks, Busy, Tied, Holds, Current, IsOpen, IsPlaced, Early
  <2>5. /\ Speaks(q) /\ (Speaks(r) => Speaks(q)) /\ (Holds(r) => Holds(q)) /\ (Current(r) => Current(q))
        /\ IsPlaced(r) => IsOpen(r) \/ IsPlaced(q)
    BY <2>1, <1>0 DEF AttemptType, Sound, Speaks, Busy, Tied, Holds, Current, IsOpen, IsPlaced, Early
  <2>6. a \in Attempts \cup {NoAttempt}
    OBVIOUS
  <2> HIDE DEF r
  <2> QED BY <2>1, <2>2, <2>3, <2>4, <2>5, <2>6, <1>i
<1>8. CASE AnswerStores(a)
  <2> DEFINE r == [q EXCEPT !.ans = "idle", !.sess = "call"]
  <2>1. /\ q.ans = "marked" /\ at' = [at EXCEPT ![a] = r]
        /\ token' = [token EXCEPT ![q.target] = a]
        /\ UNCHANGED <<task, target, count, scan, pausing, swept, spoiled>>
    BY <1>8 DEF AnswerStores, Becomes, StoreSession, q, Unmoved
  <2>2. q.target \in Targets
    BY <2>1, <1>0 DEF AttemptType, Sound, Early
  <2>3. /\ r \in AttemptType
        /\ (Has(r) <=> Has(q)) /\ (r.held <=> q.held) /\ r.target = q.target /\ r.rec = q.rec
    <3>1. r \in AttemptType
      BY <1>0 DEF AttemptType
    <3>2. /\ r.held = q.held /\ r.target = q.target /\ r.rec = q.rec
          /\ r.pc = "over" <=> q.pc = "over"
      BY <2>1, <1>0 DEF AttemptType
    <3> HIDE DEF r
    <3> QED BY <3>1, <3>2 DEF Has
  <2>4. Sound(r)
    BY <2>1, <1>0 DEF AttemptType, Sound, Speaks, Busy, Tied, Holds, Current, IsOpen, IsPlaced, Early
  <2>5. /\ Speaks(q) /\ (Speaks(r) => Speaks(q)) /\ (Holds(r) => Holds(q)) /\ (Current(r) => Current(q))
        /\ IsPlaced(r) => IsOpen(r) \/ IsPlaced(q)
    BY <2>1, <1>0 DEF AttemptType, Sound, Speaks, Busy, Tied, Holds, Current, IsOpen, IsPlaced, Early
  <2>6. a \in Attempts \cup {NoAttempt}
    OBVIOUS
  <2> HIDE DEF r
  <2> QED BY <2>1, <2>2, <2>3, <2>4, <2>5, <2>6, <1>i
<1>9. CASE EndDeletes(a)
  <2> DEFINE r == [q EXCEPT !.end = "idle", !.sess = "none"]
  <2>1. /\ q.end = "released" /\ at' = [at EXCEPT ![a] = r]
        /\ token' = [token EXCEPT ![q.target] = NoAttempt]
        /\ UNCHANGED <<task, target, count, scan, pausing, swept, spoiled>>
    BY <1>9 DEF EndDeletes, Becomes, StoreSession, q, Unmoved
  <2>2. q.target \in Targets
    BY <2>1, <1>0 DEF AttemptType, Sound, Early
  <2>3. /\ r \in AttemptType
        /\ (Has(r) <=> Has(q)) /\ (r.held <=> q.held) /\ r.target = q.target /\ r.rec = q.rec
    <3>1. r \in AttemptType
      BY <1>0 DEF AttemptType
    <3>2. /\ r.held = q.held /\ r.target = q.target /\ r.rec = q.rec
          /\ r.pc = "over" <=> q.pc = "over"
      BY <2>1, <1>0 DEF AttemptType
    <3> HIDE DEF r
    <3> QED BY <3>1, <3>2 DEF Has
  <2>4. Sound(r)
    BY <2>1, <1>0 DEF AttemptType, Sound, Speaks, Busy, Tied, Holds, Current, IsOpen, IsPlaced, Early
  <2>5. /\ Speaks(q) /\ (Speaks(r) => Speaks(q)) /\ (Holds(r) => Holds(q)) /\ (Current(r) => Current(q))
        /\ IsPlaced(r) => IsOpen(r) \/ IsPlaced(q)
        /\ Tied(r) => NoAttempt = a
    BY <2>1, <1>0 DEF AttemptType, Sound, Speaks, Busy, Tied, Holds, Current, IsOpen, IsPlaced, Early
  <2>6. NoAttempt \in Attempts \cup {NoAttempt}
    OBVIOUS
  <2> HIDE DEF r
  <2> QED BY <2>1, <2>2, <2>3, <2>4, <2>5, <2>6, <1>i
<1>10. CASE SessionExpires(a)
  <2> DEFINE r == [q EXCEPT !.sess = "none"]
             x == IF token[q.target] = a THEN NoAttempt ELSE token[q.target]
  <2>1. /\ q.sess # "none" /\ ~IsPlaced(q) /\ ~Busy(q) /\ at' = [at EXCEPT ![a] = r]
        /\ token' = IF token[q.target] = a THEN [token EXCEPT ![q.target] = NoAttempt] ELSE token
        /\ UNCHANGED <<task, target, count, scan, pausing, swept, spoiled>>
    BY <1>10 DEF SessionExpires, Becomes, Placed, Dialing, Handled, IsPlaced, Busy, Unmoved, q
  <2>2. q.target \in Targets
    BY <2>1, <1>0 DEF AttemptType, Sound, Early
  <2>3. /\ r \in AttemptType
        /\ (Has(r) <=> Has(q)) /\ (r.held <=> q.held) /\ r.target = q.target /\ r.rec = q.rec
    BY <2>1, <1>0 DEF AttemptType, Has
  <2>4. Sound(r)
    BY <2>1, <1>0 DEF AttemptType, Sound, Speaks, Busy, Tied, Holds, Current, IsOpen, IsPlaced, Early
  <2>5. ~Speaks(r) /\ ~Tied(r) /\ (Holds(r) => Holds(q)) /\ (Current(r) => Current(q)) /\ ~IsPlaced(r)
    BY <2>1, <1>0 DEF AttemptType, Sound, Speaks, Busy, Tied, Holds, Current, IsOpen, IsPlaced, Early
  <2>6. RestTyped
    BY <2>1, <2>2, <1>0 DEF RestTyped, IInv, TypeOK
  <2>7. Indexes(a, r)
    BY <2>1, <2>2, <2>5, <1>0 DEF Indexes, q
  <2>8. Writes(a, r)
    BY <2>1, <2>3, <2>5, <1>0 DEF Writes, IInv, Known, Settled, q
  <2>9. Accounts(q, r)
    BY <2>1, <2>3, <1>0 DEF Accounts, IInv, TypeOK
  <2>10. swept' = swept
    BY <2>1
  <2> HIDE DEF r
  <2> QED BY <2>1, <2>3, <2>4, <2>5, <2>6, <2>7, <2>8, <2>9, <2>10, AttemptStep DEF q
<1> QED
  BY ONLY <1>1, <1>2, <1>3, <1>4, <1>5, <1>6, <1>7, <1>8, <1>9, <1>10,
     \/ Restore(a) \/ Defer(a) \/ FinaliseRefused(a) \/ (EndFinalises(a) /\ HasOpenRecord(a))
     \/ Ask(a) \/ StoreReply(a) \/ BindStores(a) \/ AnswerStores(a) \/ EndDeletes(a)
     \/ SessionExpires(a)

-----------------------------------------------------------------------------
(* Claiming and sweeping a target; what concerns no attempt.               *)

\* An attempt without a target has no part in anything.
LEMMA NobodyUnused ==
  ASSUME IInv, NEW b \in Attempts
  PROVE  /\ at[b].target \in Targets \cup {NoTarget} /\ NoTarget \notin Targets
         /\ at[b].target = NoTarget =>
              /\ ~Speaks(at[b]) /\ ~Current(at[b]) /\ ~Holds(at[b])
              /\ ~IsPlaced(at[b]) /\ at[b].rec = "none"
         /\ Tied(at[b]) => Holds(at[b])
         /\ Holds(at[b]) => Speaks(at[b])
<1>1. Sound(at[b]) /\ at[b] \in AttemptType
  BY DEF IInv, AllSound, TypeOK
<1> QED BY <1>1, TargetsAssumption
           DEF Sound, AttemptType, Speaks, Busy, Tied, IsOpen, IsPlaced, Current, Holds, Early

\* A claimed target has nobody who could still speak for it.
LEMMA ClaimStep ==
  ASSUME IInv, NEW a \in Attempts, NEW t \in Targets, Claim(a, t)
  PROVE  IInv'
<1> DEFINE r == [Unused EXCEPT !.target = t, !.prev = target[t], !.pc = "claimed"]
<1>1. /\ at[a].pc = "unused" /\ target[t] \in Dialable /\ Quiet(t)
      /\ target' = [target EXCEPT ![t] = "calling"] /\ at' = [at EXCEPT ![a] = r]
      /\ UNCHANGED <<task, token, count, scan, pausing, swept, spoiled>>
  BY DEF Claim, SetTarget, Becomes
<1>2. TypeOK /\ at[a] \in AttemptType /\ Sound(at[a]) /\ target[t] \in TargetStates
  BY DEF IInv, TypeOK, AllSound
<1>3. /\ r \in AttemptType
      /\ r.target = t /\ r.pc = "claimed" /\ ~r.held /\ r.rec = "none" /\ r.call = "none"
      /\ r.sess = "none" /\ ~r.bind /\ r.ans = "idle" /\ r.end = "idle"
  BY <1>2 DEF Unused, AttemptType, Coroutine, Records, Calls
<1> HIDE DEF r
<1>4. Sound(r)
  BY <1>3, TargetsAssumption DEF Sound, IsOpen, IsPlaced, Busy, Early
<1>5. ~Has(r) /\ ~Tied(r) /\ ~IsPlaced(r) /\ r.rec # "ended_answered"
  BY <1>3 DEF Has, Tied, IsOpen, IsPlaced
<1>6. /\ at'[a] = r /\ \A b \in Attempts \ {a} : at'[b] = at[b]
      /\ at' \in [Attempts -> AttemptType]
      /\ target'[t] = "calling" /\ \A u \in Targets \ {t} : target'[u] = target[u]
      /\ target' \in [Targets -> TargetStates]
  BY <1>1, <1>2, <1>3 DEF TypeOK, TargetStates
<1>7. \A b \in Attempts :
        at[b].target = t =>
          /\ ~Speaks(at[b]) /\ ~Holds(at[b])
          /\ t \notin swept => ~Current(at[b]) /\ at[b].rec # "ended_answered"
  <2> SUFFICES ASSUME NEW b \in Attempts, at[b].target = t
               PROVE  /\ ~Speaks(at[b]) /\ ~Holds(at[b])
                      /\ t \notin swept => ~Current(at[b]) /\ at[b].rec # "ended_answered"
    OBVIOUS
  <2>1. ~Busy(at[b])
    BY <1>1 DEF Quiet, Of, Dialing, Handled, Busy
  <2>2. target[t] \notin {"calling", "deleted", "completed"}
    BY <1>1 DEF Dialable
  <2>3. ~Holds(at[b]) /\ ~Tied(at[b])
    BY <2>2, NobodyUnused DEF IInv, Known
  <2>4. t \notin swept => ~Current(at[b]) /\ at[b].rec # "ended_answered"
    BY <2>2 DEF IInv, Settled
  <2> QED BY <2>1, <2>3, <2>4 DEF Speaks
<1>8. TypeOK'
  BY <1>1, <1>2, <1>6 DEF TypeOK
<1>9. AllSound'
  <2> SUFFICES ASSUME NEW b \in Attempts PROVE Sound(at'[b])
    BY DEF AllSound, Sound, IsOpen, IsPlaced, Busy
  <2> QED BY <1>4, <1>6 DEF IInv, AllSound
<1>10. Ledger'
  <2>1. Accounts(at[a], r)
    BY <1>1, <1>2, <1>3, <1>5 DEF Accounts, TypeOK
  <2>2. RestTyped
    BY <1>1, <1>2, <1>6 DEF RestTyped, TypeOK
  <2> QED BY <2>1, <2>2, <1>1, <1>3, LedgerStep
<1>11. Sole'
  <2> SUFFICES ASSUME NEW b \in Attempts, NEW c \in Attempts,
                      at'[b].target = at'[c].target, Speaks(at'[b]), Speaks(at'[c])
               PROVE  b = c
    BY DEF Sole, Speaks, Busy, Tied, IsOpen, IsPlaced
  <2> QED BY <1>3, <1>6, <1>7 DEF IInv, Sole
<1>12. Known'
  <2> SUFFICES ASSUME NEW b \in Attempts
               PROVE  /\ Tied(at'[b]) => token'[at'[b].target] = b
                      /\ Holds(at'[b]) => target'[at'[b].target] \in {"calling", "deleted"}
    BY DEF Known, Tied, Holds, IsOpen, IsPlaced
  <2>1. CASE b = a
    BY <2>1, <1>3, <1>5, <1>6
  <2>2. CASE b # a
    BY <2>2, <1>1, <1>6, <1>7, NobodyUnused DEF IInv, Known
  <2> QED BY <2>1, <2>2
<1>13. Settled'
  <2> SUFFICES ASSUME NEW b \in Attempts, at'[b].target \notin swept
               PROVE  /\ Current(at'[b]) => target'[at'[b].target] \in {"calling", "deleted"}
                      /\ IsPlaced(at'[b]) => IsOpen(at'[b])
                      /\ at'[b].rec = "ended_answered" => target'[at'[b].target] = "completed"
                      /\ \A c \in Attempts :
                           at'[b].target = at'[c].target /\ Current(at'[b]) /\ Current(at'[c]) => b = c
    BY <1>1 DEF Settled, Current, IsOpen, IsPlaced
  <2>1. \A c \in Attempts :
          at'[b].target = at'[c].target /\ Current(at'[b]) /\ Current(at'[c]) => b = c
    BY <1>3, <1>6, <1>7 DEF IInv, Settled
  <2>2. CASE b = a
    BY <2>1, <2>2, <1>3, <1>5, <1>6
  <2>3. CASE b # a
    BY <2>1, <2>3, <1>6, <1>7, NobodyUnused DEF IInv, Settled
  <2> QED BY <2>2, <2>3
<1> QED BY <1>8, <1>9, <1>10, <1>11, <1>12, <1>13 DEF IInv

\* A step of no attempt keeps the ledger if the counter only grows or starts again.
LEMMA LedgerStays ==
  ASSUME IInv, at' = at, RestTyped,
         spoiled' \/ (Counted = {} /\ count' >= 0) \/ count' >= count
  PROVE  Ledger'
<1>1. /\ Counted = {a \in Attempts : Has(at[a])}
      /\ Cardinality(Counted) \in Nat /\ Cardinality(Held) \in Nat /\ Held \subseteq Counted
  BY HeldIsCounted DEF IInv
<1>2. Held' = Held /\ {a \in Attempts : Has(at[a])}' = Counted
  BY <1>1 DEF Held, Has
<1>3. count \in Int /\ count' \in Int /\ (spoiled => spoiled')
  BY DEF IInv, TypeOK, RestTyped
<1>4. Counted = {} => Cardinality(Counted) = 0
  BY FS_EmptySet
<1> QED BY <1>1, <1>2, <1>3, <1>4 DEF IInv, Ledger

\* A swept target has nobody who could still speak for it.
LEMMA SweepStep ==
  ASSUME IInv, NEW t \in Targets, Sweep(t)
  PROVE  IInv'
<1>1. /\ Quiet(t) /\ ~HasSession(t)
      /\ target' = [target EXCEPT ![t] = "redial_pending"] /\ swept' = swept \cup {t}
      /\ UNCHANGED <<task, token, count, scan, pausing, spoiled>>
  BY DEF Sweep, SetTarget
<1>2. TypeOK
  BY DEF IInv
<1>3. \A b \in Attempts : at[b].target = t => ~Speaks(at[b]) /\ ~Holds(at[b]) /\ ~Tied(at[b]) /\ ~Busy(at[b])
  <2> SUFFICES ASSUME NEW b \in Attempts, at[b].target = t
               PROVE  ~Speaks(at[b]) /\ ~Holds(at[b]) /\ ~Tied(at[b]) /\ ~Busy(at[b])
    OBVIOUS
  <2>1. ~Busy(at[b])
    BY <1>1 DEF Quiet, Of, Dialing, Handled, Busy
  <2>2. ~Tied(at[b])
    <3> SUFFICES ASSUME Tied(at[b]) PROVE FALSE
      OBVIOUS
    <3>1. token[t] = b /\ at[b].sess # "none" /\ b # NoAttempt
      BY AttemptsAssumption DEF IInv, Known, Tied
    <3> QED BY <3>1, <1>1 DEF HasSession
  <2> QED BY <2>1, <2>2 DEF Speaks, Holds, Busy, Early
<1>4. RestTyped
  BY <1>1, <1>2 DEF RestTyped, TypeOK, TargetStates
<1>5. CASE at' = at
  <2>1. TypeOK'
    BY <1>1, <1>2, <1>4, <1>5 DEF TypeOK, RestTyped
  <2>2. AllSound'
    BY <1>5 DEF IInv, AllSound, Sound, IsOpen, IsPlaced, Busy
  <2>3. Ledger'
    BY <1>1, <1>2, <1>4, <1>5, LedgerStays DEF TypeOK
  <2>4. Sole'
    BY <1>5 DEF IInv, Sole, Speaks, Busy, Tied, IsOpen, IsPlaced
  <2>5. Known'
    <3> SUFFICES ASSUME NEW b \in Attempts
                 PROVE  /\ Tied(at[b]) => token[at[b].target] = b
                        /\ Holds(at[b]) => target'[at[b].target] \in {"calling", "deleted"}
      BY <1>1, <1>5 DEF Known, Tied, Holds, IsOpen, IsPlaced
    <3> QED BY <1>1, <1>2, <1>3, NobodyUnused DEF IInv, Known, TypeOK
  <2>6. Settled'
    <3> SUFFICES ASSUME NEW b \in Attempts, at[b].target \notin swept'
                 PROVE  /\ Current(at[b]) => target'[at[b].target] \in {"calling", "deleted"}
                        /\ IsPlaced(at[b]) => IsOpen(at[b])
                        /\ at[b].rec = "ended_answered" => target'[at[b].target] = "completed"
                        /\ \A c \in Attempts :
                             at[b].target = at[c].target /\ Current(at[b]) /\ Current(at[c]) => b = c
      BY <1>5 DEF Settled, Current, IsOpen, IsPlaced
    <3>1. at[b].target \notin swept /\ at[b].target # t
      BY <1>1
    <3> QED BY <3>1, <1>1, <1>2, NobodyUnused DEF IInv, Settled, TypeOK
  <2> QED BY <2>1, <2>2, <2>3, <2>4, <2>5, <2>6 DEF IInv
<1>6. ASSUME NEW a \in Attempts, at[a].target = t, IsOpen(at[a]),
             at' = [at EXCEPT ![a] = [at[a] EXCEPT !.rec = Ended(@)]]
      PROVE  IInv'
  <2> DEFINE r == [at[a] EXCEPT !.rec = Ended(@)]
  <2>1. at[a] \in AttemptType /\ Sound(at[a]) /\ ~Busy(at[a]) /\ ~Tied(at[a])
    BY <1>2, <1>3, <1>6 DEF IInv, AllSound, TypeOK
  <2>2. /\ r \in AttemptType /\ r.target = t /\ r.rec \in {"ended", "ended_answered"}
        /\ r.pc = at[a].pc /\ r.held = at[a].held /\ r.call = at[a].call /\ r.sess = at[a].sess
        /\ r.bind = at[a].bind /\ r.ans = at[a].ans /\ r.end = at[a].end
    BY <1>6, <2>1 DEF AttemptType, Ended, Records, IsOpen
  <2> HIDE DEF r
  <2>3. at[a].sess = "none" /\ at[a].pc = "done" /\ at[a].rec # "none"
    BY <1>6, <2>1 DEF Tied, Sound, IsOpen, Busy, Early
  <2>4. Sound(r) /\ ~Speaks(r) /\ ~Tied(r) /\ ~Holds(r) /\ ~Current(r) /\ ~IsPlaced(r)
    BY <1>6, <2>1, <2>2, <2>3 DEF Sound, Speaks, Tied, Holds, Current, IsOpen, IsPlaced, Busy, Early
  <2>5. /\ at'[a] = r /\ \A b \in Attempts \ {a} : at'[b] = at[b]
        /\ at' \in [Attempts -> AttemptType]
    BY <1>2, <1>6, <2>2 DEF TypeOK, r
  <2>6. TypeOK'
    BY <1>1, <1>2, <1>4, <2>5 DEF TypeOK, RestTyped
  <2>7. AllSound'
    <3> SUFFICES ASSUME NEW b \in Attempts PROVE Sound(at'[b])
      BY DEF AllSound, Sound, IsOpen, IsPlaced, Busy
    <3> QED BY <2>4, <2>5 DEF IInv, AllSound
  <2>8. Ledger'
    <3>1. Accounts(at[a], r)
      BY <1>1, <1>2, <2>2 DEF Accounts, Has, TypeOK
    <3> QED BY <3>1, <1>4, <1>6, <2>2, LedgerStep DEF r
  <2>9. Sole'
    <3> SUFFICES ASSUME NEW b \in Attempts, NEW c \in Attempts,
                        at'[b].target = at'[c].target, Speaks(at'[b]), Speaks(at'[c])
                 PROVE  b = c
      BY DEF Sole, Speaks, Busy, Tied, IsOpen, IsPlaced
    <3> QED BY <2>4, <2>5 DEF IInv, Sole
  <2>10. Known'
    <3> SUFFICES ASSUME NEW b \in Attempts
                 PROVE  /\ Tied(at'[b]) => token[at'[b].target] = b
                        /\ Holds(at'[b]) => target'[at'[b].target] \in {"calling", "deleted"}
      BY <1>1 DEF Known, Tied, Holds, IsOpen, IsPlaced
    <3> QED BY <1>1, <1>2, <1>3, <2>4, <2>5, NobodyUnused DEF IInv, Known, TypeOK
  <2>11. Settled'
    <3> SUFFICES ASSUME NEW b \in Attempts, at'[b].target \notin swept'
                 PROVE  /\ Current(at'[b]) => target'[at'[b].target] \in {"calling", "deleted"}
                        /\ IsPlaced(at'[b]) => IsOpen(at'[b])
                        /\ at'[b].rec = "ended_answered" => target'[at'[b].target] = "completed"
                        /\ \A c \in Attempts :
                             at'[b].target = at'[c].target /\ Current(at'[b]) /\ Current(at'[c]) => b = c
      BY DEF Settled, Current, IsOpen, IsPlaced
    <3>1. b # a /\ at'[b] = at[b] /\ at[b].target \notin swept /\ at[b].target # t
      BY <1>1, <2>2, <2>5
    <3>2. \A c \in Attempts :
            at'[b].target = at'[c].target /\ Current(at'[b]) /\ Current(at'[c]) => b = c
      BY <3>1, <2>4, <2>5 DEF IInv, Settled
    <3> QED BY <3>1, <3>2, <1>1, <1>2, NobodyUnused DEF IInv, Settled, TypeOK
  <2> QED BY <2>6, <2>7, <2>8, <2>9, <2>10, <2>11 DEF IInv
<1> QED BY <1>5, <1>6 DEF Sweep, Of, Becomes, HasOpenRecord, IsOpen

\* Scans, the counter's expiry and the operators keep the invariant.
LEMMA OtherStep ==
  ASSUME IInv,
         \/ StartScan \/ EndScan \/ PauseFinished \/ CounterExpires
         \/ \E status \in TaskStates : SetTask(status)
         \/ \E t \in Targets : Append(t) \/ Delete(t)
  PROVE  IInv'
<1>1. at' = at /\ token' = token /\ swept' = swept
  BY DEF StartScan, EndScan, PauseFinished, CounterExpires, SetTask, Append, Delete
<1>2. \A u \in Targets :
        \/ target'[u] = target[u]
        \/ target[u] # "completed" /\ target'[u] = "deleted"
        \/ target[u] \notin {"calling", "deleted", "completed"}
  BY DEF StartScan, EndScan, PauseFinished, CounterExpires, SetTask, Append, Delete, SetTarget,
         IInv, TypeOK
<1>3. spoiled' \/ (Counted = {} /\ count' >= 0) \/ count' >= count
  <2>1. CASE CounterExpires
    <3>1. count' = 0 /\ (Counted # {} => spoiled')
      BY <2>1 DEF CounterExpires, DropCounter
    <3> QED BY <3>1
  <2>2. CASE count' = count
    BY <2>2 DEF IInv, TypeOK
  <2> QED BY <2>1, <2>2
          DEF StartScan, EndScan, PauseFinished, SetTask, Append, Delete
<1>4. RestTyped
  <2>0. TypeOK
    BY DEF IInv
  <2>1. CASE StartScan \/ EndScan \/ PauseFinished
    BY <2>0, <2>1 DEF TypeOK, RestTyped, StartScan, EndScan, PauseFinished, TaskStates
  <2>2. CASE CounterExpires
    BY <2>0, <2>2 DEF TypeOK, RestTyped, CounterExpires, DropCounter
  <2>3. CASE \E status \in TaskStates : SetTask(status)
    BY <2>0, <2>3 DEF TypeOK, RestTyped, SetTask
  <2>4. CASE \E t \in Targets : Append(t) \/ Delete(t)
    <3>1. PICK t \in Targets : Append(t) \/ Delete(t)
      BY <2>4
    <3>2. CASE Append(t)
      BY <2>0, <3>2 DEF TypeOK, RestTyped, Append, SetTarget, TaskStates, TargetStates
    <3>3. CASE Delete(t)
      BY <2>0, <3>3 DEF TypeOK, RestTyped, Delete, SetTarget, TaskStates, TargetStates
    <3> QED BY <3>1, <3>2, <3>3
  <2> QED BY <2>1, <2>2, <2>3, <2>4
<1>5. TypeOK'
  BY <1>1, <1>4 DEF IInv, TypeOK, RestTyped
<1>6. AllSound'
  BY <1>1 DEF IInv, AllSound, Sound, IsOpen, IsPlaced, Busy
<1>7. Ledger'
  BY <1>1, <1>3, <1>4, LedgerStays
<1>8. Sole'
  BY <1>1 DEF IInv, Sole, Speaks, Busy, Tied, IsOpen, IsPlaced
<1>9. Known'
  <2> SUFFICES ASSUME NEW b \in Attempts
               PROVE  /\ Tied(at[b]) => token[at[b].target] = b
                      /\ Holds(at[b]) => target'[at[b].target] \in {"calling", "deleted"}
    BY <1>1 DEF Known, Tied, Holds, IsOpen, IsPlaced
  <2> QED BY <1>2, NobodyUnused DEF IInv, Known
<1>10. Settled'
  <2> SUFFICES ASSUME NEW b \in Attempts, at[b].target \notin swept
               PROVE  /\ Current(at[b]) => target'[at[b].target] \in {"calling", "deleted"}
                      /\ IsPlaced(at[b]) => IsOpen(at[b])
                      /\ at[b].rec = "ended_answered" => target'[at[b].target] = "completed"
                      /\ \A c \in Attempts :
                           at[b].target = at[c].target /\ Current(at[b]) /\ Current(at[c]) => b = c
    BY <1>1 DEF Settled, Current, IsOpen, IsPlaced
  <2>1. /\ Current(at[b]) => target[at[b].target] \in {"calling", "deleted"}
        /\ IsPlaced(at[b]) => IsOpen(at[b])
        /\ at[b].rec = "ended_answered" => target[at[b].target] = "completed"
        /\ \A c \in Attempts :
             at[b].target = at[c].target /\ Current(at[b]) /\ Current(at[c]) => b = c
    BY DEF IInv, Settled
  <2>2. Current(at[b]) \/ at[b].rec = "ended_answered" => at[b].target \in Targets
    BY NobodyUnused
  <2> QED BY <1>2, <2>1, <2>2
<1> QED BY <1>5, <1>6, <1>7, <1>8, <1>9, <1>10 DEF IInv

-----------------------------------------------------------------------------
(* The invariant, and what follows from it.                                *)

\* The invariant holds of a task that has just been started.
LEMMA InitEstablishes == Init => IInv
<1> SUFFICES ASSUME Init PROVE IInv
  OBVIOUS
<1>1. \A a \in Attempts : at[a] = Unused
  BY DEF Init
<1>2. Unused \in AttemptType /\ Sound(Unused)
  BY DEF Unused, AttemptType, TargetStates, Coroutine, Records, Calls, Sound, IsOpen, IsPlaced, Busy, Early
<1>3. /\ ~Speaks(Unused) /\ ~Tied(Unused) /\ ~Holds(Unused) /\ ~Current(Unused) /\ ~Has(Unused)
      /\ ~IsPlaced(Unused) /\ Unused.rec = "none" /\ ~Unused.held
  BY DEF Unused, Speaks, Busy, Tied, Holds, Current, Has, IsOpen, IsPlaced, Early
<1>4. TypeOK
  <2>1. at \in [Attempts -> AttemptType]
    BY <1>2 DEF Init
  <2>2. target \in [Targets -> TargetStates] /\ token \in [Targets -> Attempts \cup {NoAttempt}]
    BY DEF Init, TargetStates
  <2>3. scan \in BOOLEAN /\ pausing \in BOOLEAN /\ spoiled \in BOOLEAN
    BY DEF Init
  <2>4. task \in TaskStates /\ count \in Int /\ swept \in SUBSET Targets
    BY DEF Init, TaskStates
  <2> QED BY <2>1, <2>2, <2>3, <2>4 DEF TypeOK
<1>5. AllSound
  BY <1>1, <1>2 DEF AllSound
<1>6. Ledger
  <2>1. {a \in Attempts : Has(at[a])} = {} /\ Held = {}
    BY <1>1, <1>3 DEF Held
  <2>2. Cardinality({a \in Attempts : Has(at[a])}) = 0 /\ Cardinality(Held) = 0
    BY <2>1, FS_EmptySet
  <2> QED BY <2>2, MaxConcurrencyAssumption DEF Init, Ledger
<1>7. Sole /\ Known
  BY <1>1, <1>3 DEF Sole, Known
<1>8. Settled
  BY <1>1, <1>3 DEF Settled
<1> QED BY <1>4, <1>5, <1>6, <1>7, <1>8 DEF IInv

\* Every step keeps the invariant.
LEMMA NextPreserves == IInv /\ [Next]_vars => IInv'
<1> SUFFICES ASSUME IInv, [Next]_vars PROVE IInv'
  OBVIOUS
<1>1. CASE StartScan \/ EndScan \/ PauseFinished \/ CounterExpires \/ OperatorNext
  BY <1>1, OtherStep DEF OperatorNext
<1>2. ASSUME NEW a \in Attempts, AttemptNext(a) PROVE IInv'
  <2>1. CASE DialNext(a)
    <3>1. CASE Restore(a) \/ Defer(a) \/ FinaliseRefused(a)
      BY <3>1, AttemptWrites
    <3>2. CASE Ask(a) \/ StoreReply(a)
      BY <3>2, AttemptWrites
    <3>3. CASE \/ SeesInactive(a) \/ Acquire(a) \/ StepBack(a) \/ Refuse(a) \/ CreateRecord(a)
               \/ GetReply(a) \/ GetRefusal(a) \/ LoseReply(a) \/ Reconcile(a) \/ ReleaseRefused(a)
               \/ CountFailure(a) \/ AutoPause(a) \/ Reset(a)
      BY <3>3, DialLocal
    <3> QED BY <2>1, <3>1, <3>2, <3>3 DEF DialNext
  <2>2. CASE HandlerNext(a)
    <3>1. CASE EndFinalises(a)
      BY <3>1, HeardLocal, AttemptWrites
    <3>2. CASE BindStores(a) \/ AnswerStores(a) \/ EndDeletes(a)
      BY <3>2, AttemptWrites
    <3>3. CASE AnswerMarks(a) \/ EndReleases(a)
      BY <3>3, HeardLocal
    <3> QED BY <2>2, <3>1, <3>2, <3>3 DEF HandlerNext
  <2>3. CASE DialDies(a)
    BY <2>3, DialLocal
  <2>4. CASE KernelNext(a) \/ HearNext(a) \/ HandlerDies(a)
    BY <2>4, HeardLocal
  <2>5. CASE SessionExpires(a)
    BY <2>5, AttemptWrites
  <2> QED BY <1>2, <2>1, <2>2, <2>3, <2>4, <2>5 DEF AttemptNext
<1>3. ASSUME NEW a \in Attempts, NEW t \in Targets, Claim(a, t) PROVE IInv'
  BY <1>3, ClaimStep
<1>4. ASSUME NEW t \in Targets, Sweep(t) PROVE IInv'
  BY <1>4, SweepStep
<1>5. CASE UNCHANGED vars
  BY <1>5 DEF vars, IInv, TypeOK, AllSound, Sound, Ledger, Held, Has, Sole, Known, Settled, Speaks, Busy,
              Tied, Holds, Current, IsOpen, IsPlaced
<1> QED BY <1>1, <1>2, <1>3, <1>4, <1>5 DEF Next

\* The invariant holds throughout.
LEMMA Invariance == Spec => []IInv
<1> QED BY InitEstablishes, NextPreserves, PTL DEF Spec

\* Whatever the numbers of targets and attempts and the limit, the variables keep
\* their types: no handler leaves an attempt in a stage the engine does not know.
THEOREM TypeCorrect == Spec => []TypeOK
<1>1. IInv => TypeOK
  BY DEF IInv
<1> QED BY <1>1, Invariance, PTL

\* Unless the counter was dropped under calls (reset_concurrency, its time to
\* live), it counts at least the calls that are up, also those whose reply was lost.
THEOREM CountedForAll == Spec => []CallsAreCounted
<1>1. IInv => CallsAreCounted
  <2> SUFFICES ASSUME IInv, ~spoiled
               PROVE  Cardinality({a \in Attempts : Live(a)}) <= count
    BY DEF CallsAreCounted
  <2> DEFINE Up == {a \in Attempts : Live(a)}
  <2>1. Up \subseteq Counted
    BY DEF IInv, AllSound, Sound, IsPlaced, Live, Counted
  <2>2. /\ IsFiniteSet(Counted) /\ Cardinality(Counted) \in Nat
        /\ Cardinality(Counted) <= count /\ count \in Int
    BY HeldIsCounted DEF IInv, Ledger, TypeOK
  <2>3. Cardinality(Up) <= Cardinality(Counted) /\ Cardinality(Up) \in Nat
    BY <2>1, <2>2, FS_Subset, FS_CardinalityType
  <2> QED BY <2>2, <2>3
<1> QED BY <1>1, Invariance, PTL

\* However many processes dial at once, no more calls of the task are up than its
\* max_concurrency: acquire_concurrency counts before it looks.
THEOREM LimitForAll == Spec => []LimitHolds
<1>1. IInv => LimitHolds
  <2> SUFFICES ASSUME IInv, ~spoiled
               PROVE  Cardinality({a \in Attempts : Live(a)}) <= MaxConcurrency
    BY DEF LimitHolds
  <2> DEFINE Up == {a \in Attempts : Live(a)}
  <2>1. Up \subseteq Held
    BY DEF IInv, AllSound, Sound, IsPlaced, Live, Held
  <2>2. /\ IsFiniteSet(Held) /\ Cardinality(Held) \in Nat
        /\ Cardinality(Held) <= MaxConcurrency /\ MaxConcurrency \in Nat
    BY HeldIsCounted, MaxConcurrencyAssumption DEF IInv, Ledger
  <2>3. Cardinality(Up) <= Cardinality(Held) /\ Cardinality(Up) \in Nat
    BY <2>1, <2>2, FS_Subset, FS_CardinalityType
  <2> QED BY <2>2, <2>3
<1> QED BY <1>1, Invariance, PTL

\* A target is not called while a call to it is under way or may be: the claim,
\* the sweep, and the index of sessions together leave it to one attempt.
THEOREM OneCallForAll == Spec => []OneCallAtATime
<1>1. IInv => OneCallAtATime
  <2> SUFFICES ASSUME IInv, NEW a \in Attempts, NEW b \in Attempts,
                      Placed(a), Placed(b), at[a].target = at[b].target
               PROVE  a = b
    BY DEF OneCallAtATime
  <2>1. Tied(at[a]) /\ Tied(at[b])
    BY DEF IInv, AllSound, Sound, IsPlaced, Placed, Tied
  <2> QED BY <2>1 DEF IInv, Sole, Speaks
<1> QED BY <1>1, Invariance, PTL

\* A target whose answer was recorded is not called again, in whatever order reply, answer
\* and hangup arrive, unless the sweep sends the target to be called again.
THEOREM AnsweredForAll == Spec => []AnsweredIsNotCalledAgain
<1>1. IInv => AnsweredIsNotCalledAgain
  <2> SUFFICES ASSUME IInv, NEW a \in Attempts, NEW b \in Attempts,
                      Answered(a), Placed(b), at[a].target = at[b].target,
                      at[a].target \notin swept
               PROVE  a = b
    BY DEF AnsweredIsNotCalledAgain
  <2>1. /\ Current(at[b]) /\ target[at[b].target] \in {"calling", "deleted"}
        /\ at[a].rec = "ended_answered" => target[at[a].target] = "completed"
    BY DEF IInv, Settled, Placed, IsPlaced, Current
  <2>2. at[a].rec = "answered"
    BY <2>1 DEF Answered
  <2>3. Current(at[a])
    BY <2>2 DEF Current, IsOpen
  <2> QED BY <2>1, <2>3 DEF IInv, Settled
<1> QED BY <1>1, Invariance, PTL
=============================================================================
