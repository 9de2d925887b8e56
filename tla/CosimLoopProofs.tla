-------------------------- MODULE CosimLoopProofs --------------------------
(***************************************************************************)
(* What holds of the calls into the C++ layer for any number of harts, any *)
(* instructions and any accesses.                                          *)
(*                                                                         *)
(* LoopInv is inductive.  Its part MessagesAreOfStep says that messages    *)
(* exist only between a failed step and the call that clears them; its     *)
(* part HartsOK, that outside NMI mode the trap CSRs never describe an     *)
(* NMI, and that no call leaves an NMI pending in the hart.  Every call    *)
(* acts on one hart only (OnlyHart).                                       *)
(***************************************************************************)
EXTENDS CosimLoop, WellFoundedInduction, SequenceTheorems, TLAPS

NmiTraps == {"nmi", "nmi_int"}

\* A hart and what the layer keeps for it.
ThreadOK(ts, h) ==
  /\ ts \in PerThreadState /\ h \in Hart
  /\ h.nmi = "none"
  /\ IF ts.nmi_mode THEN ts.mstack \notin NmiTraps ELSE h.trap \notin NmiTraps

HartsOK ==
  /\ thread_state \in [Threads -> PerThreadState]
  /\ hart \in [Threads -> Hart]
  /\ DOMAIN pending_dside_accesses = Threads
  /\ \A t \in Threads : ThreadOK(thread_state[t], hart[t])

MessagesAreOfStep == errors = 0 \/ todo = OnFailure

LoopInv ==
  /\ HartsOK
  /\ MessagesAreOfStep
  /\ prev_mip \in [Threads -> SUBSET Irqs]
  /\ todo # <<>> => item \in Items

\* A step that keeps HartsOK and changes nothing of a hart but t.
OnlyHart(t) ==
  /\ HartsOK'
  /\ \A u \in Threads \ {t} :
       /\ thread_state'[u] = thread_state[u]
       /\ pending_dside_accesses'[u] = pending_dside_accesses[u]
       /\ hart'[u] = hart[u]

-----------------------------------------------------------------------------
(* Folds.                                                                  *)

\* Induction over the natural numbers, for a set instead of a formula.
LEMMA NatInduct ==
  ASSUME NEW P, 0 \in P, \A n \in Nat : n \in P => n + 1 \in P
  PROVE  Nat \subseteq P
<1> DEFINE R == {ss \in Nat \X Nat : ss[1] < ss[2]}
           Out == Nat \ P
<1>1. OpToRel(<, Nat) = R
  BY Zenon DEF OpToRel
<1>2. IsWellFoundedOn(R, Nat)
  BY <1>1, NatLessThanWellFounded
<1>3. SUFFICES ASSUME Out # {} PROVE FALSE
  OBVIOUS
<1>4. \E n \in Out : \A k \in Out : <<k, n>> \notin R
  <2>1. Out \subseteq Nat
    OBVIOUS
  <2> HIDE DEF R, Out
  <2> QED BY <1>2, <1>3, <2>1, WFMin
<1>5. PICK n \in Out : \A k \in Out : <<k, n>> \notin R
  BY <1>4
<1>6. n \in Nat \ {0} /\ n \notin P
  OBVIOUS
<1>7. n - 1 \in Nat /\ <<n - 1, n>> \in R /\ (n - 1) + 1 = n
  BY <1>6
<1>8. n - 1 \in P
  BY <1>5, <1>7
<1> QED BY <1>6, <1>7, <1>8

\* FoldLeft takes the places of a sequence by their maximum.
LEMMA MaxOfRange ==
  ASSUME NEW n \in Nat \ {0}
  PROVE  Max(1..n) = n /\ (1..n) \ {n} = 1..(n - 1) /\ 1..n # {}
<1>1. n \in 1..n /\ \A y \in 1..n : n >= y
  OBVIOUS
<1>2. \A x \in 1..n : (\A y \in 1..n : x >= y) => x = n
  BY <1>1
<1>3. Max(1..n) = n
  BY <1>1, <1>2 DEF Max
<1> QED BY <1>1, <1>3

LEMMA MaxOfPart ==
  ASSUME NEW n \in Nat, NEW s \in SUBSET (1..(n + 1)), n + 1 \in s
  PROVE  Max(s) = n + 1 /\ s \ {n + 1} \in SUBSET (1..n)
<1>1. \A y \in s : n + 1 >= y
  OBVIOUS
<1>2. \A x \in s : (\A y \in s : x >= y) => x = n + 1
  BY <1>1
<1>3. Max(s) = n + 1
  BY <1>1, <1>2 DEF Max
<1> QED BY <1>3

\* `it` is the function that FoldLeft evaluates, on the parts of 1..n, for an
\* operation given as a function.
Folds(it, F, base, seq, n) ==
  \A s \in SUBSET (1..n) :
    it[s] = IF s = {} THEN base ELSE F[<<it[s \ {Max(s)}], seq[Max(s)]>>]

HasFold(D, F, base, seq, n) ==
  \E it \in [SUBSET (1..n) -> D] : Folds(it, F, base, seq, n)

\* There is such a function for every sequence.
LEMMA FoldExists ==
  ASSUME NEW D, NEW E, NEW F \in [D \X E -> D], NEW base \in D, NEW seq \in Seq(E)
  PROVE  HasFold(D, F, base, seq, Len(seq))
<1> DEFINE P == {n \in Nat : n <= Len(seq) => HasFold(D, F, base, seq, n)}
<1>0. Len(seq) \in Nat
  OBVIOUS
<1>1. 0 \in P
  <2>0. SUFFICES HasFold(D, F, base, seq, 0)
    OBVIOUS
  <2> DEFINE it == [s \in SUBSET (1..0) |-> base]
  <2>1. it \in [SUBSET (1..0) -> D]
    OBVIOUS
  <2>2. ASSUME NEW s \in SUBSET (1..0) PROVE s = {} /\ it[s] = base
    <3>1. \A x \in s : x \in 1..0
      OBVIOUS
    <3>2. s = {}
      BY <3>1
    <3> QED BY <3>2
  <2> HIDE DEF it
  <2>3. Folds(it, F, base, seq, 0)
    BY <2>2 DEF Folds
  <2> QED BY <2>1, <2>3 DEF HasFold
<1>2. ASSUME NEW n \in Nat, n \in P PROVE n + 1 \in P
  <2>1. SUFFICES ASSUME n + 1 <= Len(seq)
                 PROVE  HasFold(D, F, base, seq, n + 1)
    OBVIOUS
  <2>2. PICK g \in [SUBSET (1..n) -> D] : Folds(g, F, base, seq, n)
    <3>1. HasFold(D, F, base, seq, n)
      BY <1>0, <1>2, <2>1
    <3> QED BY <3>1 DEF HasFold
  <2>3. seq[n + 1] \in E
    BY <2>1
  <2> HIDE DEF P
  <2> DEFINE it == [s \in SUBSET (1..(n + 1)) |->
                      IF n + 1 \in s THEN F[<<g[s \ {n + 1}], seq[n + 1]>>] ELSE g[s]]
  <2>4. ASSUME NEW s \in SUBSET (1..(n + 1)), n + 1 \in s
        PROVE  /\ Max(s) = n + 1 /\ s # {} /\ it[s \ {n + 1}] = g[s \ {n + 1}]
               /\ it[s] = F[<<g[s \ {n + 1}], seq[n + 1]>>] /\ it[s] \in D
    <3>1. Max(s) = n + 1 /\ s \ {n + 1} \in SUBSET (1..n)
      BY <2>4, MaxOfPart
    <3>2. s \ {n + 1} \in SUBSET (1..(n + 1)) /\ n + 1 \notin s \ {n + 1}
      OBVIOUS
    <3>3. it[s \ {n + 1}] = g[s \ {n + 1}]
      BY <3>2
    <3>4. g[s \ {n + 1}] \in D
      BY <3>1
    <3>5. it[s] = F[<<g[s \ {n + 1}], seq[n + 1]>>]
      BY <2>4
    <3> HIDE DEF it
    <3> QED BY <2>3, <2>4, <3>1, <3>3, <3>4, <3>5
  <2>5. ASSUME NEW s \in SUBSET (1..(n + 1)), n + 1 \notin s
        PROVE  /\ it[s] = g[s] /\ s \in SUBSET (1..n) /\ it[s] \in D
               /\ s # {} => it[s \ {Max(s)}] = g[s \ {Max(s)}]
    <3>1. \A x \in s : x \in 1..n
      BY <2>5
    <3>2. s \in SUBSET (1..n)
      BY <3>1
    <3>3. s \ {Max(s)} \in SUBSET (1..(n + 1)) /\ n + 1 \notin s \ {Max(s)}
      BY <2>5
    <3> QED BY <2>5, <3>2, <3>3
  <2>6. it \in [SUBSET (1..(n + 1)) -> D]
    <3>1. \A s \in SUBSET (1..(n + 1)) : it[s] \in D
      BY <2>4, <2>5
    <3> QED BY <3>1
  <2> HIDE DEF it
  <2>7. Folds(it, F, base, seq, n + 1)
    <3>1. ASSUME NEW s \in SUBSET (1..(n + 1))
          PROVE  it[s] = IF s = {} THEN base ELSE F[<<it[s \ {Max(s)}], seq[Max(s)]>>]
      <4>1. CASE n + 1 \in s
        BY <4>1, <2>4
      <4>2. CASE n + 1 \notin s
        <5>1. g[s] = IF s = {} THEN base ELSE F[<<g[s \ {Max(s)}], seq[Max(s)]>>]
          BY <2>2, <2>5, <4>2 DEF Folds
        <5> QED BY <2>5, <4>2, <5>1
      <4> QED BY <4>1, <4>2
    <3> QED BY <3>1 DEF Folds
  <2> QED BY <2>6, <2>7 DEF HasFold
<1>3. Nat \subseteq P
  <2> HIDE DEF P
  <2> QED BY <1>1, <1>2, NatInduct
<1> QED BY <1>0, <1>3

\* A part of 1..n has a maximum.
LEMMA MaxIsIn ==
  ASSUME NEW n \in Nat, NEW s \in SUBSET (1..n), s # {}
  PROVE  Max(s) \in s
<1> DEFINE P == {k \in Nat : \A t \in SUBSET (1..k) : t # {} => Max(t) \in t}
<1>1. 0 \in P
  <2>1. ASSUME NEW t \in SUBSET (1..0) PROVE t = {}
    <3>1. \A x \in t : x \in 1..0
      OBVIOUS
    <3> QED BY <3>1
  <2> QED BY <2>1
<1>2. ASSUME NEW k \in Nat, k \in P PROVE k + 1 \in P
  <2>1. ASSUME NEW t \in SUBSET (1..(k + 1)), t # {} PROVE Max(t) \in t
    <3>1. CASE k + 1 \in t
      BY <3>1, MaxOfPart
    <3>2. CASE k + 1 \notin t
      <4>1. \A x \in t : x \in 1..k
        BY <3>2
      <4>2. t \in SUBSET (1..k)
        BY <4>1
      <4> QED BY <1>2, <2>1, <4>2
    <3> QED BY <3>1, <3>2
  <2> QED BY <2>1
<1>3. Nat \subseteq P
  <2> HIDE DEF P
  <2> QED BY <1>1, <1>2, NatInduct
<1> QED BY <1>3

-----------------------------------------------------------------------------
(* The comparison of the accesses of an instruction, one after the other.  *)

CheckState == [q : Seq(DutAccess), bad : Nat]

\* What is left when accesses are erased is a queue.
LEMMA EraseTyped ==
  ASSUME NEW q \in Seq(DutAccess), q # <<>>, NEW a
  PROVE  Erase(q, a) \in Seq(DutAccess)
<1>1. CASE ~a.store /\ is_widened_load_pair(q)
  <2>1. Len(q) >= 2 /\ Len(q) \in Nat
    BY <1>1 DEF is_widened_load_pair
  <2>2. SubSeq(q, 3, Len(q)) \in Seq(DutAccess)
    BY <2>1, SubSeqProperties
  <2> QED BY <1>1, <2>2 DEF Erase
<1>2. CASE ~(~a.store /\ is_widened_load_pair(q))
  <2>1. Erase(q, a) = SubSeq(q, 1, 0) \o SubSeq(q, 2, Len(q))
    <3>1. Erase(q, a) = RemoveAt(q, 1)
      <4>1. PendingIndex(q, a) = 1
        BY <1>2 DEF PendingIndex
      <4> QED BY <1>2, <4>1 DEF Erase
    <3>2. 1 - 1 = 0 /\ 1 + 1 = 2
      OBVIOUS
    <3> QED BY <3>1, <3>2, Zenon DEF RemoveAt
  <2>2. Len(q) \in Nat /\ Len(q) >= 1
    OBVIOUS
  <2>3. SubSeq(q, 1, 0) \in Seq(DutAccess) /\ SubSeq(q, 2, Len(q)) \in Seq(DutAccess)
    BY <2>2, SubSeqProperties
  <2> QED BY <2>1, <2>3, ConcatProperties
<1> QED BY <1>1, <1>2

\* A comparison leaves a queue and a number of messages.
LEMMA CheckTyped ==
  ASSUME NEW s \in CheckState, NEW a
  PROVE  check_mem_access(s, a) \in CheckState
<1>1. CASE s.q = <<>>
  BY <1>1 DEF check_mem_access
<1>2. CASE s.q # <<>> /\ Agrees(s.q[PendingIndex(s.q, a)], a)
  <2>1. check_mem_access(s, a) = [s EXCEPT !.q = Erase(s.q, a)]
    BY <1>2 DEF check_mem_access
  <2>2. Erase(s.q, a) \in Seq(DutAccess)
    BY <1>2, EraseTyped DEF CheckState
  <2> QED BY <2>1, <2>2 DEF CheckState
<1>3. CASE s.q # <<>> /\ ~Agrees(s.q[PendingIndex(s.q, a)], a)
  <2>1. check_mem_access(s, a) = [s EXCEPT !.bad = @ + 1]
    BY <1>3 DEF check_mem_access
  <2> QED BY <2>1 DEF CheckState
<1> QED BY <1>1, <1>2, <1>3

\* CheckAll is the last of the states between which the comparisons lead.
LEMMA CheckAllSteps ==
  ASSUME NEW q \in Seq(DutAccess), NEW accs \in Seq(SpikeAccess)
  PROVE  \E f \in [0..Len(accs) -> CheckState] :
           /\ f[0] = [q |-> q, bad |-> 0]
           /\ \A n \in 1..Len(accs) : f[n] = check_mem_access(f[n - 1], accs[n])
           /\ CheckAll(q, accs) = f[Len(accs)]
<1> DEFINE base == [q |-> q, bad |-> 0]
           N == Len(accs)
           F == [d \in CheckState \X SpikeAccess |-> check_mem_access(d[1], d[2])]
           Sol(it) == it = [s \in SUBSET DOMAIN accs |->
                              IF s = {} THEN base
                              ELSE check_mem_access(it[s \ {Max(s)}], accs[Max(s)])]
<1>1. base \in CheckState /\ N \in Nat /\ DOMAIN accs = 1..N
      /\ \A n \in 1..N : accs[n] \in SpikeAccess
  BY DEF CheckState
<1>2. F \in [CheckState \X SpikeAccess -> CheckState]
  BY CheckTyped
<1>3. ASSUME NEW s \in CheckState, NEW a \in SpikeAccess
      PROVE  F[<<s, a>>] = check_mem_access(s, a)
  OBVIOUS
<1> HIDE DEF base, N, F
<1>4. PICK g \in [SUBSET (1..N) -> CheckState] : Folds(g, F, base, accs, N)
  <2>1. HasFold(CheckState, F, base, accs, Len(accs))
    BY <1>1, <1>2, FoldExists
  <2> QED BY <2>1 DEF HasFold, N
<1>5. Sol(g)
  <2>1. ASSUME NEW s \in SUBSET (1..N)
        PROVE  g[s] = IF s = {} THEN base
                      ELSE check_mem_access(g[s \ {Max(s)}], accs[Max(s)])
    <3>1. CASE s = {}
      BY <1>4, <3>1 DEF Folds
    <3>2. CASE s # {}
      <4>1. Max(s) \in 1..N
        BY <1>1, <3>2, MaxIsIn
      <4>2. g[s \ {Max(s)}] \in CheckState /\ accs[Max(s)] \in SpikeAccess
        BY <1>1, <4>1
      <4>3. g[s] = F[<<g[s \ {Max(s)}], accs[Max(s)]>>]
        BY <1>4, <3>2 DEF Folds
      <4> QED BY <1>3, <3>2, <4>2, <4>3
    <3> QED BY <3>1, <3>2
  <2> QED BY <1>1, <2>1
<1> DEFINE it == CHOOSE it : Sol(it)
           f == [n \in 0..N |-> it[1..n]]
<1>6. Sol(it)
  <2> HIDE DEF Sol
  <2> QED BY Zenon, <1>5
<1>7. CheckAll(q, accs) = it[DOMAIN accs]
  BY DEF CheckAll, FoldLeft, MapThenFoldSet, base
<1>8. \A s \in SUBSET (1..N) :
        it[s] = IF s = {} THEN base ELSE check_mem_access(it[s \ {Max(s)}], accs[Max(s)])
  <2> HIDE DEF it
  <2> QED BY <1>1, <1>6
<1> HIDE DEF it, Sol
<1>9. f[0] = base
  <2>1. 1..0 = {} /\ 1..0 \in SUBSET (1..N)
    BY <1>1
  <2>2. f[0] = it[1..0]
    BY <1>1
  <2> QED BY <1>8, <2>1, <2>2
<1>10. ASSUME NEW n \in 1..N PROVE f[n] = check_mem_access(f[n - 1], accs[n])
  <2>1. f[n] = it[1..n] /\ f[n - 1] = it[1..(n - 1)] /\ n \in Nat \ {0}
    BY <1>1
  <2>2. 1..n \in SUBSET (1..N)
    BY <1>1
  <2>3. Max(1..n) = n /\ (1..n) \ {n} = 1..(n - 1) /\ 1..n # {}
    BY <2>1, MaxOfRange
  <2> HIDE DEF f
  <2> QED BY <1>8, <2>1, <2>2, <2>3
<1> HIDE DEF f
<1>11. ASSUME NEW n \in 0..N PROVE f[n] \in CheckState
  <2> DEFINE P == {k \in Nat : k <= N => f[k] \in CheckState}
  <2>1. 0 \in P
    BY <1>1, <1>9
  <2>2. ASSUME NEW k \in Nat, k \in P PROVE k + 1 \in P
    <3>1. SUFFICES ASSUME k + 1 <= N PROVE f[k + 1] \in CheckState
      OBVIOUS
    <3>2. k + 1 \in 1..N /\ (k + 1) - 1 = k /\ f[k] \in CheckState
      BY <1>1, <2>2, <3>1
    <3> QED BY <1>10, <3>2, CheckTyped
  <2>3. Nat \subseteq P
    <3> HIDE DEF P
    <3> QED BY <2>1, <2>2, NatInduct
  <2> QED BY <1>1, <2>3
<1>12. f \in [0..N -> CheckState]
  BY <1>11 DEF f
<1>13. CheckAll(q, accs) = f[N]
  BY <1>1, <1>7 DEF f
<1> QED BY <1>9, <1>10, <1>12, <1>13 DEF N, base

\* What is left of a queue without its errors is a queue.
LEMMA KeptTyped ==
  ASSUME NEW q \in Seq(DutAccess)
  PROVE  FoldLeft(KeepUnfailed, <<>>, q) \in Seq(DutAccess)
<1> DEFINE D == Seq(DutAccess)
           N == Len(q)
           F == [d \in D \X DutAccess |-> KeepUnfailed(d[1], d[2])]
           Sol(it) == it = [s \in SUBSET DOMAIN q |->
                              IF s = {} THEN <<>>
                              ELSE KeepUnfailed(it[s \ {Max(s)}], q[Max(s)])]
<1>1. <<>> \in D /\ N \in Nat /\ DOMAIN q = 1..N /\ \A n \in 1..N : q[n] \in DutAccess
  OBVIOUS
<1>2. ASSUME NEW s \in D, NEW p \in DutAccess
      PROVE  KeepUnfailed(s, p) \in D
  BY AppendProperties DEF KeepUnfailed
<1>3. F \in [D \X DutAccess -> D]
  <2> HIDE DEF D
  <2> QED BY <1>2
<1>4. ASSUME NEW s \in D, NEW p \in DutAccess
      PROVE  F[<<s, p>>] = KeepUnfailed(s, p)
  OBVIOUS
<1>d. q \in Seq(DutAccess) /\ D = Seq(DutAccess)
  OBVIOUS
<1> HIDE DEF D, N, F
<1>5. PICK g \in [SUBSET (1..N) -> D] : Folds(g, F, <<>>, q, N)
  <2>1. HasFold(D, F, <<>>, q, Len(q))
    BY <1>1, <1>3, FoldExists
  <2> QED BY <2>1 DEF HasFold, N
<1>6. Sol(g)
  <2>1. ASSUME NEW s \in SUBSET (1..N)
        PROVE  g[s] = IF s = {} THEN <<>>
                      ELSE KeepUnfailed(g[s \ {Max(s)}], q[Max(s)])
    <3>1. CASE s = {}
      BY <1>5, <3>1 DEF Folds
    <3>2. CASE s # {}
      <4>1. Max(s) \in 1..N
        BY <1>1, <3>2, MaxIsIn
      <4>2. g[s \ {Max(s)}] \in D /\ q[Max(s)] \in DutAccess
        BY <1>1, <4>1
      <4>3. g[s] = F[<<g[s \ {Max(s)}], q[Max(s)]>>]
        BY <1>5, <3>2 DEF Folds
      <4> QED BY <1>4, <3>2, <4>2, <4>3
    <3> QED BY <3>1, <3>2
  <2> QED BY <1>1, <2>1
<1> DEFINE it == CHOOSE it : Sol(it)
<1>7. Sol(it)
  <2> HIDE DEF Sol
  <2> QED BY Zenon, <1>6
<1>8. FoldLeft(KeepUnfailed, <<>>, q) = it[DOMAIN q]
  BY DEF FoldLeft, MapThenFoldSet
<1>9. \A s \in SUBSET (1..N) :
        it[s] = IF s = {} THEN <<>> ELSE KeepUnfailed(it[s \ {Max(s)}], q[Max(s)])
  <2> HIDE DEF it
  <2> QED BY <1>1, <1>7
<1> HIDE DEF it, Sol
<1> DEFINE P == {k \in Nat : k <= N => it[1..k] \in D}
<1>10. 0 \in P
  <2>1. 1..0 = {} /\ 1..0 \in SUBSET (1..N)
    BY <1>1
  <2>2. it[1..0] = <<>>
    BY <1>9, <2>1
  <2> QED BY <1>1, <2>2
<1>11. ASSUME NEW k \in Nat, k \in P PROVE k + 1 \in P
  <2>1. SUFFICES ASSUME k + 1 <= N PROVE it[1..(k + 1)] \in D
    OBVIOUS
  <2>2. k + 1 \in 1..N /\ (k + 1) - 1 = k /\ it[1..k] \in D /\ k + 1 \in Nat \ {0}
    BY <1>1, <1>11, <2>1
  <2> HIDE DEF P
  <2>3. Max(1..(k + 1)) = k + 1 /\ (1..(k + 1)) \ {k + 1} = 1..k /\ 1..(k + 1) # {}
    BY <2>2, MaxOfRange
  <2>4. 1..(k + 1) \in SUBSET (1..N)
    BY <1>1, <2>2
  <2>5. it[1..(k + 1)] = KeepUnfailed(it[1..k], q[k + 1])
    BY <1>9, <2>3, <2>4
  <2> QED BY <1>1, <1>2, <2>2, <2>5
<1>12. Nat \subseteq P
  <2> HIDE DEF P
  <2> QED BY <1>10, <1>11, NatInduct
<1> QED BY <1>1, <1>8, <1>12 DEF D

-----------------------------------------------------------------------------
(* The operators on one hart.                                              *)

\* Taking an interrupt consumes the NMI that asked for it.
LEMMA TakeInterruptTyped ==
  ASSUME NEW h \in Hart
  PROVE  /\ TakeInterrupt(h) \in Hart
         /\ TakeInterrupt(h).nmi = "none"
         /\ TakeInterrupt(h).trap = IF h.nmi = "none" THEN "irq" ELSE h.nmi
BY DEF TakeInterrupt, Hart, Traps

\* An instruction starts without an NMI pending, and with the trap state it
\* had or that of an interrupt.
LEMMA StartOfInsnTyped ==
  ASSUME NEW t, hart[t] \in Hart, hart[t].nmi = "none"
  PROVE  /\ StartOfInsn(t) \in Hart
         /\ StartOfInsn(t).nmi = "none"
         /\ StartOfInsn(t).trap \in {hart[t].trap, "irq"}
BY TakeInterruptTyped DEF StartOfInsn

\* Entering debug mode changes neither the trap state nor a pending NMI.
LEMMA EnterDebugTyped ==
  ASSUME NEW h \in Hart
  PROVE  /\ EnterDebug(h) \in Hart
         /\ EnterDebug(h).nmi = h.nmi /\ EnterDebug(h).trap = h.trap
BY DEF EnterDebug, Hart

\* A trap records its cause, or nothing in debug mode.
LEMMA TakeTrapTyped ==
  ASSUME NEW h \in Hart, NEW cause \in {"fault", "other"}
  PROVE  /\ TakeTrap(h, cause) \in Hart
         /\ TakeTrap(h, cause).nmi = h.nmi
         /\ TakeTrap(h, cause).trap \in {h.trap, cause}
<1> DEFINE d == EnterDebug(h)
<1>1. d \in Hart /\ d.nmi = h.nmi /\ d.trap = h.trap
  BY EnterDebugTyped
<1> HIDE DEF d
<1>2. [d EXCEPT !.trap = cause, !.mie_on = FALSE] \in Hart
  BY <1>1 DEF Hart, Traps
<1>3. TakeTrap(h, cause) \in {d, [d EXCEPT !.trap = cause, !.mie_on = FALSE]}
  BY DEF TakeTrap, d
<1>4. QED BY <1>1, <1>2, <1>3 DEF Hart

\* A retired instruction keeps the trap state or overwrites it.
LEMMA RetireTyped ==
  ASSUME NEW h \in Hart, NEW insn \in Insns, NEW r \in Retire(h, insn)
  PROVE  /\ r \in Hart
         /\ r.nmi = h.nmi
         /\ r.trap \in {h.trap, "none"}
<1> DEFINE d == EnterDebug(h)
<1>1. d \in Hart /\ d.nmi = h.nmi /\ d.trap = h.trap
  BY EnterDebugTyped
<1> HIDE DEF d
<1>2. CASE insn = "mret"
  <2>1. PICK on \in BOOLEAN : r = [d EXCEPT !.mie_on = on]
    BY <1>2 DEF Retire, d
  <2>2. QED BY <1>1, <2>1 DEF Hart
<1>3. CASE insn = "dret"
  <2>1. r = [d EXCEPT !.debug_mode = FALSE]
    BY <1>3 DEF Retire, d
  <2>2. QED BY <1>1, <2>1 DEF Hart
<1>4. CASE insn = "csr"
  <2>1. \/ \E on \in BOOLEAN : r = [d EXCEPT !.mie_on = on]
        \/ \E lines \in SUBSET Irqs : r = [d EXCEPT !.mie = lines]
        \/ r = [d EXCEPT !.trap = "none"]
    BY <1>4 DEF Retire, d
  <2>2. QED BY <1>1, <2>1 DEF Hart, Traps
<1>5. CASE insn \notin {"mret", "dret", "csr"}
  <2>0. Retire(h, insn) = {d}
    BY <1>5 DEF Retire, d
  <2>1. r = d
    BY <2>0
  <2>2. QED BY <1>1, <2>1
<1>6. QED BY <1>2, <1>3, <1>4, <1>5

-----------------------------------------------------------------------------
(* The calls.                                                              *)

\* A call that replaces the record of one hart, and what the layer keeps for
\* it, by records that fit together.
LEMMA OneHartChanges ==
  ASSUME HartsOK, NEW t \in Threads, NEW ts, NEW h, ThreadOK(ts, h),
         thread_state' = [thread_state EXCEPT ![t] = ts],
         hart' = [hart EXCEPT ![t] = h],
         DOMAIN pending_dside_accesses' = Threads,
         \A u \in Threads \ {t} :
           pending_dside_accesses'[u] = pending_dside_accesses[u]
  PROVE  OnlyHart(t)
<1>1. ts \in PerThreadState /\ h \in Hart
  BY DEF ThreadOK
<1>2. /\ thread_state' \in [Threads -> PerThreadState]
      /\ hart' \in [Threads -> Hart]
  BY <1>1 DEF HartsOK
<1>3. /\ thread_state'[t] = ts /\ hart'[t] = h
      /\ \A u \in Threads \ {t} : /\ thread_state'[u] = thread_state[u]
                                  /\ hart'[u] = hart[u]
  BY DEF HartsOK
<1>4. ASSUME NEW u \in Threads PROVE ThreadOK(thread_state'[u], hart'[u])
  <2>1. CASE u = t
    BY <1>3, <2>1
  <2>2. CASE u # t
    <3>1. ThreadOK(thread_state[u], hart[u])
      BY DEF HartsOK
    <3>2. thread_state'[u] = thread_state[u] /\ hart'[u] = hart[u]
      BY <1>3, <2>2
    <3>3. QED BY <3>1, <3>2
  <2>3. QED BY <2>1, <2>2
<1>5. QED BY <1>2, <1>3, <1>4 DEF OnlyHart, HartsOK

\* A call that leaves the harts and what the layer keeps for them alone.
LEMMA NoHartChanges ==
  ASSUME HartsOK, NEW t \in Threads,
         UNCHANGED <<thread_state, hart, pending_dside_accesses>>
  PROVE  OnlyHart(t)
BY DEF OnlyHart, HartsOK, ThreadOK

\* A notified access goes to the queue of its hart.
LEMMA NotifyOnlyHart ==
  ASSUME HartsOK, NEW t \in Threads, NEW access,
         notify_dside_access(t, access)
  PROVE  OnlyHart(t)
BY DEF notify_dside_access, OnlyHart, HartsOK, ThreadOK

\* A debug request changes the hart it is for.
LEMMA DebugReqOnlyHart ==
  ASSUME HartsOK, NEW t \in Threads, NEW debug_req \in BOOLEAN,
         set_debug_req(t, debug_req)
  PROVE  OnlyHart(t)
<1> DEFINE h == [hart[t] EXCEPT !.halt_request = debug_req]
<1>1. thread_state[t] \in PerThreadState /\ hart[t] \in Hart
      /\ ThreadOK(thread_state[t], hart[t])
  BY DEF HartsOK
<1>2. ThreadOK(thread_state[t], h)
  BY <1>1 DEF ThreadOK, Hart
<1>3. thread_state' = [thread_state EXCEPT ![t] = thread_state[t]]
      /\ hart' = [hart EXCEPT ![t] = h]
  BY DEF set_debug_req, HartsOK
<1>4. DOMAIN pending_dside_accesses' = Threads
      /\ UNCHANGED pending_dside_accesses
  BY DEF set_debug_req, HartsOK
<1> HIDE DEF h
<1>5. QED BY <1>2, <1>3, <1>4, OneHartChanges

\* An NMI is taken at once, so it adds no message and leaves none pending; the
\* state it saves is not that of an NMI.
LEMMA SetNmiOnlyHart ==
  ASSUME HartsOK, NEW t \in Threads, NEW pin, NEW flag \in NmiTraps,
         set_nmi(t, pin, flag)
  PROVE  OnlyHart(t) /\ errors' = errors
<1>1. CASE ~EntersNmi(t, pin)
  <2>1. UNCHANGED spike_vars
    BY <1>1 DEF set_nmi
  <2>2. QED BY <2>1, NoHartChanges DEF spike_vars
<1>2. CASE EntersNmi(t, pin)
  <2> DEFINE ts == [thread_state[t] EXCEPT !.nmi_mode = TRUE,
                                           !.mstack = hart[t].trap]
             asked == [hart[t] EXCEPT !.nmi = flag]
  <2>1. /\ thread_state[t] \in PerThreadState /\ hart[t] \in Hart
        /\ hart[t].trap \notin NmiTraps
        /\ ~Stopped(hart[t])
    BY <1>2 DEF HartsOK, ThreadOK, EntersNmi
  <2>2. asked \in Hart /\ asked.nmi = flag /\ flag # "none"
        /\ asked.debug_mode = hart[t].debug_mode
        /\ asked.halt_request = hart[t].halt_request
    BY <2>1 DEF Hart, NmiTraps
  <2>3. Interrupted(asked)
    BY <2>1, <2>2 DEF Interrupted, Stopped
  <2>4. /\ thread_state' = [thread_state EXCEPT ![t] = ts]
        /\ early_interrupt_handle(t, asked)
    BY <1>2 DEF set_nmi, HartsOK
  <2>5. ts \in PerThreadState /\ ts.nmi_mode /\ ts.mstack = hart[t].trap
    BY <2>1 DEF PerThreadState, Hart
  <2> HIDE DEF ts, asked
  <2>6. /\ hart' = [hart EXCEPT ![t] = TakeInterrupt(asked)]
        /\ errors' = errors /\ UNCHANGED pending_dside_accesses
    BY <2>3, <2>4 DEF early_interrupt_handle
  <2>7. ThreadOK(ts, TakeInterrupt(asked))
    BY <2>1, <2>2, <2>5, TakeInterruptTyped DEF ThreadOK
  <2>8. QED BY <2>4, <2>6, <2>7, OneHartChanges DEF HartsOK
<1>3. QED BY <1>1, <1>2

\* A new enabled interrupt is taken at once, so it adds no message.
LEMMA SetMipOnlyHart ==
  ASSUME HartsOK, NEW t \in Threads, NEW pre \in SUBSET Irqs,
         NEW post \in SUBSET Irqs, set_mip(t, pre, post)
  PROVE  OnlyHart(t) /\ errors' = errors
<1> DEFINE h == [hart[t] EXCEPT !.mip = post, !.pre_mip = pre]
           early == /\ ~Stopped(h) /\ h.mie_on
                    /\ hart[t].mip \cap h.mie = {} /\ pre \cap h.mie # {}
<1>1. /\ thread_state[t] \in PerThreadState /\ hart[t] \in Hart
      /\ ThreadOK(thread_state[t], hart[t])
  BY DEF HartsOK
<1>2. /\ h \in Hart /\ h.nmi = "none" /\ h.trap = hart[t].trap
      /\ h.pre_mip = pre
  BY <1>1 DEF ThreadOK, Hart
<1>3. /\ UNCHANGED <<thread_state, pending_dside_accesses>>
      /\ IF early THEN early_interrupt_handle(t, h)
         ELSE hart' = [hart EXCEPT ![t] = h] /\ errors' = errors
  BY DEF set_mip, early_interrupt_handle
<1>4. early => Interrupted(h)
  BY <1>2 DEF Interrupted
<1> HIDE DEF h
<1>5. thread_state' = [thread_state EXCEPT ![t] = thread_state[t]]
  BY <1>3 DEF HartsOK
<1>6. CASE early
  <2>1. hart' = [hart EXCEPT ![t] = TakeInterrupt(h)] /\ errors' = errors
    BY <1>3, <1>4, <1>6 DEF early_interrupt_handle
  <2>2. ThreadOK(thread_state[t], TakeInterrupt(h))
    BY <1>1, <1>2, TakeInterruptTyped DEF ThreadOK, NmiTraps
  <2> HIDE DEF early
  <2>3. QED BY <1>3, <1>5, <2>1, <2>2, OneHartChanges DEF HartsOK
<1>7. CASE ~early
  <2>1. hart' = [hart EXCEPT ![t] = h] /\ errors' = errors
    BY <1>3, <1>7
  <2>2. ThreadOK(thread_state[t], h)
    BY <1>1, <1>2 DEF ThreadOK
  <2> HIDE DEF early
  <2>3. QED BY <1>3, <1>5, <2>1, <2>2, OneHartChanges DEF HartsOK
<1> HIDE DEF early
<1>8. QED BY <1>6, <1>7

\* A fetch error is kept for the hart it is for.
LEMMA IsideErrorOnlyHart ==
  ASSUME HartsOK, NEW t \in Threads, set_iside_error(t)
  PROVE  OnlyHart(t)
<1> DEFINE ts == [thread_state[t] EXCEPT !.pending_iside_error = TRUE]
<1>1. thread_state[t] \in PerThreadState /\ hart[t] \in Hart
      /\ ThreadOK(thread_state[t], hart[t])
  BY DEF HartsOK
<1>2. ThreadOK(ts, hart[t])
  BY <1>1 DEF ThreadOK, PerThreadState
<1>3. /\ thread_state' = [thread_state EXCEPT ![t] = ts]
      /\ hart' = [hart EXCEPT ![t] = hart[t]]
      /\ UNCHANGED pending_dside_accesses
  BY DEF set_iside_error, HartsOK
<1> HIDE DEF ts
<1>4. QED BY <1>2, <1>3, OneHartChanges DEF HartsOK

\* The callbacks of a step work on the hart of the step.
LEMMA CallbacksOnlyHart ==
  ASSUME HartsOK, NEW t \in Threads, NEW e \in Event
  PROVE  \E ts \in PerThreadState :
           /\ ThreadAfter(t, e) = [thread_state EXCEPT ![t] = ts]
           /\ ts.nmi_mode = thread_state[t].nmi_mode
           /\ ts.mstack = thread_state[t].mstack
<1> DEFINE ts == [thread_state[t] EXCEPT
                    !.pending_iside_error = @ /\ ~e.iside_hit]
<1>1. thread_state[t] \in PerThreadState /\ e.iside_hit \in BOOLEAN
  BY DEF HartsOK, Event
<1>2. /\ ts \in PerThreadState
      /\ ts.nmi_mode = thread_state[t].nmi_mode
      /\ ts.mstack = thread_state[t].mstack
  BY <1>1 DEF PerThreadState
<1>3. ThreadAfter(t, e) = [thread_state EXCEPT ![t] = ts]
  BY DEF ThreadAfter, Active, HartsOK
<1> HIDE DEF ts
<1>4. QED BY <1>2, <1>3

\* The accesses a step leaves are those of the other harts untouched.
LEMMA PendingOnlyHart ==
  ASSUME HartsOK, NEW t \in Threads, NEW e
  PROVE  /\ DOMAIN PendingAfter(t, e) = Threads
         /\ \A u \in Threads \ {t} :
              PendingAfter(t, e)[u] = pending_dside_accesses[u]
BY DEF PendingAfter, Active, HartsOK

\* A step that refuses to run, or compares an ebreak into debug mode.
LEMMA NotExecutedOnlyHart ==
  ASSUME HartsOK, errors = 0, NEW t \in Threads, NEW i, NEW result \in BOOLEAN,
         check_debug_ebreak(t, i, result) \/ step_refused(i, result)
  PROVE  OnlyHart(t) /\ (result => errors' = 0)
<1>1. CASE step_refused(i, result)
  BY <1>1, NoHartChanges DEF step_refused
<1>2. CASE check_debug_ebreak(t, i, result)
  <2>1. PICK pc_ok \in BOOLEAN : hart' = [hart EXCEPT ![t].at_ebreak = pc_ok]
    BY <1>2 DEF check_debug_ebreak
  <2> DEFINE h == [hart[t] EXCEPT !.at_ebreak = pc_ok]
  <2>2. thread_state[t] \in PerThreadState /\ hart[t] \in Hart
        /\ ThreadOK(thread_state[t], hart[t])
    BY DEF HartsOK
  <2>3. ThreadOK(thread_state[t], h)
    BY <2>2 DEF ThreadOK, Hart
  <2>4. /\ thread_state' = [thread_state EXCEPT ![t] = thread_state[t]]
        /\ hart' = [hart EXCEPT ![t] = h]
        /\ UNCHANGED pending_dside_accesses
        /\ result => errors' = 0
    BY <1>2, <2>1 DEF check_debug_ebreak, HartsOK
  <2> HIDE DEF h
  <2>5. QED BY <2>3, <2>4, OneHartChanges DEF HartsOK
<1>3. QED BY <1>1, <1>2

\* A step that ends in a C++ exception reports failure.
LEMMA ThrowOnlyHart ==
  ASSUME HartsOK, NEW t \in Threads, NEW i, NEW e \in Event,
         NEW result \in BOOLEAN, step_throws(t, i, e, result)
  PROVE  OnlyHart(t) /\ ~result
<1>1. PICK ts \in PerThreadState :
        /\ ThreadAfter(t, e) = [thread_state EXCEPT ![t] = ts]
        /\ ts.nmi_mode = thread_state[t].nmi_mode
        /\ ts.mstack = thread_state[t].mstack
  BY CallbacksOnlyHart
<1>2. ThreadOK(thread_state[t], hart[t])
  BY DEF HartsOK
<1>3. ThreadOK(ts, StartOfInsn(t))
  BY <1>1, <1>2, StartOfInsnTyped DEF ThreadOK, NmiTraps
<1>4. /\ thread_state' = [thread_state EXCEPT ![t] = ts]
      /\ hart' = [hart EXCEPT ![t] = StartOfInsn(t)]
      /\ pending_dside_accesses' = PendingAfter(t, e)
      /\ ~result
  BY <1>1 DEF step_throws
<1>5. QED BY <1>3, <1>4, PendingOnlyHart, OneHartChanges

\* A step that traps succeeds only without messages.
LEMMA TrapOnlyHart ==
  ASSUME HartsOK, NEW t \in Threads, NEW i, NEW e \in Event,
         NEW result \in BOOLEAN, step_traps(t, i, e, result)
  PROVE  OnlyHart(t) /\ (result => errors' = 0)
<1>1. PICK ts \in PerThreadState :
        /\ ThreadAfter(t, e) = [thread_state EXCEPT ![t] = ts]
        /\ ts.nmi_mode = thread_state[t].nmi_mode
        /\ ts.mstack = thread_state[t].mstack
  BY CallbacksOnlyHart
<1>2. ThreadOK(thread_state[t], hart[t])
  BY DEF HartsOK
<1> DEFINE s == StartOfInsn(t)
           h == TakeTrap(s, e.cause)
<1>3. s \in Hart /\ s.nmi = "none" /\ s.trap \in {hart[t].trap, "irq"}
  BY <1>2, StartOfInsnTyped DEF ThreadOK
<1>4. e.cause \in {"fault", "other"}
  BY DEF Event
<1> HIDE DEF s
<1>5. h \in Hart /\ h.nmi = "none" /\ h.trap \in {s.trap, e.cause}
  BY <1>3, <1>4, TakeTrapTyped
<1> HIDE DEF h
<1>6. ThreadOK(ts, h)
  BY <1>1, <1>2, <1>3, <1>4, <1>5 DEF ThreadOK, NmiTraps
<1>7. /\ thread_state' = [thread_state EXCEPT ![t] = ts]
      /\ hart' = [hart EXCEPT ![t] = h]
      /\ result => errors' = 0
  BY <1>1 DEF step_traps, h, s
<1>8. /\ DOMAIN pending_dside_accesses' = Threads
      /\ \A u \in Threads \ {t} :
           pending_dside_accesses'[u] = pending_dside_accesses[u]
  <2>1. PICK pmp \in BOOLEAN :
          pending_dside_accesses' =
            IF TrapAccepted(i, e)
            THEN [PendingAfter(t, e) EXCEPT ![t] = AfterTrap(@, h.trap, pmp)]
            ELSE PendingAfter(t, e)
    BY DEF step_traps, h, s
  <2>2. QED BY <2>1, PendingOnlyHart
<1>9. QED BY <1>6, <1>7, <1>8, OneHartChanges

\* A step that retires succeeds only without messages; an mret that leaves NMI
\* mode restores a state that is not that of an NMI.
LEMMA RetireOnlyHart ==
  ASSUME HartsOK, NEW t \in Threads, NEW i, NEW e \in Event,
         NEW result \in BOOLEAN, step_retires(t, i, e, result)
  PROVE  OnlyHart(t) /\ (result => errors' = 0)
<1>1. PICK ts \in PerThreadState :
        /\ ThreadAfter(t, e) = [thread_state EXCEPT ![t] = ts]
        /\ ts.nmi_mode = thread_state[t].nmi_mode
        /\ ts.mstack = thread_state[t].mstack
  BY CallbacksOnlyHart
<1>2. ThreadOK(thread_state[t], hart[t])
  BY DEF HartsOK
<1> DEFINE s == StartOfInsn(t)
           left == [ts EXCEPT !.nmi_mode = @ /\ ~LeavesNmi(t, i),
                              !.pending_iside_error = FALSE]
<1>3. s \in Hart /\ s.nmi = "none" /\ s.trap \in {hart[t].trap, "irq"}
  BY <1>2, StartOfInsnTyped DEF ThreadOK
<1>4. e.insn \in Insns
  BY DEF Event
<1> HIDE DEF s
<1>5. PICK r \in Retire(s, e.insn) :
        hart' = [hart EXCEPT ![t] =
          IF LeavesNmi(t, i) THEN [r EXCEPT !.trap = thread_state[t].mstack]
          ELSE r]
  BY DEF step_retires, s
<1> DEFINE h == IF LeavesNmi(t, i)
                THEN [r EXCEPT !.trap = thread_state[t].mstack] ELSE r
<1>6. r \in Hart /\ r.nmi = "none" /\ r.trap \in {s.trap, "none"}
  BY <1>3, <1>4, <1>5, RetireTyped
<1>7. ThreadOK(left, h)
  <2>1. LeavesNmi(t, i) \in BOOLEAN
        /\ (LeavesNmi(t, i) => thread_state[t].nmi_mode)
    BY <1>2 DEF LeavesNmi, ThreadOK, PerThreadState
  <2>2. /\ left \in PerThreadState /\ left.mstack = thread_state[t].mstack
        /\ left.nmi_mode = (thread_state[t].nmi_mode /\ ~LeavesNmi(t, i))
    BY <1>1, <2>1 DEF PerThreadState
  <2>3. /\ thread_state[t].mstack \in Traps
        /\ thread_state[t].nmi_mode \in BOOLEAN
    BY <1>2 DEF ThreadOK, PerThreadState
  <2> HIDE DEF left
  <2>4. CASE LeavesNmi(t, i)
    <3>1. h = [r EXCEPT !.trap = thread_state[t].mstack]
      BY <2>4
    <3>2. h \in Hart /\ h.nmi = "none" /\ h.trap = thread_state[t].mstack
      BY <1>6, <2>3, <3>1 DEF Hart
    <3>3. thread_state[t].mstack \notin NmiTraps /\ ~left.nmi_mode
      BY <1>2, <2>1, <2>2, <2>4 DEF ThreadOK
    <3> HIDE DEF h
    <3>4. QED BY <2>2, <3>2, <3>3 DEF ThreadOK
  <2>5. CASE ~LeavesNmi(t, i)
    <3>1. h = r /\ left.nmi_mode = thread_state[t].nmi_mode
      BY <2>2, <2>3, <2>5
    <3>2. h.trap \in {hart[t].trap, "irq", "none"}
      BY <1>3, <1>6, <3>1
    <3> HIDE DEF h
    <3>3. QED BY <1>2, <1>6, <2>2, <3>1, <3>2 DEF ThreadOK, NmiTraps
  <2>6. QED BY <2>1, <2>4, <2>5
<1>8. /\ thread_state' = [thread_state EXCEPT ![t] = left]
      /\ hart' = [hart EXCEPT ![t] = h]
  <2>1. thread_state' = [ThreadAfter(t, e) EXCEPT
           ![t].nmi_mode = @ /\ ~LeavesNmi(t, i),
           ![t].pending_iside_error = FALSE]
    BY DEF step_retires
  <2>2. thread_state' = [thread_state EXCEPT ![t] = left]
    BY <1>1, <2>1 DEF HartsOK
  <2>3. QED BY <1>5, <2>2
<1>9. /\ pending_dside_accesses' = PendingAfter(t, e)
      /\ result => errors' = 0
  BY DEF step_retires
<1> HIDE DEF h, left
<1>10. QED BY <1>7, <1>8, <1>9, PendingOnlyHart, OneHartChanges

\* Whatever a step does.
LEMMA StepOnlyHart ==
  ASSUME HartsOK, errors = 0, NEW t \in Threads, NEW i, NEW e \in Event,
         NEW result \in BOOLEAN, step(t, i, e, result)
  PROVE  OnlyHart(t) /\ (result => errors' = 0)
BY NotExecutedOnlyHart, ThrowOnlyHart, TrapOnlyHart, RetireOnlyHart DEF step

-----------------------------------------------------------------------------
(* The invariant.                                                          *)

\* A call is under way only for an instruction of Items, and while one is, the
\* messages are those of a step that failed.
LEMMA ItemTyped ==
  ASSUME LoopInv, NEW op, Next_is(op)
  PROVE  /\ item \in Items /\ item.tid \in Threads
         /\ item.mip \in SUBSET Irqs /\ item.debug_req \in BOOLEAN
         /\ op # "clear_errors" => errors = 0
<1>1. todo # <<>> /\ Head(todo).op = op
  BY DEF Next_is
<1>2. item \in Items /\ item \in Item
  BY <1>1, LoopConstantsOK DEF LoopInv
<1>3. item.tid \in Threads /\ item.mip \in SUBSET Irqs
      /\ item.debug_req \in BOOLEAN
  BY <1>2 DEF Item
<1>4. todo = OnFailure => op = "clear_errors"
  BY <1>1 DEF OnFailure, Call
<1>5. QED BY <1>2, <1>3, <1>4 DEF LoopInv, MessagesAreOfStep

\* The calls of one instruction: a call acts on the hart of that instruction,
\* and leaves messages only when a step failed.
LEMMA CallsOnlyHart ==
  ASSUME LoopInv, ~AtRest, Next
  PROVE  OnlyHart(item.tid) /\ LoopInv'
<1> DEFINE t == item.tid
<1>h. HartsOK /\ prev_mip \in [Threads -> SUBSET Irqs]
  BY DEF LoopInv
<1>1. ASSUME NEW op, Next_is(op), op # "clear_errors", Made, OnlyHart(t),
             errors' = errors, prev_mip' \in [Threads -> SUBSET Irqs]
      PROVE  OnlyHart(item.tid) /\ LoopInv'
  <2>1. item \in Items /\ errors' = 0 /\ item' = item
    BY <1>1, ItemTyped DEF Made
  <2>2. HartsOK'
    BY <1>1 DEF OnlyHart
  <2>3. QED BY <1>1, <2>1, <2>2 DEF LoopInv, MessagesAreOfStep
<1>2. CASE CallNotify
  <2>1. Next_is("notify") /\ Made /\ UNCHANGED prev_mip
        /\ notify_dside_access(t, Head(todo).access)
    BY <1>2 DEF CallNotify
  <2>2. OnlyHart(t) /\ errors' = errors
    BY <1>h, <2>1, ItemTyped, NotifyOnlyHart DEF notify_dside_access
  <2>3. QED BY <1>h, <1>1, <2>1, <2>2
<1>3. CASE CallSetDebugReq
  <2>1. Next_is("set_debug_req") /\ Made /\ UNCHANGED prev_mip
        /\ set_debug_req(t, item.debug_req)
    BY <1>3 DEF CallSetDebugReq
  <2>2. OnlyHart(t) /\ errors' = errors
    BY <1>h, <2>1, ItemTyped, DebugReqOnlyHart DEF set_debug_req
  <2>3. QED BY <1>h, <1>1, <2>1, <2>2
<1>4. CASE CallSetNmi
  <2>1. Next_is("set_nmi") /\ Made /\ UNCHANGED prev_mip
        /\ set_nmi(t, item.nmi, "nmi")
    BY <1>4 DEF CallSetNmi
  <2>2. OnlyHart(t) /\ errors' = errors
    BY <1>h, <2>1, ItemTyped, SetNmiOnlyHart DEF NmiTraps
  <2>3. QED BY <1>h, <1>1, <2>1, <2>2
<1>5. CASE CallSetNmiInt
  <2>1. Next_is("set_nmi_int") /\ Made /\ UNCHANGED prev_mip
        /\ set_nmi(t, item.nmi_int, "nmi_int")
    BY <1>5 DEF CallSetNmiInt
  <2>2. OnlyHart(t) /\ errors' = errors
    BY <1>h, <2>1, ItemTyped, SetNmiOnlyHart DEF NmiTraps
  <2>3. QED BY <1>h, <1>1, <2>1, <2>2
<1>6. CASE CallSetMip
  <2>1. Next_is("set_mip") /\ Made
        /\ set_mip(t, prev_mip[t], item.mip)
        /\ prev_mip' = [prev_mip EXCEPT ![t] = item.mip]
    BY <1>6 DEF CallSetMip
  <2>2. t \in Threads /\ item.mip \in SUBSET Irqs /\ prev_mip[t] \in SUBSET Irqs
    BY <1>h, <2>1, ItemTyped
  <2>3. OnlyHart(t) /\ errors' = errors
    BY <1>h, <2>1, <2>2, SetMipOnlyHart
  <2>4. prev_mip' \in [Threads -> SUBSET Irqs]
    BY <1>h, <2>1, <2>2
  <2>5. QED BY <1>1, <2>1, <2>3, <2>4
<1>7. CASE CallSetIsideError
  <2>1. Next_is("set_iside_error") /\ Made /\ UNCHANGED prev_mip
        /\ set_iside_error(t)
    BY <1>7 DEF CallSetIsideError
  <2>2. OnlyHart(t) /\ errors' = errors
    BY <1>h, <2>1, ItemTyped, IsideErrorOnlyHart DEF set_iside_error
  <2>3. QED BY <1>h, <1>1, <2>1, <2>2
<1>8. CASE CallStep
  <2>1. PICK e \in Event, result \in BOOLEAN :
          /\ step(t, item, e, result)
          /\ todo' = IF result THEN <<>> ELSE OnFailure
    BY <1>8 DEF CallStep
  <2>2. Next_is("step") /\ item' = item /\ prev_mip' = prev_mip
    BY <1>8 DEF CallStep
  <2>3. item \in Items /\ t \in Threads /\ errors = 0
    BY <2>2, ItemTyped
  <2>4. OnlyHart(t) /\ (result => errors' = 0)
    BY <1>h, <2>1, <2>3, StepOnlyHart
  <2>5. MessagesAreOfStep'
    BY <2>1, <2>4 DEF MessagesAreOfStep, OnFailure, Call
  <2>6. QED BY <1>h, <2>2, <2>3, <2>4, <2>5 DEF LoopInv, OnlyHart
<1>9. CASE CallClearErrors
  <2>1. Next_is("clear_errors") /\ Made /\ UNCHANGED prev_mip /\ clear_errors
    BY <1>9 DEF CallClearErrors
  <2>2. item \in Items /\ t \in Threads /\ item' = item
    BY <2>1, ItemTyped DEF Made
  <2>3. OnlyHart(t) /\ errors' = 0
    BY <1>h, <2>1, <2>2, NoHartChanges DEF clear_errors
  <2>4. QED
    BY <1>h, <2>1, <2>2, <2>3 DEF LoopInv, MessagesAreOfStep, OnlyHart
<1>10. \/ CallNotify \/ CallSetDebugReq
       \/ CallSetNmi \/ CallSetNmiInt \/ CallSetMip
       \/ CallSetIsideError \/ CallStep \/ CallClearErrors
  BY DEF Next, Compare, init_cosim
<1>11. QED
  BY <1>2, <1>3, <1>4, <1>5, <1>6, <1>7, <1>8, <1>9, <1>10

\* A new instance of the layer.
LEMMA FreshHartsOK == ThreadOK(NewThread, NewHart)
BY DEF ThreadOK, NewThread, NewHart, PerThreadState, Hart, Traps, NmiTraps

\* The initial state.
LEMMA InitLoopInv == Init => LoopInv
BY FreshHartsOK DEF Init, InitSpike, LoopInv, HartsOK, ThreadOK,
   MessagesAreOfStep

\* Between two instructions.
LEMMA RestLoopInv ==
  ASSUME LoopInv, AtRest, Next
  PROVE  LoopInv'
<1>1. errors = 0
  BY DEF LoopInv, MessagesAreOfStep, AtRest, OnFailure
<1>2. ASSUME NEW i \in Items, Compare(i) PROVE LoopInv'
  BY <1>1, <1>2 DEF Compare, LoopInv, HartsOK, ThreadOK, MessagesAreOfStep,
     spike_vars
<1>3. CASE init_cosim
  BY <1>3, FreshHartsOK DEF init_cosim, ResetSpike, LoopInv, HartsOK, ThreadOK,
     MessagesAreOfStep
<1>4. QED
  BY <1>2, <1>3 DEF Next, AtRest, Next_is, CallNotify, CallSetDebugReq,
     CallSetNmi, CallSetNmiInt, CallSetMip, CallSetIsideError, CallStep,
     CallClearErrors

\* The inductive invariant holds.
THEOREM LoopInvariant == Spec => []LoopInv
<1>1. LoopInv /\ [Next]_vars => LoopInv'
  <2>1. ASSUME LoopInv, UNCHANGED vars PROVE LoopInv'
    BY <2>1 DEF vars, spike_vars, loop_vars, LoopInv, HartsOK, ThreadOK,
       MessagesAreOfStep
  <2>2. QED BY <2>1, CallsOnlyHart, RestLoopInv
<1>2. QED BY InitLoopInv, <1>1, PTL DEF Spec

-----------------------------------------------------------------------------
(* Types.                                                                  *)

\* A call on the list carries an access exactly when it is a notification.
CallTypes == [op : {"set_debug_req", "set_nmi", "set_nmi_int", "set_mip",
                    "set_iside_error", "step", "clear_errors"}]
               \cup [op : {"notify"}, access : DutAccess]

LoopTypes ==
  /\ errors \in Nat
  /\ active_thread \in Threads
  /\ pending_dside_accesses \in [Threads -> Seq(DutAccess)]
  /\ item \in Items \cup {NoItem}
  /\ todo \in Seq(CallTypes)

LEMMA CallsTyped ==
  ASSUME NEW i \in Item
  PROVE  Calls(i) \in Seq(CallTypes)
<1>1. i.accs \in Seq(DutAccess)
  BY DEF Item
<1>2. Notifications(i) \in Seq(CallTypes)
  <2>1. DOMAIN i.accs = 1..Len(i.accs) /\ Len(i.accs) \in Nat
    BY <1>1
  <2>2. \A k \in 1..Len(i.accs) :
          [op |-> "notify", access |-> i.accs[k]] \in CallTypes
    BY <1>1, <2>1 DEF CallTypes
  <2> QED BY <2>1, <2>2 DEF Notifications
<1> DEFINE settings == <<Call("set_debug_req"), Call("set_nmi"), Call("set_nmi_int"),
                         Call("set_mip")>>
           fetch == IF i.fetch_error THEN <<Call("set_iside_error")>> ELSE <<>>
<1>3. settings \in Seq(CallTypes)
  <2>1. /\ Call("set_debug_req") \in CallTypes /\ Call("set_nmi") \in CallTypes
        /\ Call("set_nmi_int") \in CallTypes /\ Call("set_mip") \in CallTypes
    BY DEF Call, CallTypes
  <2> QED BY <2>1
<1>4. fetch \in Seq(CallTypes) /\ <<Call("step")>> \in Seq(CallTypes)
  <2>1. Call("set_iside_error") \in CallTypes /\ Call("step") \in CallTypes
    BY DEF Call, CallTypes
  <2> QED BY <2>1
<1>5. Calls(i) = Notifications(i) \o settings
                   \o (IF i.irq_only THEN <<>> ELSE fetch \o <<Call("step")>>)
  BY DEF Calls
<1> HIDE DEF settings, fetch
<1>6. fetch \o <<Call("step")>> \in Seq(CallTypes)
  BY <1>4, ConcatProperties
<1>7. Notifications(i) \o settings \in Seq(CallTypes)
  BY <1>2, <1>3, ConcatProperties
<1> DEFINE rest == IF i.irq_only THEN <<>> ELSE fetch \o <<Call("step")>>
<1>8. rest \in Seq(CallTypes)
  BY <1>6
<1> HIDE DEF rest
<1>9. Calls(i) = (Notifications(i) \o settings) \o rest
  BY <1>5 DEF rest
<1> QED BY <1>7, <1>8, <1>9, ConcatProperties

\* The comparisons of a step, of the hart it works for.
LEMMA CheckedTyped ==
  ASSUME LoopTypes, NEW t \in Threads, NEW e \in Event
  PROVE  /\ Checked(t, e) \in CheckState
         /\ PendingAfter(t, e) \in [Threads -> Seq(DutAccess)]
         /\ PendingAfter(t, e)[t] = Checked(t, e).q
<1> DEFINE q == pending_dside_accesses[t]
<1>1. q \in Seq(DutAccess) /\ e.accs \in Seq(SpikeAccess)
  BY SpikeConstantsOK DEF LoopTypes, Event
<1>2. Checked(t, e) = CheckAll(q, e.accs)
  BY DEF Checked, Active
<1> HIDE DEF q
<1>3. PICK f \in [0..Len(e.accs) -> CheckState] : CheckAll(q, e.accs) = f[Len(e.accs)]
  BY <1>1, CheckAllSteps
<1>4. Checked(t, e) \in CheckState
  <2>1. Len(e.accs) \in 0..Len(e.accs)
    BY <1>1
  <2> QED BY <1>2, <1>3, <2>1
<1>5. Checked(t, e).q \in Seq(DutAccess)
  BY <1>4 DEF CheckState
<1> QED BY <1>4, <1>5 DEF PendingAfter, Active, LoopTypes

LEMMA AfterTrapTyped ==
  ASSUME NEW q \in Seq(DutAccess), NEW trap, NEW pmp \in BOOLEAN
  PROVE  AfterTrap(q, trap, pmp) \in Seq(DutAccess)
<1>1. CASE trap = "fault" /\ pmp
  BY <1>1, KeptTyped DEF AfterTrap
<1>2. CASE trap # "fault" /\ trap = "nmi_int" /\ q # <<>>
  <2>1. Tail(q) \in Seq(DutAccess)
    BY <1>2, HeadTailProperties
  <2>2. AfterTrap(q, trap, pmp) = Tail(q)
    BY <1>2 DEF AfterTrap
  <2> QED BY <2>1, <2>2
<1>3. CASE ~(trap = "fault" /\ pmp) /\ ~(trap = "nmi_int" /\ q # <<>>)
  <2>1. AfterTrap(q, trap, pmp) = q
    BY <1>3 DEF AfterTrap
  <2> QED BY <2>1
<1> QED BY <1>1, <1>2, <1>3

\* What a step does to the shared variables.
LEMMA StepTyped ==
  ASSUME LoopTypes, NEW t \in Threads, NEW i, NEW e \in Event, NEW result \in BOOLEAN,
         step(t, i, e, result)
  PROVE  /\ errors' \in Nat /\ active_thread' \in Threads
         /\ pending_dside_accesses' \in [Threads -> Seq(DutAccess)]
<1>1. /\ errors \in Nat /\ active_thread \in Threads
      /\ pending_dside_accesses \in [Threads -> Seq(DutAccess)]
  BY DEF LoopTypes
<1>2. /\ Checked(t, e).bad \in Nat
      /\ PendingAfter(t, e) \in [Threads -> Seq(DutAccess)]
  BY CheckedTyped DEF CheckState
<1>3. CASE check_debug_ebreak(t, i, result) \/ step_refused(i, result)
  BY <1>1, <1>3 DEF check_debug_ebreak, step_refused
<1>4. CASE step_throws(t, i, e, result)
  <2>1. /\ active_thread' = t /\ pending_dside_accesses' = PendingAfter(t, e)
        /\ \E said \in IF Interrupted(hart[t]) THEN 0 .. 1 ELSE {1} :
             errors' = errors + Checked(t, e).bad + said
    BY <1>4 DEF step_throws, Executes, Active
  <2>2. PICK said \in Nat : errors' = errors + Checked(t, e).bad + said
    BY <2>1
  <2> QED BY <1>1, <1>2, <2>1, <2>2
<1>5. CASE step_traps(t, i, e, result)
  <2> DEFINE h == TakeTrap(StartOfInsn(t), e.cause)
  <2>1. /\ active_thread' = t
        /\ errors' = errors + Checked(t, e).bad + (IF TrapAccepted(i, e) THEN 0 ELSE 1)
    BY <1>5 DEF step_traps, Executes, Active
  <2>2. PICK pmp \in BOOLEAN :
          pending_dside_accesses' =
            IF TrapAccepted(i, e)
            THEN [PendingAfter(t, e) EXCEPT ![t] = AfterTrap(@, h.trap, pmp)]
            ELSE PendingAfter(t, e)
    BY <1>5 DEF step_traps
  <2> DEFINE q == AfterTrap(PendingAfter(t, e)[t], h.trap, pmp)
  <2>3. q \in Seq(DutAccess)
    <3>1. PendingAfter(t, e)[t] \in Seq(DutAccess)
      BY <1>2
    <3> HIDE DEF h
    <3> QED BY <3>1, AfterTrapTyped
  <2>4. pending_dside_accesses' \in {[PendingAfter(t, e) EXCEPT ![t] = q], PendingAfter(t, e)}
    BY <2>2
  <2> HIDE DEF q
  <2>5. pending_dside_accesses' \in [Threads -> Seq(DutAccess)]
    BY <1>2, <2>3, <2>4
  <2> QED BY <1>1, <1>2, <2>1, <2>5
<1>6. CASE step_retires(t, i, e, result)
  <2>1. /\ active_thread' = t /\ pending_dside_accesses' = PendingAfter(t, e)
        /\ errors' \in {errors + Checked(t, e).bad + 1, 0, 1}
    BY <1>6 DEF step_retires, Executes, Active, Leftover
  <2> QED BY <1>1, <1>2, <2>1
<1> QED BY <1>3, <1>4, <1>5, <1>6 DEF step

\* What the other calls do to the shared variables.
LEMMA InterruptTyped ==
  ASSUME LoopTypes, NEW t \in Threads, NEW h, early_interrupt_handle(t, h)
  PROVE  /\ errors' \in Nat /\ active_thread' \in Threads
         /\ pending_dside_accesses' \in [Threads -> Seq(DutAccess)]
BY DEF early_interrupt_handle, LoopTypes

LEMMA CallTyped ==
  ASSUME LoopInv, LoopTypes, Next, ~AtRest
  PROVE  /\ errors' \in Nat /\ active_thread' \in Threads
         /\ pending_dside_accesses' \in [Threads -> Seq(DutAccess)]
<1>1. /\ errors \in Nat /\ active_thread \in Threads
      /\ pending_dside_accesses \in [Threads -> Seq(DutAccess)]
      /\ todo \in Seq(CallTypes)
  BY DEF LoopTypes
<1>2. ASSUME NEW op, Next_is(op) PROVE item.tid \in Threads
  BY <1>2, ItemTyped
<1>3. CASE CallNotify
  <2>1. Next_is("notify") /\ notify_dside_access(item.tid, Head(todo).access)
    BY <1>3 DEF CallNotify
  <2>2. Head(todo) \in CallTypes /\ Head(todo).op = "notify"
    BY <1>1, <2>1 DEF Next_is
  <2>3. Head(todo).access \in DutAccess
    BY <2>2 DEF CallTypes
  <2>4. item.tid \in Threads
    BY <1>2, <2>1
  <2>5. Append(pending_dside_accesses[item.tid], Head(todo).access) \in Seq(DutAccess)
    BY <1>1, <2>3, <2>4, AppendProperties
  <2> QED BY <1>1, <2>1, <2>4, <2>5 DEF notify_dside_access
<1>4. CASE CallSetNmi \/ CallSetNmiInt
  <2>1. PICK pin, flag : set_nmi(item.tid, pin, flag)
    BY <1>4 DEF CallSetNmi, CallSetNmiInt
  <2>2. item.tid \in Threads
    BY <1>2, <1>4 DEF CallSetNmi, CallSetNmiInt
  <2> QED BY <1>1, <2>1, <2>2, InterruptTyped DEF set_nmi, spike_vars
<1>5. CASE CallSetMip
  <2>1. set_mip(item.tid, prev_mip[item.tid], item.mip) /\ item.tid \in Threads
    BY <1>2, <1>5 DEF CallSetMip
  <2> QED BY <1>1, <2>1, InterruptTyped DEF set_mip
<1>6. CASE CallStep
  <2>1. PICK e \in Event, result \in BOOLEAN : step(item.tid, item, e, result)
    BY <1>6 DEF CallStep
  <2>2. item.tid \in Threads
    BY <1>2, <1>6 DEF CallStep
  <2> QED BY <2>1, <2>2, StepTyped
<1>7. CASE CallSetDebugReq \/ CallSetIsideError \/ CallClearErrors
  BY <1>1, <1>7 DEF CallSetDebugReq, CallSetIsideError, CallClearErrors,
     set_debug_req, set_iside_error, clear_errors
<1> QED BY <1>3, <1>4, <1>5, <1>6, <1>7 DEF Next, Compare, init_cosim

LEMMA TypesStep ==
  ASSUME LoopInv, LoopTypes, [Next]_vars
  PROVE  LoopTypes'
<1>1. CASE UNCHANGED vars
  BY <1>1 DEF vars, spike_vars, loop_vars, LoopTypes
<1>2. ASSUME NEW i \in Items, Compare(i) PROVE LoopTypes'
  <2>1. todo' \in Seq(CallTypes)
    <3>1. i \in Item
      BY LoopConstantsOK
    <3> QED BY <1>2, <3>1, CallsTyped DEF Compare
  <2> QED BY <1>2, <2>1 DEF Compare, spike_vars, LoopTypes
<1>3. CASE init_cosim
  <2>1. 0 \in Threads
    BY SpikeConstantsOK DEF Threads
  <2> QED BY <1>3, <2>1 DEF init_cosim, ResetSpike, LoopTypes
<1>4. CASE ~AtRest /\ Next
  <2>1. todo # <<>> /\ todo \in Seq(CallTypes)
    BY <1>4 DEF AtRest, LoopTypes
  <2>2. Tail(todo) \in Seq(CallTypes)
    BY <2>1, HeadTailProperties
  <2>3. OnFailure \in Seq(CallTypes) /\ <<>> \in Seq(CallTypes)
    BY DEF OnFailure, Call, CallTypes
  <2>4. item' = item /\ todo' \in {Tail(todo), <<>>, OnFailure}
    BY <1>4 DEF Next, AtRest, Compare, init_cosim, Made, CallNotify, CallSetDebugReq,
       CallSetNmi, CallSetNmiInt, CallSetMip, CallSetIsideError, CallStep,
       CallClearErrors
  <2> QED BY <1>4, <2>2, <2>3, <2>4, CallTyped DEF LoopTypes
<1> QED BY <1>1, <1>2, <1>3, <1>4 DEF Next, AtRest, Next_is, CallNotify,
       CallSetDebugReq, CallSetNmi, CallSetNmiInt, CallSetMip, CallSetIsideError,
       CallStep, CallClearErrors

LEMMA TypesHold == Spec => []LoopTypes
<1>1. Init => LoopTypes
  <2>1. 0 \in Threads
    BY SpikeConstantsOK DEF Threads
  <2> QED BY <2>1 DEF Init, InitSpike, LoopTypes
<1> QED BY <1>1, TypesStep, LoopInvariant, PTL DEF Spec

\* Every variable has the type of its declaration: the queues of pending accesses
\* are queues of accesses, however many an instruction makes.
THEOREM LoopTypeCorrect == Spec => []LoopTypeOK
<1>1. LoopInv /\ LoopTypes => LoopTypeOK
  BY DEF LoopInv, HartsOK, LoopTypes, LoopTypeOK, SpikeTypeOK
<1> QED BY <1>1, TypesHold, LoopInvariant, PTL

-----------------------------------------------------------------------------
(* The theorems.                                                           *)

\* Between two instructions no message is left in `errors`, which the harts
\* share, whatever the instructions, the harts and the outcomes of the steps.
THEOREM NoErrorLeftOverHolds == Spec => []NoErrorLeftOver
<1>1. LoopInv => NoErrorLeftOver
  BY DEF LoopInv, MessagesAreOfStep, NoErrorLeftOver, AtRest, OnFailure
<1>2. QED BY <1>1, LoopInvariant, PTL

\* In NMI mode the stack holds the trap state the NMI interrupted.
THEOREM NmiStackHolds == Spec => []NmiStackHoldsInterrupted
<1>1. LoopInv => NmiStackHoldsInterrupted
  BY DEF LoopInv, HartsOK, ThreadOK, NmiTraps, NmiStackHoldsInterrupted
<1>2. QED BY <1>1, LoopInvariant, PTL

\* The calls for one hart leave the state of the others alone.
THEOREM OwnHartOnlyHolds == Spec => OwnHartOnly
<1> DEFINE Others == ~AtRest => \A t \in Threads \ {item.tid} :
                       /\ thread_state'[t] = thread_state[t]
                       /\ pending_dside_accesses'[t] = pending_dside_accesses[t]
                       /\ hart'[t] = hart[t]
<1>1. LoopInv /\ [Next]_vars => [Others]_vars
  BY CallsOnlyHart DEF OnlyHart
<1>2. QED BY <1>1, LoopInvariant, PTL DEF Spec, OwnHartOnly

\* A step that compares a retired instruction and returns is the one of
\* step_retires.
LEMMA JudgedRetired ==
  ASSUME [Next]_vars, judged' # judged, judged'.kind = "retire"
  PROVE  \E e \in Event :
           /\ step_retires(item.tid, item, e, judged'.result)
           /\ Next_is("step") /\ item' = item
           /\ judged'.accs = e.accs
           /\ judged'.agree = (e.pc_ok /\ (e.reg_ok \/ item.suppress))
<1>1. judged' # NotJudged
  BY DEF NotJudged
<1>2. CallStep
  BY <1>1 DEF Next, vars, loop_vars, Compare, init_cosim, Made, CallNotify,
     CallSetDebugReq, CallSetNmi, CallSetNmiInt, CallSetMip, CallSetIsideError,
     CallClearErrors
<1>3. PICK e \in Event, result \in BOOLEAN :
        /\ step(item.tid, item, e, result)
        /\ judged' = [kind |-> StepKind(item, e), accs |-> e.accs, result |-> result,
                      agree |-> e.pc_ok /\ (e.reg_ok \/ item.suppress)]
  BY <1>2 DEF CallStep
<1>4. StepKind(item, e) = "retire" /\ judged'.result = result /\ judged'.accs = e.accs
      /\ judged'.agree = (e.pc_ok /\ (e.reg_ok \/ item.suppress))
  BY <1>3
<1>5. item.insn # "debug_ebreak" /\ ~RefusesSuppress(item) /\ e.kind = "retire"
  BY <1>4 DEF StepKind
<1>6. step_retires(item.tid, item, e, result)
  BY <1>3, <1>5 DEF step, check_debug_ebreak, step_refused, step_throws, step_traps
<1> QED BY <1>2, <1>4, <1>6 DEF CallStep

\* A comparison of data accesses that fails never makes a step fail whose
\* instruction retired as the DUT says, whatever the accesses were.
THEOREM DsideFailureHarmlessHolds == Spec => DsideFailureHarmless
<1> DEFINE Harmless == judged' # judged /\ judged'.kind = "retire" /\ judged'.agree
                         /\ ~thread_state[item.tid].pending_iside_error
                       => judged'.result
<1>1. LoopInv /\ [Next]_vars => [Harmless]_vars
  <2>1. SUFFICES ASSUME LoopInv, [Next]_vars, judged' # judged,
                        judged'.kind = "retire", judged'.agree,
                        ~thread_state[item.tid].pending_iside_error
                 PROVE  judged'.result
    OBVIOUS
  <2>2. PICK e \in Event :
          /\ step_retires(item.tid, item, e, judged'.result)
          /\ Next_is("step")
          /\ judged'.agree = (e.pc_ok /\ (e.reg_ok \/ item.suppress))
    BY <2>1, JudgedRetired
  <2>3. item.tid \in Threads /\ thread_state \in [Threads -> PerThreadState]
    BY <2>1, <2>2, ItemTyped DEF LoopInv, HartsOK
  <2>4. ~ThreadAfter(item.tid, e)[item.tid].pending_iside_error
    BY <2>1, <2>3 DEF ThreadAfter, Active, PerThreadState
  <2>5. Leftover(item.tid, e) = 0 /\ e.pc_ok /\ (e.reg_ok \/ item.suppress)
    BY <2>1, <2>2 DEF Leftover
  <2> QED BY <2>2, <2>4, <2>5 DEF step_retires
<1> QED BY <1>1, LoopInvariant, PTL DEF Spec, DsideFailureHarmless

\* The comparison of a load with its own read, widened by the bus, empties the
\* queue.
LEMMA WidenedReadErased ==
  ASSUME NEW q \in Seq(DutAccess), NEW accs \in Seq(SpikeAccess),
         WidenedRead(q), OneAgrees(q, accs), ~accs[1].store
  PROVE  CheckAll(q, accs).q = <<>>
<1> DEFINE a == accs[1]
           s == [q |-> q, bad |-> 0]
<1>1. Len(accs) = 1 /\ Len(q) = 2 /\ is_widened_load_pair(q) /\ DOMAIN q = 1..2
  BY DEF WidenedRead, OneAgrees
<1>2. CheckAll(q, accs) = check_mem_access(s, a)
  <2>1. PICK f \in [0..Len(accs) -> CheckState] :
          /\ f[0] = s
          /\ \A n \in 1..Len(accs) : f[n] = check_mem_access(f[n - 1], accs[n])
          /\ CheckAll(q, accs) = f[Len(accs)]
    BY CheckAllSteps
  <2>2. 1 \in 1..Len(accs) /\ 1 - 1 = 0
    BY <1>1
  <2> QED BY <1>1, <2>1, <2>2
<1>3. PICK k \in 1..2 : Agrees(q[k], a)
  BY <1>1 DEF OneAgrees
<1>4. q[1] \in DutAccess /\ q[2] \in DutAccess /\ q[2].word = q[1].word + 1
      /\ q[1].word \in Nat /\ a.word = q[k].word
  <2>1. q[1] \in DutAccess /\ q[2] \in DutAccess
    BY <1>1
  <2>2. q[1].word \in Nat
    BY <2>1, SpikeConstantsOK DEF DutAccess
  <2> QED BY <1>1, <1>3, <2>1, <2>2 DEF is_widened_load_pair, Agrees
<1>5. PendingIndex(q, a) = k
  <2>1. CASE k = 1
    BY <1>1, <1>4, <2>1 DEF PendingIndex
  <2>2. CASE k = 2
    BY <1>1, <1>4, <2>2 DEF PendingIndex
  <2> QED BY <2>1, <2>2
<1>6. Erase(q, a) = <<>>
  <2>1. SubSeq(q, 3, 2) = <<>>
    BY SubSeqEmpty
  <2> QED BY <1>1, <2>1 DEF Erase
<1>7. q # <<>> /\ s.q = q
  BY <1>1
<1>8. check_mem_access(s, a) = [s EXCEPT !.q = Erase(s.q, a)]
  BY <1>3, <1>5, <1>7 DEF check_mem_access
<1> QED BY <1>2, <1>6, <1>7, <1>8

\* A load that finds only its own read in the queue, widened to two words, leaves
\* nothing behind, whichever of the words it is in.
THEOREM WidenedReadConsumedWholeHolds == Spec => WidenedReadConsumedWhole
<1> DEFINE Whole == judged' # judged /\ judged'.kind = "retire"
                      /\ WidenedRead(Pending(item.tid))
                      /\ OneAgrees(Pending(item.tid), judged'.accs)
                      /\ ~judged'.accs[1].store
                    => Pending(item.tid)' = <<>>
<1>1. LoopInv /\ LoopTypes /\ [Next]_vars => [Whole]_vars
  <2>1. SUFFICES ASSUME LoopInv, LoopTypes, [Next]_vars, judged' # judged,
                        judged'.kind = "retire", WidenedRead(Pending(item.tid)),
                        OneAgrees(Pending(item.tid), judged'.accs),
                        ~judged'.accs[1].store
                 PROVE  Pending(item.tid)' = <<>>
    OBVIOUS
  <2>2. PICK e \in Event :
          /\ step_retires(item.tid, item, e, judged'.result)
          /\ Next_is("step") /\ item' = item
          /\ judged'.accs = e.accs
    BY <2>1, JudgedRetired
  <2>3. item.tid \in Threads /\ item' = item
    <3>1. item.tid \in Threads
      BY <2>1, <2>2, ItemTyped
    <3>2. item' = item
      BY <2>2
    <3> QED BY <3>1, <3>2
  <2>4. Pending(item.tid) \in Seq(DutAccess) /\ e.accs \in Seq(SpikeAccess)
    BY <2>1, <2>3, SpikeConstantsOK DEF LoopTypes, Pending, Event
  <2>5. CheckAll(Pending(item.tid), e.accs).q = <<>>
    BY <2>1, <2>2, <2>4, WidenedReadErased
  <2>6. pending_dside_accesses'[item.tid] = Checked(item.tid, e).q
    BY <2>1, <2>2, <2>3, CheckedTyped DEF step_retires
  <2>7. Checked(item.tid, e).q = <<>>
    BY <2>5 DEF Checked, Active, Pending
  <2> QED BY <2>3, <2>6, <2>7 DEF Pending
<1> QED BY <1>1, LoopInvariant, TypesHold, PTL DEF Spec, WidenedReadConsumedWhole
=============================================================================
