---------------------- MODULE StreamsCompiler_proofs ----------------------
(***************************************************************************)
(* Proofs about StreamsCompiler for any streams, any number of cores and   *)
(* any width of the variables.                                             *)
(***************************************************************************)
EXTENDS StreamsCompiler, FiniteSetTheorems, SequenceTheorems, TLAPS

-----------------------------------------------------------------------------
(***************************************************************************)
(* Positions: the place of an element among the smaller ones of a set.     *)
(***************************************************************************)
Below(X, m) == {j \in X : j < m}
Count(X, m) == Cardinality(Below(X, m))

(* What is below m is finite, and so it has a count.                       *)
LEMMA CountType ==
  ASSUME NEW X \in SUBSET Nat, IsFiniteSet(X), NEW m \in Nat
  PROVE  /\ IsFiniteSet(Below(X, m)) /\ Count(X, m) \in Nat
         /\ Count(X, m) <= Cardinality(X) /\ Cardinality(X) \in Nat
<1>1. Below(X, m) \in SUBSET X
  BY DEF Below
<1>2. IsFiniteSet(Below(X, m)) /\ Cardinality(Below(X, m)) <= Cardinality(X)
  BY <1>1, FS_Subset
<1> QED BY <1>2, FS_CardinalityType DEF Count

(* An element of the set raises the count by one, anything else leaves it. *)
LEMMA CountStep ==
  ASSUME NEW X \in SUBSET Nat, IsFiniteSet(X), NEW m \in Nat
  PROVE  /\ m \in X => Count(X, m + 1) = Count(X, m) + 1
         /\ m \notin X => Count(X, m + 1) = Count(X, m)
<1>0. \A j \in X : j \in Nat /\ (j < m + 1 <=> j < m \/ j = m) /\ ~(m < m)
  OBVIOUS
<1>1. ASSUME m \in X
      PROVE  Count(X, m + 1) = Count(X, m) + 1
  <2>1. Below(X, m + 1) = Below(X, m) \cup {m} /\ m \notin Below(X, m)
    BY <1>0, <1>1 DEF Below
  <2> QED BY <2>1, CountType, FS_AddElement DEF Count
<1>2. ASSUME m \notin X
      PROVE  Below(X, m + 1) = Below(X, m)
  BY <1>0, <1>2 DEF Below
<1> QED BY <1>1, <1>2 DEF Count

(* Later elements have larger counts.                                      *)
LEMMA CountLess ==
  ASSUME NEW X \in SUBSET Nat, IsFiniteSet(X), NEW i \in X, NEW j \in Nat, i < j
  PROVE  Count(X, i) < Count(X, j)
<1>0. i \in Nat /\ ~(i < i) /\ \A k \in X : k < i => k < j
  OBVIOUS
<1>1. Below(X, i) \cup {i} \in SUBSET Below(X, j) /\ i \notin Below(X, i)
  BY <1>0 DEF Below
<1>2. Cardinality(Below(X, i) \cup {i}) <= Cardinality(Below(X, j))
  BY <1>1, CountType, FS_Subset
<1>3. Cardinality(Below(X, i) \cup {i}) = Count(X, i) + 1
  BY <1>1, CountType, FS_AddElement DEF Count
<1> QED BY <1>2, <1>3, CountType DEF Count

(* No two elements have the same count.                                    *)
LEMMA CountInjective ==
  ASSUME NEW X \in SUBSET Nat, IsFiniteSet(X), NEW i \in X, NEW j \in X,
         Count(X, i) = Count(X, j)
  PROVE  i = j
<1>1. Count(X, i) \in Nat /\ i \in Nat /\ j \in Nat
  BY CountType
<1>2. ~(i < j) /\ ~(j < i)
  BY <1>1, CountLess
<1> QED BY <1>1, <1>2

(* A sequence that lists a set in order lists all of it.                   *)
LEMMA InOrderLists ==
  ASSUME NEW X \in SUBSET Nat, IsFiniteSet(X), NEW q \in InOrder(X)
  PROVE  q \in Seq(X) /\ \A x \in X : \E k \in 1 .. Len(q) : q[k] = x
<1> DEFINE n == Cardinality(X)
<1>1. n \in Nat /\ IsFiniteSet(1 .. n) /\ Cardinality(1 .. n) = n
  BY FS_CardinalityType, FS_Interval
<1>2. q \in [1 .. n -> X] /\ \A j, k \in 1 .. n : j < k => q[j] < q[k]
  BY DEF InOrder
<1> HIDE DEF n
<1>3. q \in Injection(1 .. n, X)
  <2> SUFFICES ASSUME NEW j \in 1 .. n, NEW k \in 1 .. n, q[j] = q[k]
               PROVE  j = k
    BY <1>2 DEF Injection, IsInjective
  <2>0. q[j] \in X
    BY <1>2
  <2>1. \A x \in X : ~(x < x)
    OBVIOUS
  <2>2. ~(j < k) /\ ~(k < j)
    BY <1>2, <2>0, <2>1
  <2> QED BY <1>1, <2>2
<1>4. Cardinality(1 .. n) = Cardinality(X)
  BY <1>1 DEF n
<1>5. q \in Surjection(1 .. n, X)
  BY <1>3, <1>4, FS_Injection
<1>6. q \in Seq(X) /\ Len(q) = n
  BY <1>1, <1>2
<1> QED BY <1>5, <1>6 DEF Surjection
-----------------------------------------------------------------------------
(***************************************************************************)
(* The invariant.                                                          *)
(***************************************************************************)
Nodes == Enabled \cup {None}

(* The set X holds the roots and, with a stream, its successor.            *)
Closed(X) ==
  /\ Roots \subseteq X
  /\ \A i \in X : S(i).next # None => S(i).next \in X

(* What the passes that are over have let through.                         *)
Checked ==
  /\ pc # "allocate" => pc = "error" \/ \A i \in Enabled : CheckStream(i)
  /\ pc \notin {"allocate", "direct", "error"} => \A i \in Enabled : PointsToNode(i)

(* The search is sound and misses nothing: the roots and the successors of *)
(* what is marked are marked or on the stack, and every closed set holds   *)
(* what is marked or on the stack.                                         *)
Seen == marked \cup {stack[k] : k \in DOMAIN stack}

Marking ==
  /\ pc \in {"allocate", "direct"} => marked = {}
  /\ pc = "mark" =>
       /\ stack \in Seq(Nodes) /\ marked \subseteq Nodes
       /\ Roots \subseteq Seen
       /\ \A i \in marked \ {None} : S(i).next \in Seen
       /\ \A X \in SUBSET Enabled : Closed(X) => Seen \ {None} \subseteq X

(* The enabled streams that core c gets, and what it gets of each.         *)
OnCore(c) == {i \in Enabled : c = 0 \/ IsSplitable(i)}

PartFor(i, c) ==
  IF IsSplitable(i) THEN DpStream(i, Share(i, c), SplitVm(S(i).vm, prog.cores, c))
  ELSE DpStream(i, S(i).pkts, S(i).vm)

Place(i, c) == Count(OnCore(c), i) + 1

(* An object lists the streams of its core in the order of the table.      *)
ObjectOf(c) ==
  /\ DOMAIN objs[c] = 1 .. Count(OnCore(c), todo)
  /\ \A i \in Below(OnCore(c), todo) :
       Place(i, c) \in DOMAIN objs[c] /\ objs[c][Place(i, c)] = PartFor(i, c)
  /\ \A k \in DOMAIN objs[c] : \E i \in Below(OnCore(c), todo) : Place(i, c) = k

Objects ==
  /\ objs \in [Cores -> Seq({PartFor(i, c) : i \in Enabled, c \in Cores})]
  /\ todo \in 1 .. Len(prog.streams) + 1
  /\ \A c \in Cores : ObjectOf(c)

(* Loading follows a complete compilation.                                 *)
Loading ==
  /\ pc \in {"crash", "load"} => todo = Len(prog.streams) + 1 /\ (objs[0] = << >> <=> pc = "crash")
  /\ links = [c \in Cores |-> links[c]]
  /\ \A c \in Cores :
       /\ Loaded(c) \/ c \in failed => pc = "load"
       /\ Loaded(c) => links[c] = [k \in DOMAIN objs[c] |-> Link(objs[c][k])]
       /\ c \in failed => \E k \in DOMAIN objs[c] : Link(objs[c][k]) >= Len(objs[c])

PcOK == pc \in {"allocate", "direct", "mark", "compile", "error", "crash", "load"}

CInv ==
  prog \in Programs /\ PcOK /\ Checked /\ Marking /\ AcceptedIffWellFormed /\ Objects /\ Loading

-----------------------------------------------------------------------------
(***************************************************************************)
(* Facts about the input, which no step changes.                           *)
(***************************************************************************)

(* The streams are numbered from one and finitely many; so are the cores.  *)
LEMMA ProgFacts ==
  ASSUME prog \in Programs
  PROVE  /\ prog.cores \in Nat \ {0} /\ 0 \in Cores /\ Cores \subseteq Nat
         /\ Len(prog.streams) \in Nat /\ Ids = 1 .. Len(prog.streams)
         /\ \A i \in Ids : S(i) \in StreamRec
         /\ Enabled \in SUBSET Nat /\ IsFiniteSet(Enabled) /\ Enabled \subseteq Ids
<1>1. prog.cores \in Nat \ {0} /\ prog.streams \in Seq(StreamRec)
  BY ProgramsAssumption
<1>2. 0 \in Cores /\ Cores \subseteq Nat
  BY <1>1 DEF Cores
<1>3. /\ Len(prog.streams) \in Nat /\ Ids = 1 .. Len(prog.streams)
      /\ \A i \in Ids : S(i) \in StreamRec
  BY <1>1 DEF Ids, S
<1>4. Enabled \in SUBSET Ids
  BY DEF Enabled
<1>5. IsFiniteSet(Ids) /\ Ids \subseteq Nat
  BY <1>3, FS_Interval
<1>6. IsFiniteSet(Enabled)
  BY <1>4, <1>5, FS_Subset
<1> QED BY <1>1, <1>2, <1>3, <1>4, <1>5, <1>6

(* Each core has a finite set of streams, all of them if none is short.    *)
LEMMA OnCoreFacts ==
  ASSUME prog \in Programs, NEW c \in Cores
  PROVE  /\ OnCore(c) \in SUBSET Nat /\ IsFiniteSet(OnCore(c)) /\ OnCore(c) \subseteq Enabled
         /\ OnCore(0) = Enabled
         /\ (\A i \in Enabled : IsSplitable(i)) => OnCore(c) = Enabled
<1>1. OnCore(c) \in SUBSET Enabled
  BY DEF OnCore
<1>2. IsFiniteSet(OnCore(c))
  BY <1>1, ProgFacts, FS_Subset
<1> QED BY <1>1, <1>2, ProgFacts DEF OnCore

(* Steps leave the input and all that is computed from it alone.           *)
LEMMA Frame ==
  ASSUME prog' = prog
  PROVE  /\ Ids' = Ids /\ Cores' = Cores /\ Enabled' = Enabled /\ Roots' = Roots
         /\ Nodes' = Nodes
         /\ \A i : S(i)' = S(i)
         /\ \A i : CheckStream(i)' = CheckStream(i) /\ PointsToNode(i)' = PointsToNode(i)
         /\ \A i : IsSplitable(i)' = IsSplitable(i)
         /\ \A X : Closed(X)' = Closed(X)
<1>1. Ids' = Ids /\ Cores' = Cores /\ \A i : S(i)' = S(i)
  BY DEF Ids, Cores, S
<1>2. Enabled' = Enabled
  BY DEF Enabled, Ids, S
<1>3. Roots' = Roots /\ Nodes' = Nodes
  BY DEF Roots, Nodes, Enabled, Ids, S
<1>4. \A i : CheckStream(i)' = CheckStream(i) /\ PointsToNode(i)' = PointsToNode(i)
  BY DEF CheckStream, PointsToNode, Enabled, Ids, S
<1>5. \A i : IsSplitable(i)' = IsSplitable(i)
  BY DEF IsSplitable, S
<1>6. \A X : Closed(X)' = Closed(X)
  BY DEF Closed, Roots, Enabled, Ids, S
<1> QED BY <1>1, <1>2, <1>3, <1>4, <1>5, <1>6

(* ... and so the parts of the cores and their places.                     *)
LEMMA FrameParts ==
  ASSUME prog' = prog
  PROVE  /\ WellFormed' = WellFormed
         /\ \A c : OnCore(c)' = OnCore(c)
         /\ \A i : Compressed(i)' = Compressed(i)
         /\ \A i, c : PartFor(i, c)' = PartFor(i, c) /\ Place(i, c)' = Place(i, c)
         /\ \A c : Count(OnCore(c), todo)' = Count(OnCore(c), todo')
         /\ \A c : Below(OnCore(c), todo)' = Below(OnCore(c), todo')
<1>1. WellFormed' = WellFormed
  BY DEF WellFormed, Roots, Enabled, Ids, S
<1>2. \A c : OnCore(c)' = OnCore(c)
  BY DEF OnCore, IsSplitable, Enabled, Ids, S
<1>3. \A i : Compressed(i)' = Compressed(i)
  BY DEF Compressed, Enabled, Ids, S
<1>4. \A i, c : Share(i, c)' = Share(i, c) /\ SplitVm(S(i).vm, prog.cores, c)' = SplitVm(S(i).vm, prog.cores, c)
  BY DEF Share, S
<1>5. \A i, x, vm : DpStream(i, x, vm)' = DpStream(i, x, vm)
  BY DEF DpStream, Compressed, Enabled, Ids, S
<1>6. \A i, c : PartFor(i, c)' = PartFor(i, c)
  BY DEF PartFor, IsSplitable, Share, DpStream, Compressed, Enabled, Ids, S
<1>7. \A i, c : Place(i, c)' = Place(i, c)
  BY <1>2 DEF Place, Count, Below, OnCore
<1>8. \A c : Count(OnCore(c), todo)' = Count(OnCore(c), todo') /\ Below(OnCore(c), todo)' = Below(OnCore(c), todo')
  BY <1>2 DEF Count, Below
<1> QED BY <1>1, <1>2, <1>3, <1>6, <1>7, <1>8

-----------------------------------------------------------------------------
(***************************************************************************)
(* What the three passes accept.                                           *)
(***************************************************************************)

(* The first state.                                                        *)
LEMMA InitInv == Init => CInv
<1> SUFFICES ASSUME Init PROVE CInv
  OBVIOUS
<1> USE DEF Init
<1>1. prog \in Programs /\ PcOK /\ Checked /\ Marking /\ AcceptedIffWellFormed
  BY DEF PcOK, Checked, Marking, AcceptedIffWellFormed
<1>2. Loading
  <2>1. \A c \in Cores : ~Loaded(c)
    BY DEF Loaded
  <2> QED BY <2>1 DEF Loading
<1>3. ASSUME NEW c \in Cores
      PROVE  ObjectOf(c)
  <2>1. \A i \in Ids : ~(i < 1)
    BY ProgFacts
  <2>2. Below(OnCore(c), 1) = {}
    BY <2>1, ProgFacts, OnCoreFacts DEF Below
  <2>3. Count(OnCore(c), 1) = 0
    BY <2>2, FS_EmptySet DEF Count
  <2>4. DOMAIN objs[c] = {}
    OBVIOUS
  <2> QED BY <2>2, <2>3, <2>4 DEF ObjectOf
<1>4. Objects
  BY <1>3, ProgFacts DEF Objects
<1> QED BY <1>1, <1>2, <1>4 DEF CInv

(* A pass that lets everything through has its answer recorded by pc.      *)
LEMMA CheckedStep ==
  ASSUME CInv, Next
  PROVE  prog' = prog /\ PcOK' /\ Checked'
<1>1. prog' = prog
  BY DEF Next, AllocatePass, DirectPass, MarkNext, CheckUnreachable, CompileStream, CompileDone,
         LoadCore, SendPacket
<1>2. UNCHANGED pc => PcOK' /\ Checked'
  BY <1>1, Frame DEF CInv, PcOK, Checked
<1>3. CASE AllocatePass
  BY <1>1, <1>3, Frame DEF AllocatePass, Passed, PcOK, Checked
<1>4. CASE DirectPass
  BY <1>1, <1>4, Frame DEF DirectPass, Passed, CInv, PcOK, Checked
<1>5. CASE CheckUnreachable
  BY <1>1, <1>5, Frame DEF CheckUnreachable, Passed, CInv, PcOK, Checked
<1>6. CASE CompileDone
  BY <1>1, <1>6, Frame DEF CompileDone, CInv, PcOK, Checked
<1>7. MarkNext \/ CompileStream \/ (\E c \in Cores : LoadCore(c) \/ SendPacket(c)) => UNCHANGED pc
  BY DEF MarkNext, CompileStream, LoadCore, SendPacket
<1> QED BY <1>1, <1>2, <1>3, <1>4, <1>5, <1>6, <1>7 DEF Next

(* Pulling a node keeps what has been seen; an unmarked one adds its       *)
(* successor.                                                              *)
LEMMA SeenStep ==
  ASSUME prog \in Programs, Checked, Marking, MarkNext,
         NEW i, i = stack[Len(stack)]
  PROVE  /\ i \in Nodes /\ stack' \in Seq(Nodes) /\ marked' = marked \cup {i}
         /\ i \in marked \/ i = None => Seen' = Seen
         /\ i \notin marked /\ i # None => Seen' = Seen \cup {S(i).next}
<1> DEFINE n == Len(stack)
           t == Front(stack)
<1>1. stack \in Seq(Nodes) /\ stack # << >> /\ pc = "mark"
  BY DEF Marking, MarkNext
<1>2. n \in Nat \ {0} /\ \A k \in 1 .. n : stack[k] \in Nodes
  BY <1>1
<1>3. /\ t \in Seq(Nodes) /\ Len(t) = n - 1
      /\ \A k \in 1 .. n - 1 : t[k] = stack[k]
  <2>1. \A k \in 1 .. n - 1 : k \in 1 .. n
    BY <1>2
  <2>2. \A k \in 1 .. n - 1 : stack[k] \in Nodes
    BY <1>2, <2>1
  <2> HIDE DEF n
  <2>3. 1 \in Int /\ n - 1 \in Int /\ (IF 1 <= n - 1 THEN n - 1 - 1 + 1 ELSE 0) = n - 1
    <3>1. n \in Nat /\ n >= 1
      BY <1>2
    <3> QED BY <3>1
  <2>4. /\ SubSeq(stack, 1, n - 1) \in Seq(Nodes)
        /\ Len(SubSeq(stack, 1, n - 1)) = n - 1
        /\ \A k \in 1 .. n - 1 - 1 + 1 : SubSeq(stack, 1, n - 1)[k] = stack[1 + k - 1]
    BY <2>2, <2>3, SubSeqProperties
  <2>5. n - 1 - 1 + 1 = n - 1 /\ \A k \in 1 .. n - 1 : 1 + k - 1 = k
    BY <2>3
  <2> QED BY <2>4, <2>5 DEF Front, n
<1>4. i \in Nodes
  BY <1>2
<1>5. /\ marked' = marked \cup {i}
      /\ i \in marked \/ i = None => stack' = t
      /\ i \notin marked /\ i # None => stack' = Append(t, S(i).next)
  BY DEF MarkNext, Last
<1> HIDE DEF n, t
<1>6. DOMAIN stack = 1 .. n /\ DOMAIN t = 1 .. n - 1 /\ n \in 1 .. n
  BY <1>1, <1>2, <1>3 DEF n
<1>7. {stack[k] : k \in DOMAIN stack} = {t[k] : k \in DOMAIN t} \cup {i}
  <2>1. \A k \in 1 .. n : k \in 1 .. n - 1 \/ k = n
    BY <1>2
  <2>2. \A k \in 1 .. n - 1 : k \in 1 .. n
    BY <1>2
  <2> QED BY <1>3, <1>6, <2>1, <2>2 DEF n
<1>8. CASE i \in marked \/ i = None
  <2>1. stack' = t
    BY <1>5, <1>8
  <2>2. Seen' = Seen
    BY <1>5, <1>7, <2>1 DEF Seen
  <2> QED BY <1>3, <1>4, <1>5, <1>8, <2>1, <2>2
<1>9. CASE i \notin marked /\ i # None
  <2>1. i \in Enabled /\ S(i).next \in Nodes
    BY <1>1, <1>4, <1>9 DEF Nodes, Checked, PointsToNode
  <2>2. stack' = Append(t, S(i).next)
    BY <1>5, <1>9
  <2>3. /\ stack' \in Seq(Nodes) /\ DOMAIN stack' = 1 .. n
        /\ \A k \in 1 .. n - 1 : stack'[k] = t[k]
        /\ stack'[n] = S(i).next
    BY <1>2, <1>3, <2>1, <2>2
  <2>4. {stack'[k] : k \in DOMAIN stack'} = {t[k] : k \in DOMAIN t} \cup {S(i).next}
    <3>1. \A k \in 1 .. n : k \in 1 .. n - 1 \/ k = n
      BY <1>2
    <3>2. \A k \in 1 .. n - 1 : k \in 1 .. n
      BY <1>2
    <3> QED BY <1>6, <2>3, <3>1, <3>2
  <2>5. Seen' = Seen \cup {S(i).next}
    BY <1>5, <1>7, <2>4 DEF Seen
  <2> QED BY <1>4, <1>5, <1>9, <2>3, <2>5
<1> QED BY <1>8, <1>9

(* The search keeps its invariant.                                         *)
LEMMA MarkingStep ==
  ASSUME CInv, Next
  PROVE  Marking'
<1>0. prog' = prog
  BY CheckedStep
<1>1. CASE MarkNext
  <2> DEFINE i == stack[Len(stack)]
  <2>0. prog \in Programs /\ Checked /\ Marking /\ pc = "mark"
    BY <1>1 DEF CInv, MarkNext
  <2>1. /\ i \in Nodes /\ stack' \in Seq(Nodes) /\ marked' = marked \cup {i}
        /\ i \in marked \/ i = None => Seen' = Seen
        /\ i \notin marked /\ i # None => Seen' = Seen \cup {S(i).next}
    BY <1>1, <2>0, SeenStep
  <2>2. i \in Seen
    BY <1>1, <2>0 DEF Seen, Marking, MarkNext
  <2> HIDE DEF i
  <2>3. marked' \subseteq Nodes
    BY <2>0, <2>1 DEF Marking
  <2>4. Roots' \subseteq Seen'
    BY <1>0, <2>0, <2>1, Frame DEF Marking
  <2>5. \A j \in marked' \ {None} : S(j)'.next \in Seen'
    BY <1>0, <2>0, <2>1, Frame DEF Marking
  <2>6. ASSUME NEW X \in SUBSET Enabled, Closed(X)
        PROVE  Seen' \ {None} \subseteq X
    <3>1. Seen \ {None} \subseteq X
      BY <2>0, <2>6 DEF Marking
    <3>2. i # None => i \in X
      BY <2>2, <3>1
    <3>3. i # None => (S(i).next # None => S(i).next \in X)
      BY <2>6, <3>2 DEF Closed
    <3> QED BY <2>1, <3>1, <3>3
  <2>7. \A X \in SUBSET Enabled' : Closed(X)' => Seen' \ {None} \subseteq X
    BY <1>0, <2>6, Frame
  <2>8. stack' \in Seq(Nodes') /\ marked' \subseteq Nodes'
    BY <1>0, <2>1, <2>3, Frame
  <2>9. pc' = "mark"
    BY <1>1 DEF MarkNext
  <2> QED BY <2>4, <2>5, <2>7, <2>8, <2>9 DEF Marking
<1>2. CASE DirectPass
  <2>0. prog \in Programs /\ Checked
    BY DEF CInv
  <2>1. stack' \in InOrder(Roots) /\ pc = "direct" /\ marked' = marked
    BY <1>2 DEF DirectPass
  <2>2. Roots \in SUBSET Enabled
    BY DEF Roots
  <2>3. Roots \in SUBSET Nat /\ IsFiniteSet(Roots)
    BY <2>0, <2>2, ProgFacts, FS_Subset
  <2>4. stack' \in Seq(Roots) /\ \A x \in Roots : \E k \in 1 .. Len(stack') : stack'[k] = x
    BY <2>1, <2>3, InOrderLists
  <2>5. DOMAIN stack' = 1 .. Len(stack') /\ \A k \in DOMAIN stack' : stack'[k] \in Roots
    BY <2>4
  <2>6. {stack'[k] : k \in DOMAIN stack'} = Roots
    BY <2>4, <2>5
  <2>7. Seen' = Roots
    BY <2>0, <2>1, <2>6 DEF Seen, CInv, Marking
  <2>8. stack' \in Seq(Nodes') /\ marked' = {}
    <3>1. Roots \subseteq Nodes
      BY <2>2 DEF Nodes
    <3>2. stack' \in Seq(Nodes)
      BY <2>4, <2>5, <3>1
    <3> QED BY <1>0, <2>1, <3>2, Frame DEF CInv, Marking
  <2>9. \A X \in SUBSET Enabled' : Closed(X)' => Seen' \ {None} \subseteq X
    BY <1>0, <2>7, Frame DEF Closed
  <2> QED BY <1>0, <2>7, <2>8, <2>9, Frame DEF Marking
<1>3. CASE pc' # "mark" /\ pc' # "allocate" /\ pc' # "direct"
  BY <1>3 DEF Marking
<1>4. CASE AllocatePass
  BY <1>4 DEF AllocatePass, Passed, CInv, Marking
<1>5. MarkNext \/ DirectPass \/ AllocatePass \/ pc' \notin {"mark", "allocate", "direct"}
  BY DEF CInv, Loading, Next, CheckUnreachable, Passed, CompileStream, CompileDone, LoadCore, SendPacket
<1> QED BY <1>1, <1>2, <1>3, <1>4, <1>5

(* An empty stack: all is marked exactly if every closed set is the whole. *)
LEMMA SearchDecides ==
  ASSUME prog \in Programs, Checked, Marking, CheckUnreachable
  PROVE  WellFormed <=> Enabled \subseteq marked
<1>1. pc = "mark" /\ Seen = marked
  <2>1. stack = << >>
    BY DEF CheckUnreachable
  <2>2. DOMAIN stack = {}
    BY <2>1
  <2> QED BY <2>2 DEF CheckUnreachable, Seen
<1>2. /\ Roots \subseteq marked
      /\ \A i \in marked \ {None} : S(i).next \in marked
      /\ \A X \in SUBSET Enabled : Closed(X) => marked \ {None} \subseteq X
      /\ marked \subseteq Nodes
  BY <1>1 DEF Marking
<1>3. /\ \A i \in Enabled : CheckStream(i) /\ PointsToNode(i)
      /\ Roots \subseteq Enabled
  BY <1>1 DEF Checked, Roots
<1>4. None \notin Enabled
  BY ProgFacts DEF None
<1>5. \A i \in Enabled : S(i).next # None => ~S(i).cont /\ S(i).next \in Enabled
  BY <1>3 DEF CheckStream, PointsToNode
<1>6. ASSUME Enabled \subseteq marked
      PROVE  WellFormed
  <2>1. ASSUME NEW X \in SUBSET Enabled, Closed(X)
        PROVE  X = Enabled
    BY <1>2, <1>4, <1>6, <2>1
  <2> QED BY <1>5, <2>1 DEF WellFormed, Closed
<1>7. ASSUME WellFormed
      PROVE  Enabled \subseteq marked
  <2> DEFINE X == Enabled \cap marked
  <2>1. Roots \subseteq X /\ X \in SUBSET Enabled
    BY <1>2, <1>3
  <2>2. ASSUME NEW i \in X, S(i).next # None
        PROVE  S(i).next \in X
    BY <1>2, <1>4, <1>5, <2>2
  <2>3. X = Enabled
    BY <1>7, <2>1, <2>2 DEF WellFormed
  <2> QED BY <2>3
<1> QED BY <1>6, <1>7

(* Each pass that stops the compiler has found a fault, and the last one   *)
(* leaves none.                                                            *)
LEMMA AcceptedStep ==
  ASSUME CInv, Next
  PROVE  AcceptedIffWellFormed'
<1>0. prog' = prog /\ WellFormed' = WellFormed
  BY CheckedStep, FrameParts
<1>1. CASE AllocatePass
  <2>1. (\E i \in Enabled : ~CheckStream(i)) => ~WellFormed
    BY DEF CheckStream, WellFormed
  <2> QED BY <1>0, <1>1, <2>1 DEF AllocatePass, Passed, AcceptedIffWellFormed
<1>2. CASE DirectPass
  <2>1. (\E i \in Enabled : ~PointsToNode(i)) => ~WellFormed
    BY DEF PointsToNode, WellFormed
  <2> QED BY <1>0, <1>2, <2>1 DEF DirectPass, Passed, AcceptedIffWellFormed
<1>3. CASE CheckUnreachable
  <2>1. WellFormed <=> Enabled \subseteq marked
    BY <1>3, SearchDecides DEF CInv
  <2> QED BY <1>0, <1>3, <2>1 DEF CheckUnreachable, Passed, AcceptedIffWellFormed
<1>4. CASE CompileDone
  BY <1>0, <1>4 DEF CompileDone, CInv, AcceptedIffWellFormed
<1>5. CASE UNCHANGED pc
  BY <1>0, <1>5 DEF CInv, AcceptedIffWellFormed
<1>6. AllocatePass \/ DirectPass \/ CheckUnreachable \/ CompileDone \/ UNCHANGED pc
  BY DEF Next, MarkNext, CompileStream, LoadCore, SendPacket
<1> QED BY <1>1, <1>2, <1>3, <1>4, <1>5, <1>6

-----------------------------------------------------------------------------
(***************************************************************************)
(* The objects of the cores.                                               *)
(***************************************************************************)

(* What one round of the loop does to the object of a core.                *)
LEMMA RoundOnCore ==
  ASSUME prog \in Programs, Objects, CompileStream
  PROVE  objs' = [c \in Cores |-> IF todo \in OnCore(c) THEN Append(objs[c], PartFor(todo, c))
                                  ELSE objs[c]]
<1>1. /\ todo \in Ids
      /\ objs' = IF S(todo).enabled THEN Compiled(todo) ELSE objs
      /\ objs = [c \in Cores |-> objs[c]] /\ 0 \in Cores
  BY ProgFacts DEF CompileStream, Objects
<1>2. CASE ~S(todo).enabled
  <2>1. \A c \in Cores : todo \notin OnCore(c)
    BY <1>2 DEF OnCore, Enabled
  <2> QED BY <1>1, <1>2, <2>1
<1>3. CASE S(todo).enabled /\ IsSplitable(todo)
  <2>1. \A c \in Cores : todo \in OnCore(c)
    BY <1>1, <1>3 DEF OnCore, Enabled
  <2>2. objs' = OnAllCores(todo)
    BY <1>1, <1>3 DEF Compiled
  <2> QED BY <1>3, <2>1, <2>2 DEF OnAllCores, PartFor
<1>4. CASE S(todo).enabled /\ ~IsSplitable(todo)
  <2>1. \A c \in Cores : todo \in OnCore(c) <=> c = 0
    BY <1>1, <1>4 DEF OnCore, Enabled
  <2>2. objs' = [objs EXCEPT ![0] = Append(objs[0], PartFor(todo, 0))]
    BY <1>1, <1>4 DEF Compiled, OnSingleCore, PartFor
  <2> QED BY <1>1, <2>1, <2>2
<1> QED BY <1>2, <1>3, <1>4

(* A stream that is compiled is the next one of the objects that get it.   *)
LEMMA CompileStreamObjects ==
  ASSUME CInv, prog' = prog, CompileStream
  PROVE  Objects'
<1> DEFINE T == {PartFor(i, c) : i \in Enabled, c \in Cores}
<1>0. prog \in Programs /\ Objects
  BY DEF CInv
<1>1. /\ todo \in Ids /\ todo' = todo + 1 /\ todo \in Nat
      /\ todo' \in 1 .. Len(prog.streams) + 1
      /\ prog.streams' = prog.streams
  <2>1. todo \in Ids /\ todo' = todo + 1
    BY DEF CompileStream
  <2>2. todo \in 1 .. Len(prog.streams) /\ Len(prog.streams) \in Nat
    BY <1>0, <2>1, ProgFacts
  <2> QED BY <2>1, <2>2
<1>2. objs' = [c \in Cores |-> IF todo \in OnCore(c) THEN Append(objs[c], PartFor(todo, c))
                               ELSE objs[c]]
  BY <1>0, RoundOnCore
<1>3. T' = T
  BY Frame, FrameParts
<1>4. \A c \in Cores : objs[c] \in Seq(T)
  BY <1>0 DEF Objects
<1>5. \A c \in Cores : todo \in OnCore(c) => PartFor(todo, c) \in T
  BY <1>0, OnCoreFacts
<1> HIDE DEF T
<1>6. objs' \in [Cores -> Seq(T)]
  <2>1. ASSUME NEW c \in Cores
        PROVE  (IF todo \in OnCore(c) THEN Append(objs[c], PartFor(todo, c)) ELSE objs[c]) \in Seq(T)
    BY <1>4, <1>5
  <2> QED BY <1>2, <2>1
<1>7. ASSUME NEW c \in Cores
      PROVE  /\ DOMAIN objs'[c] = 1 .. Count(OnCore(c), todo')
             /\ \A i \in Below(OnCore(c), todo') :
                  Place(i, c) \in DOMAIN objs'[c] /\ objs'[c][Place(i, c)] = PartFor(i, c)
             /\ \A k \in DOMAIN objs'[c] : \E i \in Below(OnCore(c), todo') : Place(i, c) = k
  <2> DEFINE X == OnCore(c)
             n == Count(X, todo)
             B == Below(X, todo)
  <2>1. X \in SUBSET Nat /\ IsFiniteSet(X)
    BY <1>0, OnCoreFacts
  <2>2. n \in Nat
    BY <1>1, <2>1, CountType
  <2>3. /\ DOMAIN objs[c] = 1 .. n
        /\ \A i \in B : Place(i, c) \in DOMAIN objs[c] /\ objs[c][Place(i, c)] = PartFor(i, c)
        /\ \A k \in DOMAIN objs[c] : \E i \in B : Place(i, c) = k
    BY <1>0 DEF Objects, ObjectOf
  <2>4. Len(objs[c]) = n /\ objs[c] \in Seq(T)
    BY <1>4, <2>2, <2>3
  <2>5. Place(todo, c) = n + 1
    BY DEF Place
  <2>6. /\ todo \in X => Count(X, todo') = n + 1
        /\ todo \notin X => Count(X, todo') = n
    BY <1>1, <2>1, CountStep
  <2>7. /\ todo \in X => Below(X, todo') = B \cup {todo}
        /\ todo \notin X => Below(X, todo') = B
    <3>1. \A j \in X : j < todo + 1 <=> j < todo \/ j = todo
      BY <1>1, <2>1
    <3> QED BY <1>1, <3>1 DEF Below
  <2>8. objs'[c] = IF todo \in X THEN Append(objs[c], PartFor(todo, c)) ELSE objs[c]
    BY <1>2
  <2> HIDE DEF X, n, B
  <2>9. CASE todo \notin X
    <3>1. Below(X, todo') = B /\ Count(X, todo') = n /\ objs'[c] = objs[c]
      BY <2>6, <2>7, <2>8, <2>9
    <3> QED BY <2>3, <3>1 DEF X
  <2>10. CASE todo \in X
    <3>1. /\ Below(X, todo') = B \cup {todo} /\ Count(X, todo') = n + 1
          /\ objs'[c] = Append(objs[c], PartFor(todo, c)) /\ PartFor(todo, c) \in T
      BY <1>5, <2>6, <2>7, <2>8, <2>10 DEF X
    <3>2. /\ DOMAIN objs'[c] = 1 .. n + 1
          /\ \A k \in 1 .. n : objs'[c][k] = objs[c][k]
          /\ objs'[c][n + 1] = PartFor(todo, c)
      BY <2>2, <2>4, <3>1
    <3>3. /\ \A k \in 1 .. n : k \in 1 .. n + 1
          /\ \A k \in 1 .. n + 1 : k \in 1 .. n \/ k = n + 1
          /\ n + 1 \in 1 .. n + 1
      BY <2>2
    <3>4. \A i \in B \cup {todo} :
            Place(i, c) \in 1 .. n + 1 /\ objs'[c][Place(i, c)] = PartFor(i, c)
      BY <2>3, <2>5, <3>2, <3>3
    <3>5. \A k \in 1 .. n + 1 : \E i \in B \cup {todo} : Place(i, c) = k
      BY <2>3, <2>5, <3>3
    <3> QED BY <3>1, <3>2, <3>4, <3>5 DEF X
  <2> QED BY <2>9, <2>10
<1>8. \A c \in Cores' : ObjectOf(c)'
  BY <1>7, Frame, FrameParts DEF ObjectOf
<1>9. objs' \in [Cores' -> Seq(T')]
  BY <1>3, <1>6, Frame
<1> QED BY <1>1, <1>8, <1>9 DEF Objects, T

(* The other steps leave the objects alone.                                *)
LEMMA ObjectsKept ==
  ASSUME Objects, prog' = prog, objs' = objs, todo' = todo
  PROVE  Objects'
<1> DEFINE T == {PartFor(i, c) : i \in Enabled, c \in Cores}
<1>1. \A c \in Cores' : ObjectOf(c)'
  BY Frame, FrameParts DEF Objects, ObjectOf
<1>2. T' = T
  BY Frame, FrameParts
<1>3. objs \in [Cores -> Seq(T)] /\ todo \in 1 .. Len(prog.streams) + 1
  BY DEF Objects
<1> HIDE DEF T
<1>4. objs' \in [Cores' -> Seq(T')] /\ todo' \in 1 .. Len(prog'.streams) + 1
  BY <1>2, <1>3, Frame
<1> QED BY <1>1, <1>4 DEF Objects, T

(* So the objects keep their form.                                         *)
LEMMA ObjectsStep ==
  ASSUME CInv, Next
  PROVE  Objects'
<1>0. prog' = prog
  BY CheckedStep
<1>1. CASE CompileStream
  BY <1>0, <1>1, CompileStreamObjects
<1>2. CASE objs' = objs /\ todo' = todo
  BY <1>0, <1>2, ObjectsKept DEF CInv
<1>3. CompileStream \/ (objs' = objs /\ todo' = todo)
  BY DEF Next, AllocatePass, DirectPass, MarkNext, CheckUnreachable, CompileDone, LoadCore, SendPacket
<1> QED BY <1>1, <1>2, <1>3

(* Links are made once the objects are complete, and not changed.          *)
LEMMA LoadingStep ==
  ASSUME CInv, Next
  PROVE  Loading'
<1>0. prog' = prog /\ Cores' = Cores
  BY CheckedStep, Frame
<1>1. /\ prog \in Programs /\ Loading /\ Objects /\ 0 \in Cores
      /\ links = [c \in Cores |-> links[c]]
  BY ProgFacts DEF CInv, Loading
<1>2. CASE pc \notin {"crash", "load"} /\ links' = links /\ failed' = failed /\ ~CompileDone
  <2>1. \A c \in Cores : ~Loaded(c) /\ c \notin failed
    BY <1>1, <1>2 DEF Loading
  <2>2. pc' \notin {"crash", "load"}
    BY <1>2 DEF CInv, PcOK, Next, AllocatePass, DirectPass, MarkNext, CheckUnreachable, Passed,
                CompileStream, LoadCore, SendPacket
  <2> QED BY <1>0, <1>1, <1>2, <2>1, <2>2 DEF Loading, Loaded
<1>3. CASE CompileDone
  <2>1. \A c \in Cores : ~Loaded(c) /\ c \notin failed
    BY <1>1, <1>3 DEF Loading, CompileDone
  <2>2. todo' = todo /\ objs' = objs /\ links' = links /\ failed' = failed
    BY <1>3 DEF CompileDone
  <2>3. todo = Len(prog.streams) + 1
    BY <1>1, <1>3, ProgFacts DEF CompileDone, Objects
  <2>4. objs[0] = << >> <=> pc' = "crash"
    BY <1>3 DEF CompileDone
  <2> QED BY <1>0, <1>1, <2>1, <2>2, <2>3, <2>4 DEF Loading, Loaded
<1>4. ASSUME NEW c \in Cores, LoadCore(c)
      PROVE  Loading'
  <2> DEFINE position == [k \in DOMAIN objs[c] |-> Link(objs[c][k])]
             Bad == \E k \in DOMAIN objs[c] : Link(objs[c][k]) >= Len(objs[c])
  <2>1. /\ pc = "load" /\ pc' = pc /\ todo' = todo /\ objs' = objs
        /\ Bad => failed' = failed \cup {c} /\ links' = links
        /\ ~Bad => failed' = failed /\ links' = [links EXCEPT ![c] = position]
    BY <1>4 DEF LoadCore
  <2>2. links' = [d \in Cores' |-> links'[d]]
    BY <1>0, <1>1, <2>1
  <2> HIDE DEF position
  <2>3. ASSUME NEW d \in Cores
        PROVE  /\ links'[d] # << >> => links'[d] = [k \in DOMAIN objs[d] |-> Link(objs[d][k])]
               /\ d \in failed' => \E k \in DOMAIN objs[d] : Link(objs[d][k]) >= Len(objs[d])
    <3>1. /\ links[d] # << >> => links[d] = [k \in DOMAIN objs[d] |-> Link(objs[d][k])]
          /\ d \in failed => \E k \in DOMAIN objs[d] : Link(objs[d][k]) >= Len(objs[d])
      BY <1>1 DEF Loading, Loaded
    <3>2. links'[d] = links[d] \/ (d = c /\ links'[d] = position)
      BY <1>1, <2>1
    <3>3. d \in failed' => d \in failed \/ (d = c /\ Bad)
      BY <2>1
    <3> QED BY <3>1, <3>2, <3>3 DEF position
  <2>4. \A x : Link(x)' = Link(x)
    BY DEF Link
  <2> QED BY <1>0, <1>1, <2>1, <2>2, <2>3, <2>4 DEF Loading, Loaded, Link
<1>5. ASSUME NEW c \in Cores, SendPacket(c)
      PROVE  Loading'
  <2>1. UNCHANGED <<pc, todo, objs, links, failed>>
    BY <1>5 DEF SendPacket
  <2> QED BY <1>0, <1>1, <2>1 DEF Loading, Loaded, Link
<1>6. ASSUME AllocatePass \/ DirectPass \/ MarkNext \/ CheckUnreachable \/ CompileStream
      PROVE  pc \notin {"crash", "load"} /\ links' = links /\ failed' = failed /\ ~CompileDone
  BY <1>6 DEF AllocatePass, DirectPass, MarkNext, CheckUnreachable, CompileStream, CompileDone
<1> QED BY <1>2, <1>3, <1>4, <1>5, <1>6 DEF Next

(* The invariant holds of every reachable state.                           *)
LEMMA CompilerInvariant == Spec => []CInv
<1>1. Init => CInv
  BY InitInv
<1>2. CInv /\ [Next]_vars => CInv'
  <2> SUFFICES ASSUME CInv, [Next]_vars PROVE CInv'
    OBVIOUS
  <2>1. CASE Next
    <3>1. prog' = prog /\ PcOK' /\ Checked'
      BY <2>1, CheckedStep
    <3>2. Marking' /\ AcceptedIffWellFormed' /\ Objects' /\ Loading'
      BY <2>1, MarkingStep, AcceptedStep, ObjectsStep, LoadingStep
    <3> QED BY <3>1, <3>2 DEF CInv
  <2>2. CASE UNCHANGED vars
    <3>1. prog \in Programs /\ PcOK /\ Checked /\ Marking /\ AcceptedIffWellFormed /\ Objects /\ Loading
      BY DEF CInv
    <3>2. UNCHANGED <<prog, pc, stack, marked, todo, objs, links, failed, vmState>>
      BY <2>2 DEF vars
    <3>3. PcOK' /\ Checked' /\ Marking' /\ AcceptedIffWellFormed'
      BY <3>1, <3>2, Frame, FrameParts DEF PcOK, Checked, Marking, Seen, AcceptedIffWellFormed
    <3>4. Objects'
      BY <3>1, <3>2, ObjectsKept
    <3>5. Loading'
      BY <3>1, <3>2, Frame DEF Loading, Loaded, Link
    <3> QED BY <3>1, <3>2, <3>3, <3>4, <3>5 DEF CInv
  <2> QED BY <2>1, <2>2
<1> QED BY <1>1, <1>2, PTL DEF Spec

-----------------------------------------------------------------------------
(***************************************************************************)
(* What the objects hold when they are complete.                           *)
(***************************************************************************)

(* The three passes accept exactly the well-formed graphs.                 *)
THEOREM AcceptsExactlyWellFormed == Spec => []AcceptedIffWellFormed
BY CompilerInvariant, PTL DEF CInv

(* Every stream of a core is at its place in the object, and nothing else  *)
(* is in it.                                                               *)
LEMMA Complete ==
  ASSUME CInv, pc \in {"crash", "load"}, NEW c \in Cores
  PROVE  /\ DOMAIN objs[c] = 1 .. Cardinality(OnCore(c))
         /\ Len(objs[c]) = Cardinality(OnCore(c)) /\ Cardinality(OnCore(c)) \in Nat
         /\ \A i \in OnCore(c) :
              Place(i, c) \in DOMAIN objs[c] /\ objs[c][Place(i, c)] = PartFor(i, c)
         /\ \A k \in DOMAIN objs[c] :
              \E i \in OnCore(c) : Place(i, c) = k /\ objs[c][k] = PartFor(i, c)
<1> DEFINE X == OnCore(c)
<1>1. prog \in Programs /\ Objects /\ ObjectOf(c) /\ todo = Len(prog.streams) + 1
  BY DEF CInv, Loading, Objects
<1>2. /\ X \in SUBSET Nat /\ IsFiniteSet(X) /\ X \subseteq Ids
      /\ Len(prog.streams) \in Nat /\ Ids = 1 .. Len(prog.streams)
  BY <1>1, ProgFacts, OnCoreFacts
<1>3. \A j \in X : j < todo
  <2>1. \A j \in Ids : j < todo
    BY <1>1, <1>2
  <2> QED BY <1>2, <2>1
<1>4. Below(X, todo) = X
  BY <1>3 DEF Below
<1>5. Count(X, todo) = Cardinality(X) /\ Cardinality(X) \in Nat
  BY <1>2, <1>4, FS_CardinalityType DEF Count
<1>6. /\ DOMAIN objs[c] = 1 .. Count(X, todo)
      /\ \A i \in Below(X, todo) :
           Place(i, c) \in DOMAIN objs[c] /\ objs[c][Place(i, c)] = PartFor(i, c)
      /\ \A k \in DOMAIN objs[c] : \E i \in Below(X, todo) : Place(i, c) = k
  BY <1>1 DEF ObjectOf
<1>7. Len(objs[c]) = Cardinality(X)
  <2> DEFINE T == {PartFor(i, d) : i \in Enabled, d \in Cores}
  <2>1. objs[c] \in Seq(T)
    BY <1>1 DEF Objects
  <2> HIDE DEF T, X
  <2> QED BY <1>5, <1>6, <2>1
<1> HIDE DEF X
<1> QED BY <1>4, <1>5, <1>6, <1>7 DEF X

(* The fields of a part.                                                   *)
LEMMA PartFields ==
  ASSUME prog \in Programs, NEW i \in Enabled, NEW c \in Cores
  PROVE  /\ PartFor(i, c).id = Compressed(i) /\ PartFor(i, c).next = Compressed(S(i).next)
         /\ PartFor(i, c).self = S(i).self
         /\ PartFor(i, c).pkts = IF IsSplitable(i) THEN Share(i, c) ELSE S(i).pkts
         /\ PartFor(i, c).vm = IF IsSplitable(i) THEN SplitVm(S(i).vm, prog.cores, c) ELSE S(i).vm
         /\ Compressed(i) = Count(Enabled, i) /\ Compressed(i) \in Nat /\ i # None
<1>1. i # None /\ i \in Nat
  BY ProgFacts DEF None
<1>2. Compressed(i) = Count(Enabled, i)
  BY <1>1 DEF Compressed, Count, Below
<1>3. Compressed(i) \in Nat
  BY <1>1, <1>2, ProgFacts, CountType
<1> QED BY <1>1, <1>2, <1>3 DEF PartFor, DpStream

(* The parts of a stream are the ones it was split into.                   *)
LEMMA PartsOfStream ==
  ASSUME CInv, pc = "load", NEW i \in Enabled
  PROVE  /\ Parts(i) = {c \in Cores : i \in OnCore(c)}
         /\ \A c \in Parts(i) : PartOf(i, c) = PartFor(i, c)
<1>0. prog \in Programs /\ Enabled \in SUBSET Nat /\ IsFiniteSet(Enabled)
  BY ProgFacts DEF CInv
<1>1. ASSUME NEW c \in Cores, NEW k \in DOMAIN objs[c]
      PROVE  objs[c][k].id = Compressed(i) <=> i \in OnCore(c) /\ k = Place(i, c)
  <2>1. PICK j \in OnCore(c) : Place(j, c) = k /\ objs[c][k] = PartFor(j, c)
    BY <1>1, Complete
  <2>2. j \in Enabled
    BY <1>0, OnCoreFacts
  <2>3. objs[c][k].id = Compressed(j) /\ Compressed(j) = Count(Enabled, j)
    BY <1>0, <2>1, <2>2, PartFields
  <2>4. Compressed(i) = Count(Enabled, i)
    BY <1>0, PartFields
  <2>5. objs[c][k].id = Compressed(i) => i = j
    BY <1>0, <2>2, <2>3, <2>4, CountInjective
  <2>6. ASSUME i \in OnCore(c), k = Place(i, c)
        PROVE  objs[c][k].id = Compressed(i)
    <3>1. objs[c][k] = PartFor(i, c)
      BY <1>1, <2>6, Complete
    <3> QED BY <1>0, <3>1, PartFields
  <2> QED BY <2>1, <2>5, <2>6
<1>2. \A c \in Cores : i \in OnCore(c) => Place(i, c) \in DOMAIN objs[c]
  BY Complete
<1>3. Parts(i) = {c \in Cores : i \in OnCore(c)}
  BY <1>1, <1>2 DEF Parts
<1>4. ASSUME NEW c \in Parts(i)
      PROVE  PartOf(i, c) = PartFor(i, c)
  <2>1. c \in Cores /\ i \in OnCore(c)
    BY <1>3
  <2>2. (CHOOSE k \in DOMAIN objs[c] : objs[c][k].id = Compressed(i)) = Place(i, c)
    BY <1>1, <1>2, <2>1
  <2>3. objs[c][Place(i, c)] = PartFor(i, c)
    BY <2>1, Complete
  <2> QED BY <2>2, <2>3 DEF PartOf
<1> QED BY <1>3, <1>4

(* A number divided among the cores, the remainder on the first, adds up.  *)
LEMMA DivisionAddsUp ==
  ASSUME NEW a \in Nat, NEW n \in Nat \ {0}
  PROVE  Cardinality(UNION {{c} \X (1 .. a \div n + IF c = 0 THEN a % n ELSE 0) : c \in 0 .. n - 1})
           = a
<1> DEFINE q == a \div n
           r == a % n
           A == (0 .. n - 1) \X (1 .. q)
           B == {0} \X (q + 1 .. q + r)
           P == UNION {{c} \X (1 .. q + IF c = 0 THEN r ELSE 0) : c \in 0 .. n - 1}
<1>1. q \in Nat /\ r \in Nat /\ a = q * n + r
  OBVIOUS
<1> HIDE DEF q, r
<1>2. IsFiniteSet(A) /\ Cardinality(A) = n * q
  <2>1. IsFiniteSet(0 .. n - 1) /\ Cardinality(0 .. n - 1) = n
    BY FS_Interval
  <2>2. IsFiniteSet(1 .. q) /\ Cardinality(1 .. q) = q
    BY <1>1, FS_Interval
  <2> DEFINE C == 0 .. n - 1
             D == 1 .. q
  <2> HIDE DEF C, D
  <2>3. IsFiniteSet(C \X D) /\ Cardinality(C \X D) = Cardinality(C) * Cardinality(D)
    BY <2>1, <2>2, FS_Product DEF C, D
  <2> QED BY <2>1, <2>2, <2>3 DEF C, D
<1>3. IsFiniteSet(B) /\ Cardinality(B) = r
  <2>1. IsFiniteSet(q + 1 .. q + r) /\ Cardinality(q + 1 .. q + r) = r
    BY <1>1, FS_Interval
  <2>2. IsFiniteSet({0}) /\ Cardinality({0}) = 1
    BY FS_Singleton
  <2>3. Cardinality(B) = 1 * r /\ IsFiniteSet(B)
    BY <2>1, <2>2, FS_Product
  <2> QED BY <1>1, <2>3
<1>4. P = A \cup B
  <2>1. ASSUME NEW x \in P
        PROVE  x \in A \cup B
    <3>1. PICK c \in 0 .. n - 1 : x \in {c} \X (1 .. q + IF c = 0 THEN r ELSE 0)
      OBVIOUS
    <3>2. PICK k \in 1 .. q + (IF c = 0 THEN r ELSE 0) : x = <<c, k>>
      BY <3>1
    <3>3. k \in 1 .. q \/ (c = 0 /\ k \in q + 1 .. q + r)
      BY <1>1
    <3> QED BY <3>2, <3>3
  <2>2. ASSUME NEW x \in A
        PROVE  x \in P
    <3>1. PICK c \in 0 .. n - 1, k \in 1 .. q : x = <<c, k>>
      OBVIOUS
    <3>2. k \in 1 .. q + IF c = 0 THEN r ELSE 0
      BY <1>1
    <3> QED BY <3>1, <3>2
  <2>3. ASSUME NEW x \in B
        PROVE  x \in P
    <3>1. PICK k \in q + 1 .. q + r : x = <<0, k>>
      OBVIOUS
    <3>2. k \in 1 .. q + r /\ 0 \in 0 .. n - 1
      BY <1>1
    <3> QED BY <3>1, <3>2
  <2> QED BY <2>1, <2>2, <2>3
<1>5. A \cap B = {}
  BY <1>1
<1>6. Cardinality(A \cup B) = n * q + r - 0
  <2> HIDE DEF A, B
  <2>1. Cardinality(A \cap B) = 0
    BY <1>5, FS_EmptySet
  <2> QED BY <1>2, <1>3, <2>1, FS_Union
<1>7. n * q + r - 0 = a
  BY <1>1
<1> QED BY <1>4, <1>6, <1>7 DEF q, r

(* The packets of a burst: split, all of it and never an empty part; not   *)
(* split, all of it on the first core.                                     *)
LEMMA SharesOfStream ==
  ASSUME CInv, pc = "load", NEW i \in Enabled
  PROVE  /\ Parts(i) # {}
         /\ Cardinality(PacketsOf(i)) = S(i).pkts
         /\ ~S(i).cont /\ S(i).pkts > 0 => \A c \in Parts(i) : PartOf(i, c).pkts > 0
<1> DEFINE a == S(i).pkts
           n == prog.cores
<1>0. prog \in Programs
  BY DEF CInv
<1>1. a \in Nat /\ n \in Nat \ {0} /\ 0 \in Cores /\ S(i) \in StreamRec
  BY <1>0, ProgFacts DEF StreamRec
<1>2. /\ Parts(i) = {c \in Cores : i \in OnCore(c)}
      /\ \A c \in Parts(i) : PartOf(i, c) = PartFor(i, c)
  BY PartsOfStream
<1>3. 0 \in Parts(i)
  BY <1>1, <1>2 DEF OnCore
<1>4. \A c \in Parts(i) : PartOf(i, c).pkts = IF IsSplitable(i) THEN Share(i, c) ELSE a
  BY <1>0, <1>2, PartFields
<1>5. CASE IsSplitable(i)
  <2>1. Parts(i) = 0 .. n - 1
    BY <1>2, <1>5 DEF OnCore, Cores
  <2>2. \A c \in Parts(i) : PartOf(i, c).pkts = a \div n + IF c = 0 THEN a % n ELSE 0
    BY <1>4, <1>5 DEF Share
  <2>3. PacketsOf(i) = UNION {{c} \X (1 .. a \div n + IF c = 0 THEN a % n ELSE 0) : c \in 0 .. n - 1}
    BY <2>1, <2>2 DEF PacketsOf
  <2>4. Cardinality(PacketsOf(i)) = a
    BY <1>1, <2>3, DivisionAddsUp
  <2>5. ASSUME ~S(i).cont, NEW c \in Parts(i)
        PROVE  PartOf(i, c).pkts > 0
    <3>1. a \div n > 0 /\ a \div n \in Nat /\ a % n \in Nat
      BY <1>1, <1>5, <2>5 DEF IsSplitable
    <3> QED BY <2>2, <2>5, <3>1
  <2> QED BY <1>3, <2>4, <2>5
<1>6. CASE ~IsSplitable(i)
  <2>1. Parts(i) = {0}
    BY <1>1, <1>2, <1>6 DEF OnCore
  <2>2. PartOf(i, 0).pkts = a
    BY <1>3, <1>4, <1>6
  <2>3. PacketsOf(i) = {0} \X (1 .. a)
    BY <2>1, <2>2 DEF PacketsOf
  <2> HIDE DEF a
  <2> DEFINE D == 1 .. a
  <2>4. IsFiniteSet(D) /\ Cardinality(D) = a
    BY <1>1, FS_Interval
  <2> HIDE DEF D
  <2>5. IsFiniteSet({0}) /\ Cardinality({0}) = 1
    BY FS_Singleton
  <2>6. Cardinality({0} \X D) = 1 * a
    BY <2>4, <2>5, FS_Product
  <2>7. 1 * a = a
    BY <1>1
  <2> QED BY <1>3, <2>1, <2>2, <2>3, <2>6, <2>7 DEF a, D
<1> QED BY <1>5, <1>6

(* Splitting a burst over the cores neither loses nor repeats a packet,    *)
(* and gives no core an empty burst the user did not ask for.              *)
THEOREM BurstsAreShared == Spec => []SharesAddUp
<1>1. CInv => SharesAddUp
  BY SharesOfStream DEF SharesAddUp
<1> QED BY <1>1, CompilerInvariant, PTL

(* On core 0, and on every core if all bursts are long enough to split,    *)
(* a compressed id is the position of its stream.                          *)
LEMMA LinksOfCore ==
  ASSUME CInv, NEW c \in Cores, OnCore(c) = Enabled
  PROVE  LinkIsNext(c)
<1>0. prog \in Programs /\ Loading
  BY DEF CInv
<1>1. ASSUME pc = "load", NEW k \in DOMAIN objs[c]
      PROVE  /\ Link(objs[c][k]) = objs[c][k].next
             /\ \/ objs[c][k].next = None
                \/ /\ objs[c][k].next \in Nat /\ objs[c][k].next < Len(objs[c])
                   /\ objs[c][objs[c][k].next + 1].id = objs[c][k].next
             /\ Len(objs[c]) \in Nat
  <2>1. PICK i \in OnCore(c) : objs[c][k] = PartFor(i, c)
    BY <1>1, Complete
  <2>2. objs[c][k].next = Compressed(S(i).next) /\ i \in Enabled
    BY <1>0, <2>1, PartFields
  <2>3. S(i).next \in Enabled \cup {None}
    BY <1>0, <1>1, <2>2 DEF CInv, Checked, PointsToNode
  <2>4. Link(objs[c][k]) = objs[c][k].next
    BY DEF Link
  <2>5. Len(objs[c]) \in Nat
    BY <1>1, Complete
  <2>6. CASE S(i).next = None
    BY <2>2, <2>4, <2>5, <2>6 DEF Compressed
  <2>7. CASE S(i).next \in Enabled
    <3> DEFINE j == S(i).next
    <3>1. /\ PartFor(j, c).id = Compressed(j) /\ Compressed(j) = Count(Enabled, j)
          /\ Compressed(j) \in Nat
      BY <1>0, <2>7, PartFields
    <3>2. Place(j, c) = Compressed(j) + 1
      BY <3>1 DEF Place
    <3>3. /\ Place(j, c) \in DOMAIN objs[c] /\ objs[c][Place(j, c)] = PartFor(j, c)
          /\ DOMAIN objs[c] = 1 .. Len(objs[c])
      BY <1>1, <2>7, Complete
    <3> HIDE DEF j
    <3>4. Compressed(j) < Len(objs[c])
      BY <2>5, <3>1, <3>2, <3>3
    <3> QED BY <2>2, <2>4, <2>5, <3>1, <3>2, <3>3, <3>4 DEF j
  <2> QED BY <2>3, <2>6, <2>7
<1>2. c \notin failed
  <2> SUFFICES ASSUME c \in failed PROVE FALSE
    OBVIOUS
  <2>1. pc = "load" /\ \E k \in DOMAIN objs[c] : Link(objs[c][k]) >= Len(objs[c])
    BY <1>0 DEF Loading
  <2> QED BY <1>1, <2>1 DEF None
<1>3. ASSUME Loaded(c), NEW k \in DOMAIN objs[c], objs[c][k].next # None
      PROVE  objs[c][links[c][k] + 1].id = objs[c][k].next
  <2>1. pc = "load" /\ links[c][k] = Link(objs[c][k])
    BY <1>0, <1>3 DEF Loading
  <2> QED BY <1>1, <1>3, <2>1
<1> QED BY <1>2, <1>3 DEF LinkIsNext

(* Where the compressed ids are positions, every node continues with the   *)
(* successor of its stream and the assert in start_traffic holds.          *)
THEOREM LinksAreSuccessors == Spec => []LinkedToSuccessor
<1>1. ASSUME CInv
      PROVE  LinkedToSuccessor
  <2>1. \A c \in Cores : c = 0 \/ (\A i \in Enabled : IsSplitable(i)) => OnCore(c) = Enabled
    BY <1>1, OnCoreFacts DEF CInv
  <2> QED BY <1>1, <2>1, LinksOfCore DEF LinkedToSuccessor
<1> QED BY <1>1, CompilerInvariant, PTL

(* What a run of a port assumes of its objects: something to send on core  *)
(* 0, endless objects everywhere if all the streams are continuous, and no *)
(* core without a first stream unless a burst was too short to split.      *)
THEOREM WorkloadsAreSound == Spec => []WorkloadSound
<1> DEFINE Begins(c) == \E k \in DOMAIN objs[c] : objs[c][k].self
<1>1. ASSUME CInv
      PROVE  WorkloadSound
  <2>0. prog \in Programs /\ Loading /\ AcceptedIffWellFormed /\ 0 \in Cores
    BY <1>1, ProgFacts DEF CInv
  <2>1. pc \in {"crash", "load"} => (Enabled = {} <=> objs[0] = << >>)
    <3> SUFFICES ASSUME pc \in {"crash", "load"}
                 PROVE  Enabled = {} <=> objs[0] = << >>
      OBVIOUS
    <3>1. DOMAIN objs[0] = 1 .. Cardinality(Enabled) /\ Len(objs[0]) = Cardinality(Enabled)
      BY <1>1, <2>0, Complete, OnCoreFacts
    <3>2. IsFiniteSet(Enabled) /\ Cardinality(Enabled) \in Nat
      BY <2>0, ProgFacts, FS_CardinalityType
    <3>3. Cardinality(Enabled) = 0 <=> Enabled = {}
      BY <3>2, FS_EmptySet
    <3>4. objs[0] \in Seq({PartFor(i, c) : i \in Enabled, c \in Cores})
      BY <1>1, <2>0 DEF CInv, Objects
    <3>5. Len(objs[0]) = 0 <=> objs[0] = << >>
      <4> DEFINE T == {PartFor(i, c) : i \in Enabled, c \in Cores}
      <4>1. objs[0] \in Seq(T)
        BY <3>4
      <4> HIDE DEF T
      <4> QED BY <4>1
    <3> QED BY <3>1, <3>3, <3>5
  <2>2. pc = "crash" => Enabled = {}
    BY <2>0, <2>1 DEF Loading
  <2>3. ASSUME pc = "load"
        PROVE  WellFormed /\ Enabled # {} /\ Roots # {} /\ Roots \subseteq Enabled
    <3>1. WellFormed /\ Enabled # {}
      BY <2>0, <2>1, <2>3 DEF Loading, AcceptedIffWellFormed
    <3>2. Roots = {} => {} = Enabled
      BY <3>1 DEF WellFormed
    <3> QED BY <3>1, <3>2 DEF Roots
  <2>4. ASSUME pc = "load", NEW c \in Cores, NEW i \in OnCore(c), S(i).self
        PROVE  Begins(c)
    <3>1. Place(i, c) \in DOMAIN objs[c] /\ objs[c][Place(i, c)] = PartFor(i, c)
      BY <1>1, <2>4, Complete
    <3>2. PartFor(i, c).self
      BY <2>0, <2>4, OnCoreFacts, PartFields
    <3> QED BY <3>1, <3>2
  <2>5. ASSUME pc = "load"
        PROVE  Begins(0)
    BY <2>0, <2>3, <2>4, <2>5, OnCoreFacts DEF Roots
  <2>6. ASSUME pc = "load", NEW c \in Cores, \A i \in Enabled : IsSplitable(i)
        PROVE  Begins(c)
    BY <2>0, <2>3, <2>4, <2>6, OnCoreFacts DEF Roots
  <2>7. ASSUME pc = "load", AllContinues, NEW c \in Cores
        PROVE  objs[c] # << >> /\ \A k \in DOMAIN objs[c] : objs[c][k].self
    <3>1. Roots = Enabled
      <4>1. \A i \in Roots : S(i).next = None
        BY <2>3, <2>7 DEF WellFormed, AllContinues, Enabled, Roots
      <4> QED BY <2>3, <2>7, <4>1 DEF WellFormed
    <3>2. \A i \in Enabled : IsSplitable(i)
      BY <2>7 DEF AllContinues, Enabled, IsSplitable
    <3>3. Begins(c)
      BY <2>6, <2>7, <3>2
    <3>4. objs[c] # << >>
      BY <3>3
    <3>5. ASSUME NEW k \in DOMAIN objs[c]
          PROVE  objs[c][k].self
      <4>1. PICK i \in OnCore(c) : objs[c][k] = PartFor(i, c)
        BY <1>1, <2>7, Complete
      <4>2. i \in Roots
        BY <2>0, <3>1, OnCoreFacts
      <4> QED BY <2>0, <4>1, <4>2, PartFields DEF Roots
    <3> QED BY <3>4, <3>5
  <2> QED BY <2>2, <2>5, <2>6, <2>7 DEF WorkloadSound
<1> QED BY <1>1, CompilerInvariant, PTL

-----------------------------------------------------------------------------
(***************************************************************************)
(* The values a variable of step one takes: the k-th of a burst, as long   *)
(* as the burst is not longer than the range.                              *)
(***************************************************************************)
Size(vm) == vm.hi - vm.lo + 1

OneByOne(vm) == vm.kind = "client" \/ (vm.kind = "var" /\ vm.step = 1 /\ vm.op \in {"inc", "dec"})

Up(vm, x)   == IF x <= vm.hi THEN x ELSE x - Size(vm)
Down(vm, x) == IF x >= vm.lo THEN x ELSE x + Size(vm)

Value(vm, k) ==
  IF vm.kind = "client" THEN IF vm.lo > 0 THEN vm.lo + k - 1 ELSE Up(vm, k)
  ELSE IF vm.op = "inc" THEN Up(vm, vm.init + k - 1) ELSE Down(vm, vm.init - k + 1)

Regular(vm) == vm \in Vms /\ vm.kind # "none" /\ StartsInRange(vm) /\ ~Wraps(vm)

(* The state of the variable on a core that has sent some of its burst.    *)
Written(vm, pkts, value, sent) ==
  /\ Len(sent) <= pkts
  /\ value = IF sent = << >> THEN BssInit(vm) ELSE sent[Len(sent)]
  /\ Regular(vm) => \A k \in DOMAIN sent : sent[k] \in vm.lo .. vm.hi
  /\ Regular(vm) /\ OneByOne(vm) =>
       \A k \in DOMAIN sent : k <= Size(vm) => sent[k] = Value(vm, k)

VmOK ==
  vmState \in [Cores -> [value : Int, sent : Seq(Int)]]

Writing ==
  \A c \in Cores :
    /\ ~Loaded(c) => vmState[c].sent = << >>
    /\ Loaded(c) => Written(objs[c][1].vm, objs[c][1].pkts, vmState[c].value, vmState[c].sent)

AnyVm == [kind : {"none", "var", "client"}, op : {"inc", "dec", "random"}, step : Nat,
          lo : Int, hi : Int, init : Int, size : {"byte", "word", "quad"}]

(* The quotient and the remainder of a division.                           *)
Division(a, n, q, r) == q = a \div n /\ r = a % n

(* What a core gets of a divided number: never nothing, never more than    *)
(* there is.                                                               *)
LEMMA DivisionFits ==
  ASSUME NEW a \in Nat, NEW n \in Nat \ {0}, NEW c \in 0 .. n - 1, a >= n,
         NEW q, NEW r, Division(a, n, q, r)
  PROVE  /\ q \in Nat \ {0} /\ r \in Nat /\ a = q * n + r
         /\ c * q \in Nat /\ c * q + q <= q * n
         /\ c > 0 => c * q >= q
<1>1. q \in Nat \ {0} /\ r \in Nat /\ a = q * n + r
  BY DEF Division
<1>2. c \in Nat /\ c + 1 <= n
  OBVIOUS
<1>3. ASSUME NEW x \in Nat, NEW y \in Nat, x <= y PROVE x * q <= y * q
  BY <1>1, <1>3
<1>4. (c + 1) * q <= n * q /\ (c > 0 => 1 * q <= c * q)
  BY <1>2, <1>3
<1>5. (c + 1) * q = c * q + q /\ n * q = q * n /\ 1 * q = q /\ c * q \in Nat
  BY <1>1, <1>2
<1> QED BY <1>1, <1>4, <1>5

(* The size of a range that starts before it ends.                         *)
LEMMA SplitableIs ==
  ASSUME NEW vm \in Vms, vm.lo <= vm.hi
  PROVE  /\ Size(vm) \in Nat /\ Size(vm) > 0 /\ Size(vm) <= Top
         /\ SplitableRange(vm) = Size(vm) \/ SplitableRange(vm) = 0
         /\ Size(vm) < Top => SplitableRange(vm) = Size(vm)
<1>1. vm.lo \in 0 .. Top - 1 /\ vm.hi \in 0 .. Top - 1 /\ Top \in Nat /\ Top > 1
  BY TopAssumption DEF Vms
<1>2. Size(vm) \in Nat /\ Size(vm) > 0 /\ Size(vm) <= Top
  BY <1>1 DEF Size
<1>3. SplitableRange(vm) = IF vm.kind = "client" \/ vm.size = "quad" THEN Size(vm) % Top ELSE Size(vm)
  BY DEF SplitableRange, Size
<1>4. \A x \in Nat : x < Top => x % Top = x
  BY <1>1
<1>5. Top % Top = 0
  BY <1>1
<1>6. Size(vm) % Top = Size(vm) \/ Size(vm) % Top = 0
  BY <1>1, <1>2, <1>4, <1>5
<1> QED BY <1>2, <1>3, <1>4, <1>6

(* A piece of a range is a range in it.                                    *)
LEMMA PieceFacts ==
  ASSUME NEW vm \in Vms, vm.lo <= vm.hi, NEW n \in Nat \ {0}, NEW c \in 0 .. n - 1,
         IsSplit(vm, n), NEW p, p = Piece(vm, n, c),
         NEW q, NEW r, Division(Size(vm), n, q, r)
  PROVE  /\ p \in Vms
         /\ p.kind = vm.kind /\ p.op = vm.op /\ p.step = vm.step /\ p.size = vm.size
         /\ p.lo = vm.lo + (IF c = 0 THEN 0 ELSE r + c * q)
         /\ Size(p) = q + (IF c = 0 THEN r ELSE 0) /\ p.hi = p.lo + Size(p) - 1
         /\ vm.lo <= p.lo /\ p.lo <= p.hi /\ p.hi <= vm.hi
         /\ p.init \in p.lo .. p.hi
         /\ p.init = IF vm.op = "dec" THEN p.hi ELSE p.lo
<1>0. /\ vm.lo \in 0 .. Top - 1 /\ vm.hi \in 0 .. Top - 1 /\ Top \in Nat
      /\ vm.hi = vm.lo + Size(vm) - 1
  BY TopAssumption DEF Vms, Size
<1>1. SplitableRange(vm) = Size(vm) /\ Size(vm) \in Nat /\ Size(vm) >= n
  BY SplitableIs DEF IsSplit
<1>2. /\ q \in Nat \ {0} /\ r \in Nat /\ Size(vm) = q * n + r
      /\ c * q \in Nat /\ c * q + q <= q * n /\ q * n \in Nat
  <2>1. /\ q \in Nat \ {0} /\ r \in Nat /\ Size(vm) = q * n + r
        /\ c * q \in Nat /\ c * q + q <= q * n
    BY <1>1, DivisionFits
  <2>2. \A x, y \in Nat : x * y \in Nat
    OBVIOUS
  <2>3. q * n \in Nat
    BY <2>1, <2>2
  <2> QED BY <2>1, <2>3
<1> DEFINE start == IF c = 0 THEN vm.lo ELSE vm.lo + r + c * q
           end   == IF c = 0 THEN start + q + r - 1 ELSE start + q - 1
<1>3. p = [vm EXCEPT !.lo = start, !.hi = end, !.init = IF vm.op = "dec" THEN end ELSE start]
  BY <1>1 DEF Piece, Division
<1>4. /\ start \in Nat /\ end \in Nat /\ vm.lo <= start /\ start <= end /\ end <= vm.hi
      /\ start = vm.lo + (IF c = 0 THEN 0 ELSE r + c * q)
      /\ end - start + 1 = q + (IF c = 0 THEN r ELSE 0)
  <2> DEFINE m == c * q
             k == q * n
  <2>1. /\ vm.lo \in Nat /\ vm.hi \in Nat /\ q \in Nat /\ q >= 1 /\ r \in Nat
        /\ m \in Nat /\ k \in Nat /\ m + q <= k /\ vm.hi = vm.lo + (k + r) - 1
    <3>1. m \in Nat /\ k \in Nat /\ m + q <= k /\ Size(vm) = k + r
      BY <1>2
    <3>2. vm.lo \in Nat /\ vm.hi \in Nat /\ q \in Nat /\ q >= 1 /\ r \in Nat
      BY <1>0, <1>2
    <3> HIDE DEF m, k
    <3> QED BY <1>0, <3>1, <3>2
  <2> HIDE DEF k
  <2>2. /\ c = 0 => start = vm.lo /\ end = vm.lo + q + r - 1 /\ end = start + q + r - 1
        /\ c # 0 => /\ start = vm.lo + r + m /\ end = vm.lo + r + m + q - 1
                    /\ end = start + q - 1
    OBVIOUS
  <2> HIDE DEF m, start, end
  <2>3. /\ start \in Nat /\ end \in Nat /\ vm.lo <= start /\ start <= end /\ end <= vm.hi
        /\ start = vm.lo => start = vm.lo + 0
        /\ end = start + q + r - 1 => end - start + 1 = q + r
        /\ end = start + q - 1 => end - start + 1 = q + 0
        /\ start = vm.lo + r + m => start = vm.lo + (r + m)
    <3>1. \/ start = vm.lo /\ end = vm.lo + q + r - 1
          \/ start = vm.lo + r + m /\ end = vm.lo + r + m + q - 1
      BY <2>2
    <3> QED BY <2>1, <3>1
  <2> QED BY <2>2, <2>3 DEF m
<1> HIDE DEF start, end
<1>5. /\ p.lo = start /\ p.hi = end /\ p.init = IF vm.op = "dec" THEN end ELSE start
      /\ p.kind = vm.kind /\ p.op = vm.op /\ p.step = vm.step /\ p.size = vm.size
  BY <1>3 DEF Vms
<1>6. start \in 0 .. Top - 1 /\ end \in 0 .. Top - 1
  BY <1>0, <1>4
<1>7. p \in Vms
  BY <1>3, <1>6 DEF Vms
<1>8. Size(p) = end - start + 1 /\ end = start + (end - start + 1) - 1
  BY <1>4, <1>5 DEF Size
<1>9. p.init \in start .. end
  BY <1>4, <1>5
<1> QED BY <1>4, <1>5, <1>7, <1>8, <1>9

(* The fields of a regular variable.                                       *)
LEMMA RegularFields ==
  ASSUME NEW vm, Regular(vm)
  PROVE  /\ vm.lo \in Nat /\ vm.hi \in Nat /\ vm.init \in Nat /\ vm.step \in Nat
         /\ vm.lo <= vm.hi /\ vm.hi < Top /\ Top \in Nat
         /\ vm.kind \in {"var", "client"} /\ vm.op \in {"inc", "dec", "random"}
         /\ vm.size \in {"byte", "word", "quad"}
         /\ vm.kind = "var" => vm.init >= vm.lo /\ vm.init <= vm.hi
         /\ vm.kind = "client" => vm.hi < Top - 1
<1>1. /\ vm.lo \in 0 .. Top - 1 /\ vm.hi \in 0 .. Top - 1 /\ vm.init \in 0 .. Top - 1
      /\ vm.step \in Nat /\ Top \in Nat
      /\ vm.kind \in {"var", "client"} /\ vm.op \in {"inc", "dec", "random"}
      /\ vm.size \in {"byte", "word", "quad"}
  BY TopAssumption DEF Regular, Vms
<1>2. vm.lo <= vm.hi /\ (vm.kind = "var" => vm.init \in vm.lo .. vm.hi)
  BY DEF Regular, StartsInRange
<1>3. vm.kind = "client" => vm.hi # Top - 1
  BY DEF Regular, Wraps
<1> QED BY <1>1, <1>2, <1>3

(* The numbers below Top are their own remainders.                         *)
LEMMA ModTop ==
  ASSUME NEW x \in Nat, x < Top, Top \in Nat
  PROVE  x % Top = x
OBVIOUS

(* A program keeps a regular variable in its range: from any value of the  *)
(* range and from the first one.                                           *)
LEMMA RunStaysInRange ==
  ASSUME NEW vm, Regular(vm), NEW v \in Nat,
         v \in vm.lo .. vm.hi \/ v = BssInit(vm), NEW w \in RunVm(vm, v)
  PROVE  w \in vm.lo .. vm.hi
<1> DEFINE lo == vm.lo
           hi == vm.hi
           st == vm.step
<1>1. /\ lo \in Nat /\ hi \in Nat /\ vm.init \in Nat /\ st \in Nat
      /\ lo <= hi /\ hi < Top /\ Top \in Nat
      /\ vm.kind \in {"var", "client"} /\ vm.op \in {"inc", "dec", "random"}
      /\ vm.size \in {"byte", "word", "quad"}
      /\ vm.kind = "var" => vm.init >= lo /\ vm.init <= hi
      /\ vm.kind = "client" => hi < Top - 1
  BY RegularFields
<1>2. CASE vm.kind = "client"
  <2>1. w = RunClient(vm, v)
    BY <1>2 DEF RunVm
  <2>2. v <= hi /\ v + 1 >= lo
    BY <1>1, <1>2 DEF BssInit
  <2>3. (v + 1) % Top = v + 1
    <3>1. v + 1 \in Nat /\ v + 1 < Top /\ v + 1 = v + 1 /\ Top \in Nat
      BY <1>1, <1>2, <2>2
    <3> DEFINE y == v + 1
    <3>2. y \in Nat /\ y < Top /\ y = v + 1 /\ Top \in Nat
      BY <3>1
    <3> HIDE DEF y
    <3>3. y % Top = y
      BY <3>2, ModTop
    <3> QED BY <3>2, <3>3 DEF y
  <2>4. w = IF v + 1 > hi THEN lo ELSE v + 1
    BY <2>1, <2>3 DEF RunClient
  <2> QED BY <1>1, <2>2, <2>4
<1>3. CASE vm.kind = "var" /\ vm.op = "inc"
  <2>1. w = RunInc(vm, v)
    BY <1>3 DEF RunVm
  <2>2. v >= lo /\ v <= hi
    BY <1>1, <1>3 DEF BssInit
  <2>3. CASE st = 1
    <3>1. w = IF v = hi THEN lo ELSE (v + 1) % Top
      BY <2>1, <2>3 DEF RunInc
    <3>2. v # hi => (v + 1) % Top = v + 1
      <4> SUFFICES ASSUME v # hi PROVE (v + 1) % Top = v + 1
        OBVIOUS
      <4>1. v + 1 \in Nat /\ v + 1 < Top /\ v + 1 = v + 1 /\ Top \in Nat
        BY <1>1, <2>2
      <4> DEFINE y == v + 1
      <4>2. y \in Nat /\ y < Top /\ y = v + 1 /\ Top \in Nat
        BY <4>1
      <4> HIDE DEF y
      <4>3. y % Top = y
        BY <4>2, ModTop
      <4> QED BY <4>2, <4>3 DEF y
    <3> QED BY <1>1, <2>2, <3>1, <3>2
  <2>4. CASE st # 1
    <3>1. Bound(vm, hi - st) = hi - st
      <4>1. CASE vm.size = "byte"
        BY <4>1 DEF Bound
      <4>2. CASE vm.size # "byte"
        <5>1. hi >= st
          BY <1>1, <1>3, <2>4, <4>2 DEF Regular, Wraps
        <5>2. (hi - st) % Top = hi - st
          <6>1. hi - st \in Nat /\ hi - st < Top /\ hi - st = hi - st /\ Top \in Nat
            BY <1>1, <5>1
          <6> DEFINE y == hi - st
          <6>2. y \in Nat /\ y < Top /\ y = hi - st /\ Top \in Nat
            BY <6>1
          <6> HIDE DEF y
          <6>3. y % Top = y
            BY <6>2, ModTop
          <6> QED BY <6>2, <6>3 DEF y
        <5> QED BY <4>2, <5>2 DEF Bound
      <4> QED BY <4>1, <4>2
    <3>2. w = IF v > hi - st THEN lo ELSE (v + st) % Top
      BY <2>1, <2>4, <3>1 DEF RunInc
    <3>3. ~(v > hi - st) => (v + st) % Top = v + st
      <4> SUFFICES ASSUME ~(v > hi - st) PROVE (v + st) % Top = v + st
        OBVIOUS
      <4>1. v + st \in Nat /\ v + st < Top /\ v + st = v + st /\ Top \in Nat
        BY <1>1, <2>2
      <4> DEFINE y == v + st
      <4>2. y \in Nat /\ y < Top /\ y = v + st /\ Top \in Nat
        BY <4>1
      <4> HIDE DEF y
      <4>3. y % Top = y
        BY <4>2, ModTop
      <4> QED BY <4>2, <4>3 DEF y
    <3> QED BY <1>1, <2>2, <3>2, <3>3
  <2> QED BY <2>3, <2>4
<1>4. CASE vm.kind = "var" /\ vm.op = "dec"
  <2>1. w = RunDec(vm, v)
    BY <1>4 DEF RunVm
  <2>2. v >= lo /\ v <= hi
    BY <1>1, <1>4 DEF BssInit
  <2>3. CASE st = 1
    <3>1. w = IF v = lo THEN hi ELSE (v - 1) % Top
      BY <2>1, <2>3 DEF RunDec
    <3>2. v # lo => (v - 1) % Top = v - 1
      <4> SUFFICES ASSUME v # lo PROVE (v - 1) % Top = v - 1
        OBVIOUS
      <4>1. v - 1 \in Nat /\ v - 1 < Top /\ v - 1 = v - 1 /\ Top \in Nat
        BY <1>1, <2>2
      <4> DEFINE y == v - 1
      <4>2. y \in Nat /\ y < Top /\ y = v - 1 /\ Top \in Nat
        BY <4>1
      <4> HIDE DEF y
      <4>3. y % Top = y
        BY <4>2, ModTop
      <4> QED BY <4>2, <4>3 DEF y
    <3> QED BY <1>1, <2>2, <3>1, <3>2
  <2>4. CASE st # 1
    <3>1. Bound(vm, lo + st) = lo + st
      <4>1. CASE vm.size = "byte"
        BY <4>1 DEF Bound
      <4>2. CASE vm.size # "byte"
        <5>1. lo + st < Top
          BY <1>1, <1>4, <2>4, <4>2 DEF Regular, Wraps
        <5>2. (lo + st) % Top = lo + st
          <6>1. lo + st \in Nat /\ lo + st < Top /\ lo + st = lo + st /\ Top \in Nat
            BY <1>1, <5>1
          <6> DEFINE y == lo + st
          <6>2. y \in Nat /\ y < Top /\ y = lo + st /\ Top \in Nat
            BY <6>1
          <6> HIDE DEF y
          <6>3. y % Top = y
            BY <6>2, ModTop
          <6> QED BY <6>2, <6>3 DEF y
        <5> QED BY <4>2, <5>2 DEF Bound
      <4> QED BY <4>1, <4>2
    <3>2. w = IF v < lo + st THEN hi ELSE (v - st) % Top
      BY <2>1, <2>4, <3>1 DEF RunDec
    <3>3. ~(v < lo + st) => (v - st) % Top = v - st
      <4> SUFFICES ASSUME ~(v < lo + st) PROVE (v - st) % Top = v - st
        OBVIOUS
      <4>1. v - st \in Nat /\ v - st < Top /\ v - st = v - st /\ Top \in Nat
        BY <1>1, <2>2
      <4> DEFINE y == v - st
      <4>2. y \in Nat /\ y < Top /\ y = v - st /\ Top \in Nat
        BY <4>1
      <4> HIDE DEF y
      <4>3. y % Top = y
        BY <4>2, ModTop
      <4> QED BY <4>2, <4>3 DEF y
    <3> QED BY <1>1, <2>2, <3>2, <3>3
  <2> QED BY <2>3, <2>4
<1>5. CASE vm.kind = "var" /\ vm.op = "random"
  <2>1. w \in RunRand(vm) /\ vm.size # "quad"
    BY <1>5 DEF RunVm, Regular, Wraps
  <2> QED BY <1>1, <2>1 DEF RunRand
<1> QED BY <1>1, <1>2, <1>3, <1>4, <1>5

(* A variable of step one starts with the first value ...                  *)
LEMMA FirstValue ==
  ASSUME NEW vm, Regular(vm), OneByOne(vm), NEW w \in RunVm(vm, BssInit(vm))
  PROVE  w = Value(vm, 1)
<1> DEFINE lo == vm.lo
           hi == vm.hi
           x  == vm.init
<1>1. /\ lo \in Nat /\ hi \in Nat /\ x \in Nat /\ lo <= hi /\ hi < Top /\ Top \in Nat
      /\ vm.kind \in {"var", "client"} /\ vm.op \in {"inc", "dec", "random"}
      /\ vm.kind = "var" => x >= lo /\ x <= hi
      /\ vm.kind = "client" => hi < Top - 1
  BY RegularFields
<1>2. CASE vm.kind = "client"
  <2>1. w = RunClient(vm, BssInit(vm))
    BY <1>2 DEF RunVm
  <2>2. BssInit(vm) = IF lo > 0 THEN lo - 1 ELSE lo
    BY <1>2 DEF BssInit
  <2>3. (BssInit(vm) + 1) % Top = BssInit(vm) + 1
    <3>1. BssInit(vm) + 1 \in Nat /\ BssInit(vm) + 1 < Top /\ BssInit(vm) + 1 = BssInit(vm) + 1 /\ Top \in Nat
      BY <1>1, <1>2, <2>2
    <3> DEFINE y == BssInit(vm) + 1
    <3>2. y \in Nat /\ y < Top /\ y = BssInit(vm) + 1 /\ Top \in Nat
      BY <3>1
    <3> HIDE DEF y
    <3>3. y % Top = y
      BY <3>2, ModTop
    <3> QED BY <3>2, <3>3 DEF y
  <2>4. w = IF BssInit(vm) + 1 > hi THEN lo ELSE BssInit(vm) + 1
    BY <2>1, <2>3 DEF RunClient
  <2>5. Value(vm, 1) = IF lo > 0 THEN lo + 1 - 1 ELSE IF 1 <= hi THEN 1 ELSE 1 - (hi - lo + 1)
    BY <1>2 DEF Value, Up, Size
  <2> QED BY <1>1, <2>2, <2>4, <2>5
<1>3. CASE vm.kind = "var" /\ vm.op = "inc" /\ vm.step = 1
  <2>1. w = RunInc(vm, BssInit(vm))
    BY <1>3 DEF RunVm
  <2>2. BssInit(vm) = IF x = lo THEN hi ELSE x - 1
    BY <1>3 DEF BssInit
  <2>3. w = IF BssInit(vm) = hi THEN lo ELSE (BssInit(vm) + 1) % Top
    BY <1>3, <2>1 DEF RunInc
  <2>4. Value(vm, 1) = x
    BY <1>1, <1>3 DEF Value, Up
  <2>5. x # lo => (BssInit(vm) + 1) % Top = x
    <3> SUFFICES ASSUME x # lo PROVE (BssInit(vm) + 1) % Top = x
      OBVIOUS
    <3>1. BssInit(vm) + 1 \in Nat /\ BssInit(vm) + 1 < Top /\ BssInit(vm) + 1 = x /\ Top \in Nat
      BY <1>1, <1>3, <2>2
    <3> DEFINE y == BssInit(vm) + 1
    <3>2. y \in Nat /\ y < Top /\ y = x /\ Top \in Nat
      BY <3>1
    <3> HIDE DEF y
    <3>3. y % Top = y
      BY <3>2, ModTop
    <3> QED BY <3>2, <3>3 DEF y
  <2> QED BY <1>1, <1>3, <2>2, <2>3, <2>4, <2>5
<1>4. CASE vm.kind = "var" /\ vm.op = "dec" /\ vm.step = 1
  <2>1. w = RunDec(vm, BssInit(vm))
    BY <1>4 DEF RunVm
  <2>2. BssInit(vm) = IF x = hi THEN lo ELSE x + 1
    BY <1>4 DEF BssInit
  <2>3. w = IF BssInit(vm) = lo THEN hi ELSE (BssInit(vm) - 1) % Top
    BY <1>4, <2>1 DEF RunDec
  <2>4. Value(vm, 1) = x
    BY <1>1, <1>4 DEF Value, Down
  <2>5. x # hi => (BssInit(vm) - 1) % Top = x
    <3> SUFFICES ASSUME x # hi PROVE (BssInit(vm) - 1) % Top = x
      OBVIOUS
    <3>1. BssInit(vm) - 1 \in Nat /\ BssInit(vm) - 1 < Top /\ BssInit(vm) - 1 = x /\ Top \in Nat
      BY <1>1, <1>4, <2>2
    <3> DEFINE y == BssInit(vm) - 1
    <3>2. y \in Nat /\ y < Top /\ y = x /\ Top \in Nat
      BY <3>1
    <3> HIDE DEF y
    <3>3. y % Top = y
      BY <3>2, ModTop
    <3> QED BY <3>2, <3>3 DEF y
  <2> QED BY <1>1, <1>4, <2>2, <2>3, <2>4, <2>5
<1> QED BY <1>1, <1>2, <1>3, <1>4 DEF OneByOne

(* ... and goes on to the next, until it has gone through its range.       *)
LEMMA NextValue ==
  ASSUME NEW vm, Regular(vm), OneByOne(vm), NEW k \in Nat, k >= 1, k < Size(vm),
         NEW w \in RunVm(vm, Value(vm, k))
  PROVE  w = Value(vm, k + 1)
<1> DEFINE lo == vm.lo
           hi == vm.hi
           x  == vm.init
           v  == Value(vm, k)
<1>1. /\ lo \in Nat /\ hi \in Nat /\ x \in Nat /\ lo <= hi /\ hi < Top /\ Top \in Nat
      /\ vm.kind \in {"var", "client"} /\ vm.op \in {"inc", "dec", "random"}
      /\ vm.kind = "var" => x >= lo /\ x <= hi
      /\ vm.kind = "client" => hi < Top - 1
  BY RegularFields
<1>2. k < hi - lo + 1
  BY DEF Size
<1>3. CASE vm.kind = "client"
  <2>1. w = RunClient(vm, v)
    BY <1>3 DEF RunVm
  <2>2. v = IF lo > 0 THEN lo + k - 1 ELSE IF k <= hi THEN k ELSE k - (hi - lo + 1)
    BY <1>1, <1>3 DEF Value, Up, Size
  <2>3. Value(vm, k + 1) = IF lo > 0 THEN lo + (k + 1) - 1
                           ELSE IF k + 1 <= hi THEN k + 1 ELSE k + 1 - (hi - lo + 1)
    BY <1>1, <1>3 DEF Value, Up, Size
  <2> HIDE DEF v
  <2>4. (v + 1) % Top = v + 1
    <3>1. v + 1 \in Nat /\ v + 1 < Top /\ v + 1 = v + 1 /\ Top \in Nat
      BY <1>1, <1>2, <1>3, <2>2
    <3> DEFINE y == v + 1
    <3>2. y \in Nat /\ y < Top /\ y = v + 1 /\ Top \in Nat
      BY <3>1
    <3> HIDE DEF y
    <3>3. y % Top = y
      BY <3>2, ModTop
    <3> QED BY <3>2, <3>3 DEF y
  <2>5. w = IF v + 1 > hi THEN lo ELSE v + 1
    BY <2>1, <2>4 DEF RunClient
  <2> QED BY <1>1, <1>2, <2>2, <2>3, <2>5
<1>4. CASE vm.kind = "var" /\ vm.op = "inc" /\ vm.step = 1
  <2>1. w = RunInc(vm, v)
    BY <1>4 DEF RunVm
  <2>2. v = IF x + k - 1 <= hi THEN x + k - 1 ELSE x + k - 1 - (hi - lo + 1)
    BY <1>1, <1>4 DEF Value, Up, Size
  <2>3. Value(vm, k + 1) = IF x + (k + 1) - 1 <= hi THEN x + (k + 1) - 1
                           ELSE x + (k + 1) - 1 - (hi - lo + 1)
    BY <1>1, <1>4 DEF Value, Up, Size
  <2> HIDE DEF v
  <2>4. v # hi => (v + 1) % Top = v + 1
    <3> SUFFICES ASSUME v # hi PROVE (v + 1) % Top = v + 1
      OBVIOUS
    <3>1. v + 1 \in Nat /\ v + 1 < Top /\ v + 1 = v + 1 /\ Top \in Nat
      BY <1>1, <1>2, <1>4, <2>2
    <3> DEFINE y == v + 1
    <3>2. y \in Nat /\ y < Top /\ y = v + 1 /\ Top \in Nat
      BY <3>1
    <3> HIDE DEF y
    <3>3. y % Top = y
      BY <3>2, ModTop
    <3> QED BY <3>2, <3>3 DEF y
  <2>5. w = IF v = hi THEN lo ELSE (v + 1) % Top
    BY <1>4, <2>1 DEF RunInc
  <2> QED BY <1>1, <1>2, <1>4, <2>2, <2>3, <2>4, <2>5
<1>5. CASE vm.kind = "var" /\ vm.op = "dec" /\ vm.step = 1
  <2>1. w = RunDec(vm, v)
    BY <1>5 DEF RunVm
  <2>2. v = IF x - k + 1 >= lo THEN x - k + 1 ELSE x - k + 1 + (hi - lo + 1)
    BY <1>1, <1>5 DEF Value, Down, Size
  <2>3. Value(vm, k + 1) = IF x - (k + 1) + 1 >= lo THEN x - (k + 1) + 1
                           ELSE x - (k + 1) + 1 + (hi - lo + 1)
    BY <1>1, <1>5 DEF Value, Down, Size
  <2> HIDE DEF v
  <2>4. v # lo => (v - 1) % Top = v - 1
    <3> SUFFICES ASSUME v # lo PROVE (v - 1) % Top = v - 1
      OBVIOUS
    <3>1. v - 1 \in Nat /\ v - 1 < Top /\ v - 1 = v - 1 /\ Top \in Nat
      BY <1>1, <1>2, <1>5, <2>2
    <3> DEFINE y == v - 1
    <3>2. y \in Nat /\ y < Top /\ y = v - 1 /\ Top \in Nat
      BY <3>1
    <3> HIDE DEF y
    <3>3. y % Top = y
      BY <3>2, ModTop
    <3> QED BY <3>2, <3>3 DEF y
  <2>5. w = IF v = lo THEN hi ELSE (v - 1) % Top
    BY <1>5, <2>1 DEF RunDec
  <2>6. CASE v = lo
    BY <1>1, <1>2, <1>5, <2>2, <2>3, <2>5, <2>6
  <2>7. CASE v # lo
    <3>1. w = v - 1
      BY <2>4, <2>5, <2>7
    <3> QED BY <1>1, <1>2, <1>5, <2>2, <2>3, <2>7, <3>1
  <2> QED BY <2>6, <2>7
<1> QED BY <1>1, <1>3, <1>4, <1>5 DEF OneByOne

(* It takes every value of its range, each of them once.                   *)
LEMMA ValuesOnce ==
  ASSUME NEW vm, Regular(vm), OneByOne(vm), NEW v \in vm.lo .. vm.hi
  PROVE  \E k \in 1 .. Size(vm) : \A j \in 1 .. Size(vm) : Value(vm, j) = v <=> j = k
<1> DEFINE lo == vm.lo
           hi == vm.hi
           x  == vm.init
           sz == hi - lo + 1
<1>1. /\ lo \in Nat /\ hi \in Nat /\ x \in Nat /\ lo <= hi /\ v \in Nat /\ v >= lo /\ v <= hi
      /\ vm.kind \in {"var", "client"} /\ vm.op \in {"inc", "dec", "random"}
      /\ vm.kind = "var" => x >= lo /\ x <= hi
  BY RegularFields
<1>2. Size(vm) = sz
  BY DEF Size
<1>3. CASE vm.kind = "client" /\ lo > 0
  <2>1. \A j \in 1 .. sz : Value(vm, j) = lo + j - 1
    BY <1>3 DEF Value
  <2>2. v - lo + 1 \in 1 .. sz /\ \A j \in 1 .. sz : lo + j - 1 = v <=> j = v - lo + 1
    BY <1>1
  <2> QED BY <1>2, <2>1, <2>2
<1>4. CASE vm.kind = "client" /\ ~(lo > 0)
  <2>1. \A j \in 1 .. sz : Value(vm, j) = IF j <= hi THEN j ELSE j - sz
    BY <1>1, <1>4 DEF Value, Up, Size
  <2> DEFINE k == IF v = 0 THEN sz ELSE v
  <2>2. k \in 1 .. sz /\ \A j \in 1 .. sz : (IF j <= hi THEN j ELSE j - sz) = v <=> j = k
    BY <1>1, <1>4
  <2> QED BY <1>2, <2>1, <2>2
<1>5. CASE vm.kind = "var" /\ vm.op = "inc" /\ vm.step = 1
  <2>1. \A j \in 1 .. sz : Value(vm, j) = IF x + j - 1 <= hi THEN x + j - 1 ELSE x + j - 1 - sz
    BY <1>1, <1>5 DEF Value, Up, Size
  <2> DEFINE k == IF v >= x THEN v - x + 1 ELSE v - x + 1 + sz
  <2>2. /\ k \in 1 .. sz
        /\ \A j \in 1 .. sz : (IF x + j - 1 <= hi THEN x + j - 1 ELSE x + j - 1 - sz) = v <=> j = k
    BY <1>1, <1>5
  <2> QED BY <1>2, <2>1, <2>2
<1>6. CASE vm.kind = "var" /\ vm.op = "dec" /\ vm.step = 1
  <2>1. \A j \in 1 .. sz : Value(vm, j) = IF x - j + 1 >= lo THEN x - j + 1 ELSE x - j + 1 + sz
    BY <1>1, <1>6 DEF Value, Down, Size
  <2> DEFINE k == IF v <= x THEN x - v + 1 ELSE x - v + 1 + sz
  <2>2. /\ k \in 1 .. sz
        /\ \A j \in 1 .. sz : (IF x - j + 1 >= lo THEN x - j + 1 ELSE x - j + 1 + sz) = v <=> j = k
    BY <1>1, <1>6
  <2> QED BY <1>2, <2>1, <2>2
<1> QED BY <1>1, <1>3, <1>4, <1>5, <1>6 DEF OneByOne

(* One more packet of the burst.                                           *)
LEMMA WriteOne ==
  ASSUME NEW vm, NEW pkts \in Nat, NEW value \in Int, NEW sent \in Seq(Int),
         Written(vm, pkts, value, sent), Len(sent) < pkts,
         NEW w \in Int, w \in RunVm(vm, value)
  PROVE  Written(vm, pkts, w, Append(sent, w))
<1> DEFINE n == Len(sent)
           s == Append(sent, w)
<1>1. n \in Nat /\ DOMAIN sent = 1 .. n /\ (n = 0 <=> sent = << >>)
  OBVIOUS
<1>2. /\ s \in Seq(Int) /\ Len(s) = n + 1 /\ DOMAIN s = 1 .. n + 1 /\ s # << >> /\ s[n + 1] = w
      /\ \A k \in 1 .. n : s[k] = sent[k]
  OBVIOUS
<1> HIDE DEF s
<1>3. \A k \in 1 .. n + 1 : k \in 1 .. n \/ k = n + 1
  BY <1>1
<1>4. /\ value = IF sent = << >> THEN BssInit(vm) ELSE sent[n]
      /\ Regular(vm) => \A k \in 1 .. n : sent[k] \in vm.lo .. vm.hi
      /\ Regular(vm) /\ OneByOne(vm) => \A k \in 1 .. n : k <= Size(vm) => sent[k] = Value(vm, k)
  BY <1>1 DEF Written
<1> HIDE DEF n
<1>5. n > 0 => n \in 1 .. n
  BY <1>1
<1>6. ASSUME Regular(vm)
      PROVE  \A k \in 1 .. n + 1 : s[k] \in vm.lo .. vm.hi
  <2>1. value \in vm.lo .. vm.hi \/ value = BssInit(vm)
    BY <1>1, <1>4, <1>5, <1>6
  <2>2. BssInit(vm) \in Nat
    BY <1>6, RegularFields DEF BssInit
  <2>3. value \in Nat
    BY <1>6, <2>1, <2>2, RegularFields
  <2>4. w \in vm.lo .. vm.hi
    BY <1>6, <2>1, <2>3, RunStaysInRange
  <2> QED BY <1>2, <1>3, <1>4, <1>6, <2>4
<1>7. ASSUME Regular(vm), OneByOne(vm), n + 1 <= Size(vm)
      PROVE  w = Value(vm, n + 1)
  <2>1. CASE n = 0
    <3>1. w \in RunVm(vm, BssInit(vm))
      BY <1>1, <1>4, <2>1
    <3>2. w = Value(vm, 1)
      BY <1>7, <3>1, FirstValue
    <3>3. n + 1 = 1
      BY <2>1
    <3> QED BY <3>2, <3>3
  <2>2. CASE n # 0
    <3>1. n >= 1 /\ n < Size(vm) /\ n \in 1 .. n /\ n <= Size(vm)
      <4>1. Size(vm) \in Int
        BY <1>7, RegularFields DEF Size
      <4> QED BY <1>1, <1>7, <2>2, <4>1
    <3>2. value = Value(vm, n)
      BY <1>1, <1>4, <1>7, <2>2, <3>1
    <3> QED BY <1>1, <1>7, <3>1, <3>2, NextValue
  <2> QED BY <2>1, <2>2
<1>8. Regular(vm) /\ OneByOne(vm) => \A k \in 1 .. n + 1 : k <= Size(vm) => s[k] = Value(vm, k)
  BY <1>2, <1>3, <1>4, <1>7
<1>9. n + 1 <= pkts
  BY <1>1 DEF n
<1> QED BY <1>2, <1>6, <1>8, <1>9 DEF Written, s

(* Types: a part's variable, and what its program writes.                  *)
LEMMA SplitVmType ==
  ASSUME NEW vm \in Vms, NEW n \in Nat \ {0}, NEW c \in Nat
  PROVE  SplitVm(vm, n, c) \in AnyVm
<1>1. vm \in AnyVm /\ vm.lo \in Int /\ vm.hi \in Int /\ Top \in Nat \ {0}
  BY TopAssumption DEF Vms, AnyVm
<1>2. SplitableRange(vm) \in Int
  BY <1>1 DEF SplitableRange
<1> DEFINE q == SplitableRange(vm) \div n
           r == SplitableRange(vm) % n
           start == IF c = 0 THEN vm.lo ELSE vm.lo + r + c * q
           end   == IF c = 0 THEN start + q + r - 1 ELSE start + q - 1
<1>3. q \in Int /\ r \in Int
  BY <1>2
<1>4. Piece(vm, n, c) = [vm EXCEPT !.lo = start, !.hi = end,
                                   !.init = IF vm.op = "dec" THEN end ELSE start]
  BY DEF Piece
<1> HIDE DEF q, r
<1>5. c * q \in Int
  BY <1>3
<1>6. start \in Int /\ end \in Int
  BY <1>1, <1>3, <1>5
<1> HIDE DEF start, end
<1>7. Piece(vm, n, c) \in AnyVm
  BY <1>1, <1>4, <1>6 DEF AnyVm
<1> QED BY <1>1, <1>7 DEF SplitVm

(* A program writes integers.                                              *)
LEMMA RunVmType ==
  ASSUME NEW vm \in AnyVm, NEW v \in Int, NEW w \in RunVm(vm, v), vm.kind # "none"
  PROVE  w \in Int
<1>1. /\ vm.lo \in Int /\ vm.hi \in Int /\ vm.step \in Nat /\ Top \in Nat \ {0}
      /\ vm.kind \in {"var", "client"} /\ vm.op \in {"inc", "dec", "random"}
      /\ vm.size \in {"byte", "word", "quad"}
  BY TopAssumption DEF AnyVm
<1>2. \A x \in Int : x % Top \in Int
  BY <1>1
<1>3. /\ (v + 1) % Top \in Int /\ (v - 1) % Top \in Int
      /\ (v + vm.step) % Top \in Int /\ (v - vm.step) % Top \in Int
  <2>1. v + 1 \in Int /\ v - 1 \in Int /\ v + vm.step \in Int /\ v - vm.step \in Int
    BY <1>1
  <2> QED BY <1>2, <2>1
<1>4. CASE vm.kind = "client"
  <2>1. w = RunClient(vm, v)
    BY <1>4 DEF RunVm
  <2> QED BY <1>1, <1>3, <2>1 DEF RunClient
<1>5. CASE vm.kind = "var" /\ vm.op = "inc"
  <2>1. w = RunInc(vm, v)
    BY <1>5 DEF RunVm
  <2> QED BY <1>1, <1>3, <2>1 DEF RunInc
<1>6. CASE vm.kind = "var" /\ vm.op = "dec"
  <2>1. w = RunDec(vm, v)
    BY <1>6 DEF RunVm
  <2> QED BY <1>1, <1>3, <2>1 DEF RunDec
<1>7. CASE vm.kind = "var" /\ vm.op = "random"
  <2>1. w \in RunRand(vm)
    BY <1>7 DEF RunVm
  <2> QED BY <1>1, <2>1 DEF RunRand
<1> QED BY <1>1, <1>4, <1>5, <1>6, <1>7

(* A core that has something to send starts with one of its parts.         *)
LEMMA FirstPart ==
  ASSUME CInv, pc = "load", NEW c \in Cores, objs[c] # << >>
  PROVE  /\ \E i \in OnCore(c) : Place(i, c) = 1 /\ objs[c][1] = PartFor(i, c)
         /\ 1 \in DOMAIN objs[c] /\ objs[c][1].pkts \in Nat /\ objs[c][1].vm \in AnyVm
<1>0. prog \in Programs
  BY DEF CInv
<1>1. 1 \in DOMAIN objs[c]
  <2> DEFINE T == {PartFor(i, d) : i \in Enabled, d \in Cores}
  <2>1. objs[c] \in Seq(T)
    BY DEF CInv, Objects
  <2> HIDE DEF T
  <2> QED BY <2>1
<1>2. PICK i \in OnCore(c) : Place(i, c) = 1 /\ objs[c][1] = PartFor(i, c)
  BY <1>1, Complete
<1>3. /\ i \in Enabled /\ S(i) \in StreamRec /\ prog.cores \in Nat \ {0} /\ c \in Nat
  BY <1>0, ProgFacts, OnCoreFacts
<1>4. S(i).pkts \in Nat /\ S(i).vm \in Vms
  BY <1>3 DEF StreamRec
<1>5. Share(i, c) \in Nat
  <2>1. S(i).pkts \div prog.cores \in Nat /\ S(i).pkts % prog.cores \in Nat
    BY <1>3, <1>4
  <2> QED BY <2>1 DEF Share
<1>6. S(i).vm \in AnyVm
  BY <1>4, TopAssumption DEF Vms, AnyVm
<1>7. SplitVm(S(i).vm, prog.cores, c) \in AnyVm
  BY <1>3, <1>4, SplitVmType
<1> QED BY <1>0, <1>1, <1>2, <1>3, <1>4, <1>5, <1>6, <1>7, PartFields

(* Loading a core puts its variable before the first value; a packet takes *)
(* it to the next.                                                         *)
LEMMA WritingStep ==
  ASSUME CInv, VmOK, Writing, Next
  PROVE  VmOK' /\ Writing'
<1>0. prog' = prog /\ Cores' = Cores /\ Loading
  BY CheckedStep, Frame DEF CInv
<1>1. ASSUME NEW c \in Cores, LoadCore(c)
      PROVE  VmOK' /\ Writing'
  <2> DEFINE b == BssInit(objs[c][1].vm)
  <2>1. /\ pc = "load" /\ objs' = objs /\ objs[c] # << >> /\ ~Loaded(c)
        /\ \/ links' = links /\ vmState' = vmState
           \/ /\ links' = [links EXCEPT ![c] = [k \in DOMAIN objs[c] |-> Link(objs[c][k])]]
              /\ vmState' = [vmState EXCEPT ![c].value = b]
    BY <1>1 DEF LoadCore
  <2>2. CASE links' = links /\ vmState' = vmState
    BY <1>0, <2>1, <2>2 DEF VmOK, Writing, Loaded
  <2>3. CASE /\ links' = [links EXCEPT ![c] = [k \in DOMAIN objs[c] |-> Link(objs[c][k])]]
             /\ vmState' = [vmState EXCEPT ![c].value = b]
    <3>1. objs[c][1].pkts \in Nat /\ objs[c][1].vm \in AnyVm
      BY <2>1, FirstPart
    <3>2. b \in Int
      BY <3>1 DEF BssInit, AnyVm
    <3> HIDE DEF b
    <3>3. vmState[c].sent = << >> /\ vmState[c].value \in Int /\ vmState[c] \in [value : Int, sent : Seq(Int)]
      BY <2>1 DEF Writing, VmOK
    <3>4. VmOK'
      BY <1>0, <2>3, <3>2 DEF VmOK
    <3>5. vmState'[c].sent = << >> /\ vmState'[c].value = b
      BY <2>3, <3>3 DEF VmOK
    <3>6. Written(objs[c][1].vm, objs[c][1].pkts, b, << >>)
      BY <3>1 DEF Written, b
    <3>7. \A d \in Cores : d # c => links'[d] = links[d] /\ vmState'[d] = vmState[d]
      BY <1>0, <2>3 DEF Loading, VmOK
    <3> QED BY <1>0, <2>1, <3>4, <3>5, <3>6, <3>7 DEF Writing, Loaded
  <2> QED BY <2>1, <2>2, <2>3
<1>2. ASSUME NEW c \in Cores, SendPacket(c)
      PROVE  VmOK' /\ Writing'
  <2> DEFINE x == objs[c][1]
  <2>1. /\ links' = links /\ objs' = objs /\ Loaded(c) /\ x.vm.kind # "none"
        /\ Len(vmState[c].sent) < x.pkts
    BY <1>2 DEF SendPacket
  <2>2. PICK w \in RunVm(x.vm, vmState[c].value) :
          vmState' = [vmState EXCEPT ![c] = [value |-> w, sent |-> Append(vmState[c].sent, w)]]
    BY <1>2 DEF SendPacket
  <2>3. pc = "load" /\ objs[c] # << >>
    <3>1. pc = "load" /\ links[c] = [k \in DOMAIN objs[c] |-> Link(objs[c][k])] /\ links[c] # << >>
      BY <1>0, <2>1 DEF Loading, Loaded
    <3> QED BY <3>1
  <2>4. x.pkts \in Nat /\ x.vm \in AnyVm
    BY <2>3, FirstPart
  <2>5. vmState[c].value \in Int /\ vmState[c].sent \in Seq(Int)
    BY DEF VmOK
  <2>6. Written(x.vm, x.pkts, vmState[c].value, vmState[c].sent)
    BY <2>1 DEF Writing
  <2> HIDE DEF x
  <2>7. w \in Int
    BY <2>1, <2>2, <2>4, <2>5, RunVmType
  <2>8. Written(x.vm, x.pkts, w, Append(vmState[c].sent, w))
    BY <2>1, <2>2, <2>4, <2>5, <2>6, <2>7, WriteOne
  <2>9. Append(vmState[c].sent, w) \in Seq(Int)
    BY <2>5, <2>7
  <2>10. VmOK'
    BY <1>0, <2>2, <2>7, <2>9 DEF VmOK
  <2>11. /\ vmState'[c].value = w /\ vmState'[c].sent = Append(vmState[c].sent, w)
         /\ \A d \in Cores : d # c => vmState'[d] = vmState[d]
    BY <2>2 DEF VmOK
  <2> QED BY <1>0, <2>1, <2>8, <2>10, <2>11 DEF Writing, Loaded, x
<1>3. CASE links' = links /\ vmState' = vmState /\ pc # "load"
  <2>1. \A d \in Cores : ~Loaded(d)
    BY <1>0, <1>3 DEF Loading
  <2> QED BY <1>0, <1>3, <2>1 DEF VmOK, Writing, Loaded
<1>4. \/ links' = links /\ vmState' = vmState /\ pc # "load"
      \/ \E c \in Cores : LoadCore(c) \/ SendPacket(c)
  BY DEF Next, AllocatePass, DirectPass, MarkNext, CheckUnreachable, CompileStream, CompileDone
<1> QED BY <1>1, <1>2, <1>3, <1>4

(* The variables of the cores are where their packets have taken them.     *)
LEMMA WritingInvariant == Spec => [](CInv /\ VmOK /\ Writing)
<1>1. Init => VmOK /\ Writing
  <2> SUFFICES ASSUME Init PROVE VmOK /\ Writing
    OBVIOUS
  <2>1. << >> \in Seq(Int) /\ 0 \in Int
    OBVIOUS
  <2>2. VmOK
    BY <2>1 DEF Init, VmOK
  <2>3. Writing
    BY DEF Init, Writing, Loaded
  <2> QED BY <2>2, <2>3
<1>2. CInv /\ VmOK /\ Writing /\ [Next]_vars => VmOK' /\ Writing'
  <2> SUFFICES ASSUME CInv, VmOK, Writing, [Next]_vars PROVE VmOK' /\ Writing'
    OBVIOUS
  <2>1. CASE Next
    BY <2>1, WritingStep
  <2>2. CASE UNCHANGED vars
    <3>1. UNCHANGED <<prog, pc, stack, marked, todo, objs, links, failed, vmState>>
      BY <2>2 DEF vars
    <3> QED BY <3>1, Frame DEF VmOK, Writing, Loaded
  <2> QED BY <2>1, <2>2
<1> QED BY <1>1, <1>2, CompilerInvariant, PTL DEF Spec

-----------------------------------------------------------------------------
(***************************************************************************)
(* The values of a burst as long as the range of its variable.             *)
(***************************************************************************)

(* The pieces of a range do not overlap and leave no gap: y is counted     *)
(* from the end of the extra values, which the first piece has too.        *)
LEMMA OnePiece ==
  ASSUME NEW q \in Nat \ {0}, NEW n \in Nat \ {0}, NEW y \in Int, y < q * n
  PROVE  \E c \in 0 .. n - 1 : \A d \in 0 .. n - 1 :
           (IF d = 0 THEN y < q ELSE d * q <= y /\ y < d * q + q) <=> d = c
<1>1. ASSUME NEW a \in Nat, NEW b \in Nat, a < b
      PROVE  a * q + q <= b * q /\ a * q \in Nat /\ b * q \in Nat
  <2>1. \A e \in Nat : (a + 1 + e) * q = a * q + q + e * q /\ e * q \in Nat
    OBVIOUS
  <2>2. b - a - 1 \in Nat /\ b = a + 1 + (b - a - 1)
    BY <1>1
  <2>3. b * q = a * q + q + (b - a - 1) * q /\ (b - a - 1) * q \in Nat
    BY <2>1, <2>2
  <2>4. a * q \in Nat /\ b * q \in Nat
    OBVIOUS
  <2> DEFINE aq == a * q
             bq == b * q
             eq == (b - a - 1) * q
  <2>5. bq = aq + q + eq /\ eq \in Nat /\ aq \in Nat /\ bq \in Nat
    BY <2>3, <2>4
  <2> HIDE DEF aq, bq, eq
  <2>6. aq + q <= bq
    BY <2>5
  <2> QED BY <2>4, <2>6 DEF aq, bq
<1>2. CASE y < q
  <2>1. ASSUME NEW d \in 0 .. n - 1, d # 0
        PROVE  ~(d * q <= y)
    <3>1. 0 * q + q <= d * q /\ d * q \in Nat /\ 0 * q = 0
      BY <1>1, <2>1
    <3> DEFINE dq == d * q
    <3>2. q <= dq /\ dq \in Nat
      BY <3>1
    <3> HIDE DEF dq
    <3>3. ~(dq <= y)
      BY <1>2, <3>2
    <3> QED BY <3>3 DEF dq
  <2>2. 0 \in 0 .. n - 1
    OBVIOUS
  <2> QED BY <1>2, <2>1, <2>2
<1>3. CASE y >= q
  <2> DEFINE c == y \div q
             cq == c * q
  <2>1. y \in Nat
    BY <1>3
  <2>2. c \in Nat /\ cq <= y /\ y < cq + q /\ cq \in Nat
    <3>1. c \in Nat /\ y % q \in 0 .. q - 1 /\ y = c * q + (y % q)
      BY <2>1
    <3>2. c * q \in Nat
      BY <3>1
    <3> DEFINE m == y % q
    <3>3. m \in 0 .. q - 1 /\ y = cq + m /\ cq \in Nat /\ c \in Nat
      BY <3>1, <3>2
    <3> HIDE DEF m, c, cq
    <3>4. cq <= y /\ y < cq + q
      BY <2>1, <3>3
    <3> QED BY <3>3, <3>4
  <2> HIDE DEF c
  <2>3. c # 0
    <3>1. c = 0 => cq = 0
      OBVIOUS
    <3> HIDE DEF cq
    <3> QED BY <1>3, <2>2, <3>1
  <2>4. c \in 0 .. n - 1
    <3> SUFFICES ASSUME c >= n PROVE FALSE
      BY <2>2
    <3>1. c = n \/ n < c
      BY <2>2
    <3>2. n * q <= cq /\ n * q = q * n /\ n * q \in Nat
      <4>1. n < c => n * q + q <= c * q /\ n * q \in Nat
        BY <1>1, <2>2
      <4>2. n * q = q * n /\ n * q \in Nat
        OBVIOUS
      <4> DEFINE nq == n * q
      <4>3. n < c => nq + q <= cq
        BY <4>1
      <4>4. c = n => cq = nq
        OBVIOUS
      <4>5. nq \in Nat
        BY <4>2
      <4> HIDE DEF nq, cq
      <4>6. nq <= cq
        BY <2>2, <3>1, <4>3, <4>4, <4>5
      <4> QED BY <4>2, <4>6 DEF nq
    <3> DEFINE nq == n * q
    <3>3. y < nq /\ nq <= cq /\ nq \in Nat
      BY <3>2
    <3> HIDE DEF nq, cq
    <3> QED BY <2>1, <2>2, <3>3
  <2>5. ASSUME NEW d \in 0 .. n - 1, d # 0, d # c
        PROVE  ~(d * q <= y /\ y < d * q + q)
    <3> DEFINE dq == d * q
    <3>1. d < c \/ c < d
      BY <2>2, <2>5
    <3>2. d < c => dq + q <= cq
      BY <1>1, <2>2
    <3>3. c < d => cq + q <= dq
      BY <1>1, <2>2
    <3>4. dq \in Nat
      OBVIOUS
    <3> HIDE DEF dq, cq
    <3>5. ~(dq <= y /\ y < dq + q)
      BY <2>1, <2>2, <3>1, <3>2, <3>3, <3>4
    <3> QED BY <3>5 DEF dq
  <2>6. ~(y < q)
    BY <1>3
  <2> QED BY <2>2, <2>3, <2>4, <2>5, <2>6
<1> QED BY <1>2, <1>3

(* So a value of the range is in exactly one piece.                        *)
LEMMA PieceOfValue ==
  ASSUME NEW vm \in Vms, vm.lo <= vm.hi, NEW n \in Nat \ {0}, IsSplit(vm, n),
         NEW v \in vm.lo .. vm.hi
  PROVE  \E c \in 0 .. n - 1 : \A d \in 0 .. n - 1 :
           v \in Piece(vm, n, d).lo .. Piece(vm, n, d).hi <=> d = c
<1>1. PICK q, r : Division(Size(vm), n, q, r)
  BY DEF Division
<1>2. SplitableRange(vm) = Size(vm) /\ Size(vm) \in Nat /\ Size(vm) >= n
  BY SplitableIs DEF IsSplit
<1>3. /\ q \in Nat \ {0} /\ r \in Nat /\ Size(vm) = q * n + r
  <2>1. 0 \in 0 .. n - 1
    OBVIOUS
  <2> QED BY <1>1, <1>2, <2>1, DivisionFits
<1>4. vm.lo \in Nat /\ vm.hi \in Nat /\ v \in Nat /\ vm.hi = vm.lo + Size(vm) - 1
  BY TopAssumption DEF Vms, Size
<1> DEFINE y == v - vm.lo - r
           nq == q * n
<1>5. nq \in Nat /\ Size(vm) = nq + r
  BY <1>3
<1>6. y \in Int /\ y < nq
  <2> HIDE DEF nq
  <2> QED BY <1>3, <1>4, <1>5
<1> HIDE DEF y
<1>7. PICK c \in 0 .. n - 1 : \A d \in 0 .. n - 1 :
        (IF d = 0 THEN y < q ELSE d * q <= y /\ y < d * q + q) <=> d = c
  BY <1>3, <1>6, OnePiece
<1>8. ASSUME NEW d \in 0 .. n - 1
      PROVE  v \in Piece(vm, n, d).lo .. Piece(vm, n, d).hi
               <=> (IF d = 0 THEN y < q ELSE d * q <= y /\ y < d * q + q)
  <2> DEFINE p == Piece(vm, n, d)
             dq == d * q
  <2>1. /\ p.lo = vm.lo + (IF d = 0 THEN 0 ELSE r + dq)
        /\ Size(p) = q + (IF d = 0 THEN r ELSE 0) /\ p.hi = p.lo + Size(p) - 1
    BY <1>1, PieceFacts
  <2>2. dq \in Nat
    BY <1>3
  <2> HIDE DEF p, dq, nq
  <2>3. CASE d = 0
    <3>1. p.lo = vm.lo /\ p.hi = vm.lo + (q + r) - 1
      BY <1>3, <1>4, <2>1, <2>3
    <3>2. v \in p.lo .. p.hi <=> y < q
      BY <1>3, <1>4, <3>1 DEF y
    <3> QED BY <2>3, <3>2 DEF p
  <2>4. CASE d # 0
    <3>1. p.lo = vm.lo + (r + dq) /\ p.hi = vm.lo + (r + dq) + q - 1
      BY <1>3, <1>4, <2>1, <2>2, <2>4
    <3>2. v \in p.lo .. p.hi <=> dq <= y /\ y < dq + q
      BY <1>3, <1>4, <2>2, <3>1 DEF y
    <3> QED BY <2>4, <3>2 DEF p, dq
  <2> QED BY <2>3, <2>4
<1> QED BY <1>7, <1>8

(* A core that starts with a stream has the part of it in front.           *)
LEMMA FirstOnFacts ==
  ASSUME CInv, pc = "load", NEW i \in Enabled, NEW c \in FirstOn(i)
  PROVE  c \in Parts(i) /\ c \in Cores /\ i \in OnCore(c) /\ objs[c][1] = PartFor(i, c)
<1>0. prog \in Programs /\ Enabled \in SUBSET Nat /\ IsFiniteSet(Enabled)
  BY ProgFacts DEF CInv
<1>1. c \in Parts(i) /\ objs[c][1].id = Compressed(i)
  BY DEF FirstOn
<1>2. c \in Cores /\ i \in OnCore(c)
  BY <1>1, PartsOfStream
<1>3. objs[c] # << >>
  <2>1. Place(i, c) \in DOMAIN objs[c]
    BY <1>2, Complete
  <2> QED BY <2>1
<1>4. PICK j \in OnCore(c) : objs[c][1] = PartFor(j, c)
  BY <1>2, <1>3, FirstPart
<1>5. j \in Enabled
  BY <1>0, <1>2, OnCoreFacts
<1>6. Count(Enabled, j) = Count(Enabled, i)
  BY <1>0, <1>1, <1>2, <1>4, <1>5, PartFields
<1>7. j = i
  BY <1>0, <1>5, <1>6, CountInjective
<1> QED BY <1>1, <1>2, <1>4, <1>7

(* Splitting a regular variable gives regular ones in its range.           *)
LEMMA SplitIsRegular ==
  ASSUME NEW vm, Regular(vm), NEW n \in Nat \ {0}, NEW c \in 0 .. n - 1,
         NEW p, p = SplitVm(vm, n, c)
  PROVE  /\ Regular(p) /\ vm.lo <= p.lo /\ p.hi <= vm.hi
         /\ OneByOne(vm) => OneByOne(p)
<1>1. vm \in Vms /\ vm.lo <= vm.hi /\ vm.kind # "none" /\ ~Wraps(vm)
  BY DEF Regular, StartsInRange
<1>2. /\ vm.lo \in Nat /\ vm.hi \in Nat /\ Top \in Nat /\ vm.hi < Top
      /\ vm.kind = "client" => vm.hi < Top - 1
  BY RegularFields
<1>3. CASE ~IsSplit(vm, n)
  <2>1. p = vm
    BY <1>3 DEF SplitVm
  <2> QED BY <1>2, <2>1
<1>4. CASE IsSplit(vm, n)
  <2>1. p = Piece(vm, n, c)
    BY <1>1, <1>4 DEF SplitVm
  <2>2. PICK q, r : Division(Size(vm), n, q, r)
    BY DEF Division
  <2>3. /\ p \in Vms
        /\ p.kind = vm.kind /\ p.op = vm.op /\ p.step = vm.step /\ p.size = vm.size
        /\ vm.lo <= p.lo /\ p.lo <= p.hi /\ p.hi <= vm.hi
        /\ p.init \in p.lo .. p.hi
    BY <1>1, <1>4, <2>1, <2>2, PieceFacts
  <2>4. p.hi \in Nat
    BY <2>3, TopAssumption DEF Vms
  <2>5. vm.kind = "client" => p.hi # Top - 1
    BY <1>2, <2>3, <2>4
  <2>6. vm.kind = "var" => vm.op # "random" /\ vm.step = 1
    BY <1>4 DEF IsSplit
  <2>7. ~Wraps(p)
    BY <2>3, <2>5, <2>6 DEF Wraps
  <2>8. Regular(p)
    BY <1>1, <2>3, <2>7 DEF Regular, StartsInRange
  <2> QED BY <2>3, <2>8 DEF OneByOne
<1> QED BY <1>3, <1>4

(* The part of a stream in front of a core and the values written from it. *)
LEMMA PartValues ==
  ASSUME CInv, VmOK, Writing, pc = "load", NEW i \in Enabled, Regular(S(i).vm),
         NEW c \in FirstOn(i), NEW p, p = PartFor(i, c).vm
  PROVE  /\ Regular(p) /\ S(i).vm.lo <= p.lo /\ p.hi <= S(i).vm.hi
         /\ OneByOne(S(i).vm) => OneByOne(p)
         /\ vmState[c].sent \in Seq(Int)
         /\ \A k \in DOMAIN vmState[c].sent : vmState[c].sent[k] \in p.lo .. p.hi
         /\ OneByOne(p) => \A k \in DOMAIN vmState[c].sent :
                             k <= Size(p) => vmState[c].sent[k] = Value(p, k)
<1>0. prog \in Programs /\ c \in Cores /\ objs[c][1] = PartFor(i, c)
  BY FirstOnFacts DEF CInv
<1>1. /\ prog.cores \in Nat \ {0} /\ c \in 0 .. prog.cores - 1
      /\ p = IF IsSplitable(i) THEN SplitVm(S(i).vm, prog.cores, c) ELSE S(i).vm
  BY <1>0, ProgFacts, PartFields DEF Cores
<1>2. /\ Regular(p) /\ S(i).vm.lo <= p.lo /\ p.hi <= S(i).vm.hi
      /\ OneByOne(S(i).vm) => OneByOne(p)
  <2>1. CASE IsSplitable(i)
    BY <1>1, <2>1, SplitIsRegular
  <2>2. CASE ~IsSplitable(i)
    BY <1>1, <2>2, RegularFields
  <2> QED BY <2>1, <2>2
<1>3. vmState[c].sent \in Seq(Int)
  BY <1>0 DEF VmOK
<1>4. CASE ~Loaded(c)
  <2>1. DOMAIN vmState[c].sent = {}
    BY <1>0, <1>4 DEF Writing
  <2> QED BY <1>2, <1>3, <2>1
<1>5. CASE Loaded(c)
  <2>1. Written(p, PartFor(i, c).pkts, vmState[c].value, vmState[c].sent)
    BY <1>0, <1>5 DEF Writing
  <2> QED BY <1>2, <1>3, <2>1 DEF Written
<1> QED BY <1>4, <1>5

(* Everything the cores have written is in the range of the user.          *)
LEMMA ValuesInRange ==
  ASSUME CInv, VmOK, Writing, pc = "load", NEW i \in Enabled, Regular(S(i).vm),
         NEW c \in FirstOn(i), NEW k \in DOMAIN vmState[c].sent
  PROVE  vmState[c].sent[k] \in S(i).vm.lo .. S(i).vm.hi
<1> DEFINE p == PartFor(i, c).vm
<1>1. /\ Regular(p) /\ S(i).vm.lo <= p.lo /\ p.hi <= S(i).vm.hi
      /\ vmState[c].sent[k] \in p.lo .. p.hi
  BY PartValues
<1>2. p.lo \in Nat /\ p.hi \in Nat /\ S(i).vm.lo \in Nat /\ S(i).vm.hi \in Nat
  BY <1>1, RegularFields
<1> HIDE DEF p
<1> QED BY <1>1, <1>2

(* When all is sent, the parts of a burst as long as the range have sent   *)
(* the values of their own ranges, which are divided alike.                *)
LEMMA PartsMatch ==
  ASSUME CInv, pc = "load", NEW i \in Enabled, Regular(S(i).vm), OneByOne(S(i).vm),
         S(i).pkts = Size(S(i).vm), Size(S(i).vm) < Top, NEW c \in Parts(i)
  PROVE  /\ PartFor(i, c).pkts \in Nat /\ PartFor(i, c).pkts <= S(i).pkts
         /\ S(i).pkts >= prog.cores =>
              /\ Parts(i) = 0 .. prog.cores - 1 /\ IsSplit(S(i).vm, prog.cores)
              /\ PartFor(i, c).vm = Piece(S(i).vm, prog.cores, c)
              /\ PartFor(i, c).pkts = Size(PartFor(i, c).vm)
         /\ S(i).pkts < prog.cores =>
              /\ PartFor(i, c).vm = S(i).vm /\ 0 \in Parts(i)
              /\ PartFor(i, c).pkts = IF c = 0 THEN S(i).pkts ELSE 0
<1> DEFINE vm == S(i).vm
           a  == S(i).pkts
           n  == prog.cores
<1>0. prog \in Programs /\ Parts(i) = {d \in Cores : i \in OnCore(d)}
  BY PartsOfStream DEF CInv
<1>1. n \in Nat \ {0} /\ 0 \in Cores /\ c \in 0 .. n - 1 /\ i \in OnCore(c)
  BY <1>0, ProgFacts DEF Cores
<1>2. vm \in Vms /\ vm.lo <= vm.hi /\ vm.kind # "none"
  BY DEF Regular, StartsInRange
<1>3. a \in Nat /\ a > 0 /\ SplitableRange(vm) = a
  BY <1>2, SplitableIs
<1>4. /\ PartFor(i, c).pkts = IF IsSplitable(i) THEN Share(i, c) ELSE a
      /\ PartFor(i, c).vm = IF IsSplitable(i) THEN SplitVm(vm, n, c) ELSE vm
  BY <1>0, <1>1, PartFields DEF Cores
<1>5. 0 \in Parts(i)
  BY <1>0, <1>1 DEF OnCore
<1>6. Share(i, c) = a \div n + IF c = 0 THEN a % n ELSE 0
  BY DEF Share
<1>7. CASE a >= n
  <2>1. IsSplitable(i)
    <3>1. a \div n > 0
      BY <1>1, <1>3, <1>7
    <3> QED BY <3>1 DEF IsSplitable
  <2>2. Parts(i) = 0 .. n - 1
    BY <1>0, <2>1 DEF OnCore, Cores
  <2>3. IsSplit(vm, n)
    BY <1>3, <1>7 DEF IsSplit, OneByOne
  <2>4. PartFor(i, c).vm = Piece(vm, n, c)
    BY <1>2, <1>4, <2>1, <2>3 DEF SplitVm
  <2> DEFINE q == a \div n
             r == a % n
  <2>5. Division(Size(vm), n, q, r)
    BY DEF Division
  <2>6. q \in Nat /\ r \in Nat /\ q + r <= a
    <3>1. /\ q \in Nat \ {0} /\ r \in Nat /\ a = q * n + r
          /\ 0 * q \in Nat /\ 0 * q + q <= q * n
      <4>1. 0 \in 0 .. n - 1
        BY <1>1
      <4> QED BY <1>1, <1>3, <1>7, <2>5, <4>1, DivisionFits
    <3> DEFINE nq == q * n
    <3>2. q \in Nat /\ r \in Nat /\ a = nq + r /\ nq \in Nat /\ q <= nq
      <4> HIDE DEF q, r
      <4>1. 0 * q = 0 /\ q * n \in Nat
        BY <1>1, <3>1
      <4>2. q <= q * n
        BY <3>1, <4>1
      <4> QED BY <3>1, <4>1, <4>2
    <3> HIDE DEF nq, q, r
    <3>3. q + r <= a
      BY <3>2
    <3> QED BY <3>2, <3>3
  <2> HIDE DEF q, r
  <2>7. Size(Piece(vm, n, c)) = q + (IF c = 0 THEN r ELSE 0)
    BY <1>1, <1>2, <2>3, <2>5, PieceFacts
  <2>8. PartFor(i, c).pkts = q + (IF c = 0 THEN r ELSE 0)
    BY <1>4, <1>6, <2>1 DEF q, r
  <2>9. PartFor(i, c).pkts \in Nat /\ PartFor(i, c).pkts <= a
    BY <1>3, <2>6, <2>8
  <2> QED BY <1>1, <1>3, <1>7, <2>2, <2>3, <2>4, <2>7, <2>8, <2>9
<1>8. CASE a < n
  <2>1. ~IsSplit(vm, n)
    BY <1>1, <1>3, <1>8 DEF IsSplit
  <2>2. PartFor(i, c).vm = vm
    BY <1>4, <2>1 DEF SplitVm
  <2>3. a \div n = 0 /\ a % n = a
    BY <1>1, <1>3, <1>8
  <2>4. Share(i, c) = IF c = 0 THEN a ELSE 0
    BY <1>3, <1>6, <2>3
  <2>5. ~IsSplitable(i) => c = 0
    BY <1>1 DEF OnCore
  <2>6. PartFor(i, c).pkts = IF c = 0 THEN a ELSE 0
    BY <1>4, <2>4, <2>5
  <2> QED BY <1>1, <1>3, <1>5, <1>8, <2>2, <2>6
<1> QED BY <1>1, <1>3, <1>7, <1>8

(* A value that is written at one place only is written once.              *)
LEMMA OneWriting ==
  ASSUME NEW i, NEW v, NEW c \in FirstOn(i), NEW k \in 1 .. S(i).pkts,
         \A d \in FirstOn(i), j \in 1 .. S(i).pkts :
           (j <= Len(vmState[d].sent) /\ vmState[d].sent[j] = v) <=> (d = c /\ j = k)
  PROVE  TimesWritten(i, v) = 1
<1> DEFINE W == {ck \in FirstOn(i) \X (1 .. S(i).pkts) :
                   ck[2] <= Len(vmState[ck[1]].sent) /\ vmState[ck[1]].sent[ck[2]] = v}
<1>1. W = {<<c, k>>}
  OBVIOUS
<1>2. TimesWritten(i, v) = Cardinality(W)
  BY DEF TimesWritten
<1> HIDE DEF W
<1> QED BY <1>1, <1>2, FS_Singleton

(* A burst as long as the range writes every value once.                   *)
LEMMA EachValueOnce ==
  ASSUME CInv, VmOK, Writing, pc = "load", NEW i \in Enabled, Regular(S(i).vm),
         OneByOne(S(i).vm), S(i).pkts = Size(S(i).vm), Size(S(i).vm) < Top,
         FirstOn(i) = Parts(i),
         \A c \in FirstOn(i) : Len(vmState[c].sent) = objs[c][1].pkts,
         NEW v \in S(i).vm.lo .. S(i).vm.hi
  PROVE  TimesWritten(i, v) = 1
<1> DEFINE vm == S(i).vm
           a  == S(i).pkts
           n  == prog.cores
<1>0. prog \in Programs /\ n \in Nat \ {0}
  BY ProgFacts DEF CInv
<1>1. vm \in Vms /\ vm.lo <= vm.hi /\ a \in Nat
  <2>1. vm \in Vms /\ vm.lo <= vm.hi
    BY DEF Regular, StartsInRange
  <2> QED BY <2>1, SplitableIs
<1>2. ASSUME NEW d \in Parts(i)
      PROVE  /\ vmState[d].sent \in Seq(Int) /\ Len(vmState[d].sent) = PartFor(i, d).pkts
             /\ DOMAIN vmState[d].sent = 1 .. PartFor(i, d).pkts
             /\ \A k \in 1 .. PartFor(i, d).pkts :
                  /\ vmState[d].sent[k] \in PartFor(i, d).vm.lo .. PartFor(i, d).vm.hi
                  /\ k <= Size(PartFor(i, d).vm) => vmState[d].sent[k] = Value(PartFor(i, d).vm, k)
  <2>1. /\ vmState[d].sent \in Seq(Int)
        /\ \A k \in DOMAIN vmState[d].sent :
             vmState[d].sent[k] \in PartFor(i, d).vm.lo .. PartFor(i, d).vm.hi
        /\ \A k \in DOMAIN vmState[d].sent :
             k <= Size(PartFor(i, d).vm) => vmState[d].sent[k] = Value(PartFor(i, d).vm, k)
    BY <1>2, PartValues
  <2>2. Len(vmState[d].sent) = PartFor(i, d).pkts
    BY <1>2, FirstOnFacts
  <2>3. DOMAIN vmState[d].sent = 1 .. Len(vmState[d].sent)
    BY <2>1
  <2> QED BY <2>1, <2>2, <2>3
<1>3. \A d \in Parts(i) : PartFor(i, d).pkts \in Nat /\ PartFor(i, d).pkts <= a
  BY PartsMatch
<1>4. CASE a < n
  <2>1. /\ 0 \in Parts(i)
        /\ \A d \in Parts(i) : /\ PartFor(i, d).vm = vm
                               /\ PartFor(i, d).pkts = IF d = 0 THEN a ELSE 0
    <3>1. \A d \in Parts(i) : /\ PartFor(i, d).vm = vm /\ 0 \in Parts(i)
                              /\ PartFor(i, d).pkts = IF d = 0 THEN a ELSE 0
      BY <1>4, PartsMatch
    <3>2. Parts(i) # {}
      BY SharesOfStream
    <3> QED BY <3>1, <3>2
  <2>2. PICK k \in 1 .. Size(vm) : \A j \in 1 .. Size(vm) : Value(vm, j) = v <=> j = k
    BY ValuesOnce
  <2>3. k \in 1 .. a
    BY <2>2
  <2>4. ASSUME NEW d \in Parts(i), NEW j \in 1 .. a
        PROVE  (j <= Len(vmState[d].sent) /\ vmState[d].sent[j] = v) <=> (d = 0 /\ j = k)
    <3>1. CASE d = 0
      <4>1. Len(vmState[d].sent) = a /\ j <= a /\ j <= Size(vm)
        BY <1>1, <1>2, <2>1, <2>4, <3>1
      <4>2. vmState[d].sent[j] = Value(vm, j)
        BY <1>2, <2>1, <2>4, <3>1, <4>1
      <4>3. Value(vm, j) = v <=> j = k
        BY <2>2, <2>4
      <4> QED BY <3>1, <4>1, <4>2, <4>3
    <3>2. CASE d # 0
      <4>1. Len(vmState[d].sent) = 0
        BY <1>2, <2>1, <2>4, <3>2
      <4>2. ~(j <= 0)
        BY <1>1, <2>4
      <4> QED BY <3>2, <4>1, <4>2
    <3> QED BY <3>1, <3>2
  <2>5. 0 \in FirstOn(i) /\ k \in 1 .. S(i).pkts
    BY <2>1, <2>3
  <2>6. \A d \in FirstOn(i), j \in 1 .. S(i).pkts :
          (j <= Len(vmState[d].sent) /\ vmState[d].sent[j] = v) <=> (d = 0 /\ j = k)
    BY <2>4
  <2> QED BY <2>5, <2>6, OneWriting, Zenon
<1>5. CASE a >= n
  <2>1. /\ Parts(i) = 0 .. n - 1 /\ IsSplit(vm, n)
        /\ \A d \in 0 .. n - 1 : /\ PartFor(i, d).vm = Piece(vm, n, d)
                                 /\ PartFor(i, d).pkts = Size(PartFor(i, d).vm)
    <3>1. \A d \in Parts(i) : /\ Parts(i) = 0 .. n - 1 /\ IsSplit(vm, n)
                              /\ PartFor(i, d).vm = Piece(vm, n, d)
                              /\ PartFor(i, d).pkts = Size(PartFor(i, d).vm)
      BY <1>5, PartsMatch
    <3>2. Parts(i) # {}
      BY SharesOfStream
    <3> QED BY <3>1, <3>2
  <2>2. PICK c \in 0 .. n - 1 : \A d \in 0 .. n - 1 :
          v \in Piece(vm, n, d).lo .. Piece(vm, n, d).hi <=> d = c
    BY <1>0, <1>1, <2>1, PieceOfValue
  <2> DEFINE p == PartFor(i, c).vm
             m == PartFor(i, c).pkts
  <2>3. p = Piece(vm, n, c) /\ Size(p) = m /\ v \in p.lo .. p.hi
    BY <2>1, <2>2
  <2>4. Regular(p) /\ OneByOne(p)
    BY <2>1, PartValues
  <2>5. m \in Nat /\ m <= a
    BY <1>3, <2>1
  <2>6. /\ Len(vmState[c].sent) = m
        /\ \A k \in 1 .. m : k <= Size(p) => vmState[c].sent[k] = Value(p, k)
    BY <1>2, <2>1
  <2> HIDE DEF p, m
  <2>7. PICK k \in 1 .. Size(p) : \A j \in 1 .. Size(p) : Value(p, j) = v <=> j = k
    BY <2>3, <2>4, ValuesOnce
  <2>8. k \in 1 .. a
    BY <1>1, <2>3, <2>5, <2>7
  <2>9. ASSUME NEW d \in 0 .. n - 1, NEW j \in 1 .. a
        PROVE  (j <= Len(vmState[d].sent) /\ vmState[d].sent[j] = v) <=> (d = c /\ j = k)
    <3>1. CASE d = c
      <4>1. ASSUME j <= m
            PROVE  vmState[d].sent[j] = v <=> j = k
        <5>1. j \in 1 .. m /\ j <= Size(p) /\ j \in 1 .. Size(p)
          BY <1>1, <2>3, <2>5, <2>9, <4>1
        <5> QED BY <2>6, <2>7, <3>1, <5>1
      <4>2. k <= m
        BY <2>3, <2>5, <2>7
      <4> QED BY <2>6, <3>1, <4>1, <4>2
    <3>2. CASE d # c
      <4> SUFFICES ASSUME j <= Len(vmState[d].sent), vmState[d].sent[j] = v
                   PROVE  FALSE
        BY <3>2
      <4>1. Len(vmState[d].sent) = PartFor(i, d).pkts /\ PartFor(i, d).pkts \in Nat
        BY <1>2, <1>3, <2>1
      <4>2. j \in 1 .. PartFor(i, d).pkts
        BY <1>1, <2>9, <4>1
      <4>3. v \in PartFor(i, d).vm.lo .. PartFor(i, d).vm.hi
        BY <1>2, <2>1, <4>2
      <4> QED BY <2>1, <2>2, <3>2, <4>3
    <3> QED BY <3>1, <3>2
  <2>10. c \in FirstOn(i) /\ k \in 1 .. S(i).pkts
    BY <2>1, <2>8
  <2>11. \A d \in FirstOn(i), j \in 1 .. S(i).pkts :
           (j <= Len(vmState[d].sent) /\ vmState[d].sent[j] = v) <=> (d = c /\ j = k)
    BY <2>1, <2>9
  <2> QED BY <2>10, <2>11, OneWriting, Zenon
<1> QED BY <1>0, <1>1, <1>4, <1>5

(* The values written are in the user's range; a burst as long as the      *)
(* range writes each of them once, on however many cores it is divided.    *)
THEOREM RangesAreCovered == Spec => []ValuesCoverRange
<1>1. ASSUME CInv, VmOK, Writing
      PROVE  ValuesCoverRange
  <2> SUFFICES ASSUME pc = "load", NEW i \in Enabled, S(i).vm.kind # "none",
                      StartsInRange(S(i).vm), ~Wraps(S(i).vm)
               PROVE  /\ \A c \in FirstOn(i) : \A k \in DOMAIN vmState[c].sent :
                           vmState[c].sent[k] \in S(i).vm.lo .. S(i).vm.hi
                      /\ /\ \A c \in FirstOn(i) : Loaded(c) /\ Len(vmState[c].sent) = objs[c][1].pkts
                         /\ FirstOn(i) = Parts(i)
                         /\ S(i).pkts = S(i).vm.hi - S(i).vm.lo + 1
                         /\ S(i).vm.hi - S(i).vm.lo + 1 < Top
                         /\ S(i).vm.kind = "var" => S(i).vm.step = 1 /\ S(i).vm.op # "random"
                         => \A v \in S(i).vm.lo .. S(i).vm.hi : TimesWritten(i, v) = 1
    BY Zenon DEF ValuesCoverRange
  <2>1. Regular(S(i).vm) /\ S(i).vm \in Vms
    BY <1>1, ProgFacts DEF CInv, StreamRec, Regular
  <2>2. Size(S(i).vm) = S(i).vm.hi - S(i).vm.lo + 1
    BY DEF Size
  <2>3. (S(i).vm.kind = "var" => S(i).vm.step = 1 /\ S(i).vm.op # "random") => OneByOne(S(i).vm)
    BY <2>1 DEF OneByOne, Vms
  <2> QED BY <1>1, <2>1, <2>2, <2>3, ValuesInRange, EachValueOnce
<1> QED BY <1>1, WritingInvariant, PTL
=============================================================================
