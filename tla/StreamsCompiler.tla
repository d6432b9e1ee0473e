-------------------------- MODULE StreamsCompiler --------------------------
(***************************************************************************)
(* TrexStreamsCompiler: from the streams of a port to one object per DP    *)
(* core, up to the nodes the cores link from them.                         *)
(*                                                                         *)
(* The port's streams are a sequence, in the order of its hash table; a    *)
(* stream's id is its position (the table has no duplicate ids).  next is  *)
(* an id, which need not exist, or None.  On a core the streams carry the  *)
(* compressed ids 0, 1, ... of the enabled ones.                           *)
(***************************************************************************)
EXTENDS FieldEngine, Sequences, FiniteSets, SequencesExt

CONSTANT Programs   (* the inputs: streams and a number of DP cores *)

None == -1

StreamRec == [enabled : BOOLEAN, cont : BOOLEAN, self : BOOLEAN,
              next : Nat \cup {None}, pkts : Nat, vm : Vms]

ASSUME ProgramsAssumption ==
  \A p \in Programs : p.cores \in Nat \ {0} /\ p.streams \in Seq(StreamRec)

VARIABLES
  prog,      \* the input
  pc,        \* the pass of the compiler; then error, crash, load, run
  stack,     \* next_nodes in check_for_unreachable_streams
  marked,    \* the nodes with m_marked; None is m_dead_end
  todo,      \* the next stream to compile
  objs,      \* the object of every core; << >> becomes NULL
  links,     \* of every loaded core: the position m_next_stream points to
  failed,    \* the cores where the assert on the next stream has failed
  vmState    \* of every core: the variable's value and the values sent

vars == <<prog, pc, stack, marked, todo, objs, links, failed, vmState>>

Ids   == DOMAIN prog.streams
S(i)  == prog.streams[i]
Cores == 0 .. prog.cores - 1
Enabled == {i \in Ids : S(i).enabled}

Init ==
  /\ prog \in Programs
  /\ pc = "allocate"
  /\ stack = << >> /\ marked = {}
  /\ todo = 1
  /\ objs = [c \in Cores |-> << >>]
  /\ links = [c \in Cores |-> << >>]
  /\ failed = {}
  /\ vmState = [c \in Cores |-> [value |-> 0, sent |-> << >>]]

-----------------------------------------------------------------------------
(***************************************************************************)
(* pre_compile_check                                                       *)
(***************************************************************************)
Passed(ok, next) == pc' = IF ok THEN next ELSE "error"

(* check_stream *)
CheckStream(i) == S(i).cont => S(i).next = None

AllocatePass ==
  /\ pc = "allocate"
  /\ Passed(\A i \in Enabled : CheckStream(i), "direct")
  /\ UNCHANGED <<prog, stack, marked, todo, objs, links, failed, vmState>>

(* Faulty variant: a link to a disabled stream is let through. *)
PointsSomewhere(i) == S(i).next \in Ids \cup {None}

PointsToNode(i) == S(i).next \in Enabled \cup {None}

(* m_roots: GraphNodeMap::add has pushed them in the order of the table. *)
Roots == {i \in Enabled : S(i).self}
InOrder(X) ==
  {q \in [1 .. Cardinality(X) -> X] : \A j, k \in DOMAIN q : j < k => q[j] < q[k]}

DirectPass ==
  /\ pc = "direct"
  /\ Passed(\A i \in Enabled : PointsToNode(i), "mark")
  /\ stack' \in InOrder(Roots)
  /\ UNCHANGED <<prog, marked, todo, objs, links, failed, vmState>>

(* check_for_unreachable_streams: one node is pulled from the stack. *)
MarkNext ==
  /\ pc = "mark" /\ stack # << >>
  /\ LET i == Last(stack) IN
       /\ marked' = marked \cup {i}
       /\ stack' = IF i \in marked \/ i = None THEN Front(stack)
                   ELSE Append(Front(stack), S(i).next)
  /\ UNCHANGED <<prog, pc, todo, objs, links, failed, vmState>>

CheckUnreachable ==
  /\ pc = "mark" /\ stack = << >>
  /\ Passed(Enabled \subseteq marked, "compile")
  /\ UNCHANGED <<prog, stack, marked, todo, objs, links, failed, vmState>>

-----------------------------------------------------------------------------
(***************************************************************************)
(* compile_stream                                                          *)
(***************************************************************************)
Compressed(i) == IF i = None THEN None ELSE Cardinality({j \in Enabled : j < i})

IsSplitable(i) == S(i).cont \/ S(i).pkts \div prog.cores > 0

(* Faulty variant: the remainder of the division is lost. *)
ShareEven(i, c) == S(i).pkts \div prog.cores

(* The packets of a burst for core c; core 0 takes the remainder. *)
Share(i, c) ==
  S(i).pkts \div prog.cores + IF c = 0 THEN S(i).pkts % prog.cores ELSE 0

DpStream(i, pkts, vm) ==
  [id |-> Compressed(i), next |-> Compressed(S(i).next), pkts |-> pkts,
   self |-> S(i).self, cont |-> S(i).cont, vm |-> vm]

OnAllCores(i) ==
  [c \in Cores |-> Append(objs[c], DpStream(i, Share(i, c), SplitVm(S(i).vm, prog.cores, c)))]

OnSingleCore(i) == [objs EXCEPT ![0] = Append(@, DpStream(i, S(i).pkts, S(i).vm))]

(* Faulty variant: a burst that cannot be split goes to the last core. *)
CompiledElsewhere(i) ==
  IF IsSplitable(i) THEN OnAllCores(i)
  ELSE [objs EXCEPT ![prog.cores - 1] = Append(@, DpStream(i, S(i).pkts, S(i).vm))]

Compiled(i) == IF IsSplitable(i) THEN OnAllCores(i) ELSE OnSingleCore(i)

CompileStream ==
  /\ pc = "compile" /\ todo \in Ids
  /\ objs' = IF S(todo).enabled THEN Compiled(todo) ELSE objs
  /\ todo' = todo + 1
  /\ UNCHANGED <<prog, pc, stack, marked, links, failed, vmState>>

AllContinues == \A i \in Ids : S(i).cont

(* start_traffic reads m_all_continues from the object of core 0. *)
CompileDone ==
  /\ pc = "compile" /\ todo \notin Ids
  /\ pc' = IF objs[0] = << >> THEN "crash" ELSE "load"
  /\ UNCHANGED <<prog, stack, marked, todo, objs, links, failed, vmState>>

-----------------------------------------------------------------------------
(***************************************************************************)
(* TrexStatelessDpCore::start_traffic: a compressed id is used as the      *)
(* position of the stream in the object of this core.                      *)
(***************************************************************************)
Loaded(c) == links[c] # << >>

(* Faulty variant: positions are counted from one. *)
LinkOffByOne(x) == IF x.next = None THEN None ELSE x.next + 1

Link(x) == IF x.next = None THEN None ELSE x.next

LoadCore(c) ==
  /\ pc = "load"
  /\ objs[c] # << >> /\ ~Loaded(c) /\ c \notin failed
  /\ LET position == [k \in DOMAIN objs[c] |-> Link(objs[c][k])] IN
       IF \E k \in DOMAIN position : position[k] >= Len(objs[c])
       THEN failed' = failed \cup {c} /\ UNCHANGED <<links, vmState>>
       ELSE /\ links' = [links EXCEPT ![c] = position]
            /\ vmState' = [vmState EXCEPT ![c].value = BssInit(objs[c][1].vm)]
            /\ UNCHANGED failed
  /\ UNCHANGED <<prog, pc, stack, marked, todo, objs>>

(* A packet of the first stream's burst, written by its program. *)
SendPacket(c) ==
  /\ Loaded(c)
  /\ LET x == objs[c][1] IN
       /\ x.vm.kind # "none"
       /\ Len(vmState[c].sent) < x.pkts
       /\ \E v \in RunVm(x.vm, vmState[c].value) :
            vmState' = [vmState EXCEPT ![c] = [value |-> v, sent |-> Append(@.sent, v)]]
  /\ UNCHANGED <<prog, pc, stack, marked, todo, objs, links, failed>>

Next ==
  \/ AllocatePass \/ DirectPass \/ MarkNext \/ CheckUnreachable
  \/ CompileStream \/ CompileDone
  \/ \E c \in Cores : LoadCore(c)
  \/ \E c \in Cores : SendPacket(c)

Spec == Init /\ [][Next]_vars

-----------------------------------------------------------------------------
(***************************************************************************)
(* Properties.                                                             *)
(***************************************************************************)

(***************************************************************************)
(* What may be compiled: continuous streams have no successor, successors  *)
(* are enabled streams, and every set that holds the self-started streams  *)
(* and their successors holds all the enabled ones.                        *)
(***************************************************************************)
WellFormed ==
  /\ \A i \in Enabled : S(i).next # None => ~S(i).cont /\ S(i).next \in Enabled
  /\ \A X \in SUBSET Enabled :
       /\ Roots \subseteq X
       /\ \A i \in X : S(i).next # None => S(i).next \in X
       => X = Enabled

(***************************************************************************)
(* The three passes accept exactly the well-formed graphs: cycles, merging *)
(* chains, streams that point to themselves and links to disabled streams  *)
(* included.                                                               *)
(***************************************************************************)
AcceptedIffWellFormed ==
  /\ pc \in {"compile", "crash", "load"} => WellFormed
  /\ pc = "error" => ~WellFormed

Parts(i) == {c \in Cores : \E k \in DOMAIN objs[c] : objs[c][k].id = Compressed(i)}
PartOf(i, c) == objs[c][CHOOSE k \in DOMAIN objs[c] : objs[c][k].id = Compressed(i)]

(* The packets of stream i, numbered on each core that has a part of it. *)
PacketsOf(i) == UNION {{c} \X (1 .. PartOf(i, c).pkts) : c \in Parts(i)}

(***************************************************************************)
(* No packet of a burst is lost or sent twice by the split, and no core    *)
(* is given a burst of zero packets, which its unsigned counter would take *)
(* for 2^32, unless the user asked for zero.                               *)
(***************************************************************************)
SharesAddUp ==
  pc = "load" =>
    \A i \in Enabled :
      /\ Parts(i) # {}
      /\ Cardinality(PacketsOf(i)) = S(i).pkts
      /\ ~S(i).cont /\ S(i).pkts > 0 => \A c \in Parts(i) : PartOf(i, c).pkts > 0

(* The node a core continues with when the burst of node k is over. *)
LinkIsNext(c) ==
  /\ c \notin failed
  /\ Loaded(c) => \A k \in DOMAIN objs[c] :
                     objs[c][k].next # None =>
                       objs[c][links[c][k] + 1].id = objs[c][k].next

(***************************************************************************)
(* The position a compressed id is taken for holds the successor: on core  *)
(* 0 always, on the other cores if every enabled stream is split.          *)
(***************************************************************************)
LinkedToSuccessor ==
  \A c \in Cores : c = 0 \/ (\A i \in Enabled : IsSplitable(i)) => LinkIsNext(c)

(***************************************************************************)
(* The same on every core: the assert in start_traffic, and its comment    *)
(* "point to the next stream , stream_id is fixed".                        *)
(***************************************************************************)
EveryLinkIsNext == \A c \in Cores : LinkIsNext(c)

(***************************************************************************)
(* What module StatelessPort assumes of a workload: if any stream is       *)
(* enabled, core 0 has an object with something to send; if all streams    *)
(* are continuous, every core has one and it never ends by itself; and a   *)
(* core without a self-started stream needs a burst too short to split.    *)
(***************************************************************************)
WorkloadSound ==
  LET Begins(c) == \E k \in DOMAIN objs[c] : objs[c][k].self IN
  /\ pc = "crash" => Enabled = {}
  /\ pc = "load" =>
       /\ Begins(0)
       /\ AllContinues => \A c \in Cores : /\ objs[c] # << >>
                                           /\ \A k \in DOMAIN objs[c] : objs[c][k].self
       /\ \A c \in Cores : ~Begins(c) => \E i \in Enabled : ~IsSplitable(i)

(* The cores that start with their part of stream i, and how often they *)
(* have written value v.                                                *)
FirstOn(i) == {c \in Parts(i) : objs[c][1].id = Compressed(i)}
TimesWritten(i, v) ==
  Cardinality({ck \in FirstOn(i) \X (1 .. S(i).pkts) :
                 ck[2] <= Len(vmState[ck[1]].sent) /\ vmState[ck[1]].sent[ck[2]] = v})

(* A variable that starts in its range, which the code leaves unchecked. *)
StartsInRange(vm) == vm.lo <= vm.hi /\ (vm.kind = "var" => vm.init \in vm.lo .. vm.hi)

(***************************************************************************)
(* The values written are in the user's range, whatever the split.  A      *)
(* burst as long as the range writes each value exactly once, although     *)
(* the burst and the range are divided among the cores by different code.  *)
(***************************************************************************)
ValuesCoverRange ==
  pc = "load" =>
    \A i \in Enabled :
      LET vm   == S(i).vm
          size == vm.hi - vm.lo + 1
          over == \A c \in FirstOn(i) : Loaded(c) /\ Len(vmState[c].sent) = objs[c][1].pkts
      IN
      vm.kind # "none" /\ StartsInRange(vm) /\ ~Wraps(vm) =>
        /\ \A c \in FirstOn(i) : \A k \in DOMAIN vmState[c].sent :
              vmState[c].sent[k] \in vm.lo .. vm.hi
        /\ /\ over /\ FirstOn(i) = Parts(i)
           /\ S(i).pkts = size /\ size < Top
           /\ vm.kind = "var" => vm.step = 1 /\ vm.op # "random"
           => \A v \in vm.lo .. vm.hi : TimesWritten(i, v) = 1
=============================================================================
