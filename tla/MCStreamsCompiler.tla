------------------------- MODULE MCStreamsCompiler -------------------------
(***************************************************************************)
(* Inputs for StreamsCompiler.                                             *)
(*                                                                         *)
(* Graphs: every port of three streams, for two cores; with bursts of no   *)
(* packet, too few for two cores, and enough with a remainder.  Of a       *)
(* disabled stream only the type is read.                                  *)
(* Ranges: one burst with a variable, for up to three cores.               *)
(***************************************************************************)
EXTENDS StreamsCompiler

CONSTANTS NumStreams, Bursts, CoreCounts, Values

Disabled(cont) ==
  [enabled |-> FALSE, cont |-> cont, self |-> TRUE, next |-> None, pkts |-> 0, vm |-> NoVm]

GraphStreams ==
  {Disabled(c) : c \in BOOLEAN}
  \cup [enabled : {TRUE}, cont : {TRUE}, self : BOOLEAN,
        next : {None, 1}, pkts : {0}, vm : {NoVm}]
  \cup [enabled : {TRUE}, cont : {FALSE}, self : BOOLEAN,
        next : 1 .. NumStreams + 1 \cup {None}, pkts : Bursts, vm : {NoVm}]

Graphs == [cores : {2}, streams : [1 .. NumStreams -> GraphStreams]]

Variables ==
  {vm \in [kind : {"var"}, op : {"inc", "dec", "random"}, step : {1, 2},
           lo : Values, hi : Values, init : Values, size : {"byte", "word", "quad"}] :
     vm.lo <= vm.init /\ vm.init <= vm.hi}
  \cup {vm \in [kind : {"client"}, op : {"inc"}, step : {1},
                lo : Values, hi : Values, init : {0}, size : {"word"}] : vm.lo <= vm.hi}

Burst(n, k, vm) ==
  [cores |-> n, streams |-> << [enabled |-> TRUE, cont |-> FALSE, self |-> TRUE,
                                next |-> None, pkts |-> k, vm |-> vm] >>]

(* Two packets are enough for random values, which are all alike. *)
Ranges ==
  {p \in {Burst(n, k, vm) : n \in CoreCounts, k \in 1 .. Top, vm \in Variables} :
     p.streams[1].vm.op = "random" => p.streams[1].pkts <= 2}

AllPrograms == Graphs \cup Ranges
=============================================================================
