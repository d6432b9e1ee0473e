---------------------------- MODULE FieldEngine ----------------------------
(***************************************************************************)
(* The field engine's variables: how the compiler splits their range over  *)
(* the DP cores (TrexVmSplitter), the value they start from and the value  *)
(* each packet gets.                                                       *)
(*                                                                         *)
(* Top stands for 2^32 or 2^64, where the arithmetic of the code wraps.    *)
(* The client variable is modelled without its port and flow limit.        *)
(***************************************************************************)
EXTENDS Integers

CONSTANT Top

ASSUME TopAssumption == Top \in Nat /\ Top > 1

(***************************************************************************)
(* size: "byte" for 1 and 2 bytes (the arithmetic is done in int), "word"  *)
(* for 4 (it wraps) and "quad" for 8 (so does the size of the range).      *)
(***************************************************************************)
Vms == [kind : {"none", "var", "client"}, op : {"inc", "dec", "random"},
        step : Nat, lo : 0 .. Top - 1, hi : 0 .. Top - 1, init : 0 .. Top - 1,
        size : {"byte", "word", "quad"}]

NoVm == [kind |-> "none", op |-> "inc", step |-> 1, lo |-> 0, hi |-> 0, init |-> 0,
         size |-> "byte"]

(* get_splitable_range, get_ip_range: the whole type counts as zero. *)
SplitableRange(vm) ==
  LET r == vm.hi - vm.lo + 1 IN
  IF vm.kind = "client" \/ vm.size = "quad" THEN r % Top ELSE r

(* Anything else is compiled once and copied to every core. *)
IsSplit(vm, n) ==
  /\ SplitableRange(vm) >= n
  /\ vm.kind = "var" => vm.op # "random" /\ vm.step = 1

(* Faulty variant: the leftover of the division is dropped. *)
PieceEven(vm, n, c) ==
  LET part  == SplitableRange(vm) \div n
      start == vm.lo + c * part
      end   == start + part - 1
  IN  [vm EXCEPT !.lo = start, !.hi = end,
                 !.init = IF vm.op = "dec" THEN end ELSE start]

(* What core c gets; the first core handles a bit more. *)
Piece(vm, n, c) ==
  LET part  == SplitableRange(vm) \div n
      extra == SplitableRange(vm) % n
      start == IF c = 0 THEN vm.lo ELSE vm.lo + extra + c * part
      end   == IF c = 0 THEN start + part + extra - 1 ELSE start + part - 1
  IN  [vm EXCEPT !.lo = start, !.hi = end,
                 !.init = IF vm.op = "dec" THEN end ELSE start]

SplitVm(vm, n, c) == IF vm.kind # "none" /\ IsSplit(vm, n) THEN Piece(vm, n, c) ELSE vm

(* build_bss: one step before the first value, as the program runs first. *)
BssInit(vm) ==
  CASE vm.kind = "client" -> IF vm.lo > 0 THEN vm.lo - 1 ELSE vm.lo
    [] vm.kind = "var" /\ vm.op = "inc" -> IF vm.init = vm.lo THEN vm.hi ELSE vm.init - 1
    [] vm.kind = "var" /\ vm.op = "dec" -> IF vm.init = vm.hi THEN vm.lo ELSE vm.init + 1
    [] OTHER -> vm.init

Bound(vm, x) == IF vm.size = "byte" THEN x ELSE x % Top

RunInc(vm, v) ==
  IF vm.step = 1 THEN IF v = vm.hi THEN vm.lo ELSE (v + 1) % Top
  ELSE IF v > Bound(vm, vm.hi - vm.step) THEN vm.lo ELSE (v + vm.step) % Top

RunDec(vm, v) ==
  IF vm.step = 1 THEN IF v = vm.lo THEN vm.hi ELSE (v - 1) % Top
  ELSE IF v < Bound(vm, vm.lo + vm.step) THEN vm.hi ELSE (v - vm.step) % Top

RunClient(vm, v) ==
  LET w == (v + 1) % Top IN IF w > vm.hi THEN vm.lo ELSE w

(* Random over the whole of a 4-byte type divides by zero: no value.  The   *)
(* range of 8 bytes is cut to an int: any value.                            *)
RunRand(vm) ==
  CASE vm.size = "byte" -> vm.lo .. vm.hi
    [] vm.size = "word" -> {x \in vm.lo .. vm.hi : vm.hi - vm.lo + 1 < Top}
    [] vm.size = "quad" -> 0 .. Top - 1

(* The values the next packet may get. *)
RunVm(vm, v) ==
  CASE vm.kind = "client" -> {RunClient(vm, v)}
    [] vm.kind = "var" /\ vm.op = "inc" -> {RunInc(vm, v)}
    [] vm.kind = "var" /\ vm.op = "dec" -> {RunDec(vm, v)}
    [] vm.kind = "var" /\ vm.op = "random" -> RunRand(vm)

(* The arithmetic of the program leaves the type. *)
Wraps(vm) ==
  \/ vm.kind = "client" /\ vm.hi = Top - 1
  \/ vm.kind = "var" /\ vm.op = "random" /\ vm.size = "quad"
  \/ /\ vm.kind = "var" /\ vm.size # "byte" /\ vm.step # 1
     /\ vm.hi < vm.step \/ vm.lo + vm.step >= Top
=============================================================================
