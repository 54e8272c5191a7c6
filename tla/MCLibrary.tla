----------------------------- MODULE MCLibrary -----------------------------
(* The library for TLC.  A behaviour is one of the ring buffer, by itself or *)
(* with tasks on their way through own_ptrs, or a single call of a           *)
(* converter, of the search for a flag, of the PCI scan or a metafunction.    *)
EXTENDS Ownership, Fmt, TypeLists, Cmdline

Pci == INSTANCE PciScan

VARIABLE call \* what is called: the queue's operations, by tasks or not, or one of the rest

Texts == {<<>>, <<"a", "b">>, <<"l", "o", "n", "g", "e", "r">>}

(* Texts and what each should show.                                         *)
Shown == {[arg |-> [type |-> "string", text |-> t], shows |-> t] : t \in Texts}
         \cup {[arg |-> [type |-> "null"], shows |-> Null],
               [arg |-> [type |-> "char", c |-> "z"], shows |-> <<"z">>],
               [arg |-> [type |-> "bool", b |-> TRUE], shows |-> <<"t", "r", "u", "e">>],
               [arg |-> [type |-> "span", digits |-> 8, start |-> 16, length |-> 8, valid |-> FALSE],
                shows |-> Invalid]}

Spans == [type : {"span"}, digits : {8, 16}, start : {0, 31, 4096}, length : {0, 1, 255}, valid : {TRUE}]

(* What is between the braces of a specification for numbers.               *)
Specs == [hash : BOOLEAN, plus : BOOLEAN, left : BOOLEAN, zero : BOOLEAN,
          width : {0, 1, 4, 10}, radix : {2, 3, 10, 16}, late : BOOLEAN]

Base(s) == CASE s.radix = 2 -> <<"b">> [] s.radix = 3 -> <<"3", "r">> [] s.radix = 16 -> <<"x">>
             [] s.radix = 10 -> <<>>

Width(w) == CASE w = 0 -> <<>> [] w = 1 -> <<"1">> [] w = 4 -> <<"4">>
              [] w = 10 -> <<"1", "0">>

If(b, c) == IF b THEN <<c>> ELSE <<>>

(* A radix given by number comes before the width: it takes one for itself. *)
Written(s) ==
  LET late == s.late /\ s.radix # 3
  IN  If(s.hash, "#") \o If(s.plus, "+") \o If(s.left, "-")
      \o (IF late THEN <<>> ELSE Base(s)) \o If(s.zero, "0") \o Width(s.width)
      \o (IF late THEN Base(s) ELSE <<>>)

Meant(s) ==
  [Fmtflags EXCEPT !.width = s.width, !.radix = s.radix, !.unsign = s.radix \in {2, 16},
     !.explicit_sign = s.plus, !.prefix_radix = s.hash, !.align_left = s.left, !.prefix_zero = s.zero]

Braces(cs) == <<"{">> \o cs \o <<"}">>

(* Pieces of a format string: what stands for itself, and what it prints... *)
Plain == {[says |-> <<>>, prints |-> <<>>], [says |-> <<"a">>, prints |-> <<"a">>],
          [says |-> <<"}", "0">>, prints |-> <<"}", "0">>],
          [says |-> <<"{", "4", "{", "x">>, prints |-> <<"{", "x">>]}

(* ... and specifications, with an argument each.                           *)
Braced == {<<>>, <<"-", "1", "2">>, <<"0", "5">>, <<"~", "3">>, <<"#", "x">>, <<"+", "6">>}

First  == [type : {"integer"}, n : {-3, 0, 10}]
Second == {[type |-> "null"], [type |-> "char", c |-> "z"], [type |-> "integer", n |-> 31]}

Calls ==
  {[is |-> "number", spec |-> s, n |-> n] : s \in Specs, n \in {-255, -1, 0, 7, 10, 255, 1000}}
  \cup {[is |-> "size", unit |-> u, width |-> w, n |-> n] :
          u \in {"S", "K", "M"}, w \in {0, 4, 10},
          n \in {0, 1, 999, 1000, 1023, 1500, 999999, 1000000, 20480000, 999999999}}
  \cup {[is |-> "address", hash |-> h, width |-> w, n |-> n] :
          h \in BOOLEAN, w \in {0, 10}, n \in {0, 1, 255, 4096, 65535}}
  \cup {[is |-> "text", left |-> l, width |-> w, of |-> t] :
          l \in BOOLEAN, w \in {0, 1, 4, 10}, t \in Shown}
  \cup {[is |-> "span", arg |-> a] : a \in Spans}
  \cup {[is |-> "pieces", plain |-> <<p, q>>, spec |-> <<s, t>>, arg |-> <<a, b>>] :
          p \in Plain, q \in Plain, s \in Braced, t \in Braced, a \in First, b \in Second}
  \cup {[is |-> "pack", ts |-> ts] :
          ts \in UNION {[1 .. k -> {uint(v) : v \in {0, 1, 2, 15}}] : k \in 0 .. 4}
                 \cup UNION {[1 .. k -> {sint(v) : v \in {-2, -1, 0, 2}}] : k \in 0 .. 4}}

(* Command lines and what a boot loader says of them.                       *)
MCSpace == {" "}

ASSUME MCSpaceAssumption == Space = MCSpace

Lines == UNION {[1 .. k -> {"q", "v", " "}] : k \in 0 .. 6}

Keys == {<<"q">>, <<"v">>, <<"q", "v">>, <<"v", "q", "v">>}

Infos ==
  [flags : {{"cmdline"}}, boot_loader_name : {<<"g">>}, cmdline : Lines, mmap_addr : {9}, mmap_length : {3}]
  \cup [flags : SUBSET {"cmdline", "name"}, boot_loader_name : {<<"g">>, <<"g", "g", "g">>},
        cmdline : {<<"q">>}, mmap_addr : {0, 9, 60}, mmap_length : {3, 8}]

(* Names of files, around the length of their field.                        *)
Names == UNION {[1 .. k -> {"q", "v"}] : k \in 0 .. 4}

(* Devices of the PCI buses: with any two ranges, in any arrangement of     *)
(* functions.                                                               *)
Ranges ==
  {Pci!NoBar}
  \cup {[base |-> k * n, size |-> n, kind |-> 1] : n \in {4, 16, 64}, k \in 0 .. 3}
  \cup {[base |-> k * n, size |-> n, kind |-> 8] : n \in {16, 64}, k \in 0 .. 3}

Device(multi, first, second) == [multi |-> multi, bars |-> <<first, second>>]

Single(r, s) == [p \in {<<0, 0>>} |-> Device(FALSE, r, s)]

Spread(multi, places) ==
  [p \in places |-> Device(multi, [base |-> 64, size |-> 16, kind |-> 0], Pci!NoBar)]

Machines ==
  {Single(r, s) : r \in Ranges, s \in Ranges}
  \cup {Spread(multi, places) : multi \in BOOLEAN, places \in SUBSET ({0, 1} \X {0, 1, 7})}

Readings ==
  [is : {"pci"}, devices : Machines] \cup
  [is : {"boot"}, src : {0, 2, 15}, info : Infos] \cup [is : {"name"}, name : Names, other : Names]

Queue == [is |-> "queue"]

MCInit ==
  /\ OwnInit /\ call \in Calls \cup Readings \cup {Queue}
  /\ caller = "first" => call = Queue

MCNext == call = Queue /\ OwnNext /\ UNCHANGED call

MCSpec == MCInit /\ [][MCNext]_<<vars, ownVars, call>>
-----------------------------------------------------------------------------
(* What a call prints.                                                      *)
Printed ==
  CASE call.is = "number"  -> fmt(Braces(Written(call.spec)), <<[type |-> "integer", n |-> call.n]>>)
    [] call.is = "size"    -> fmt(Braces(Width(call.width) \o <<call.unit>>),
                                  <<[type |-> "integer", n |-> call.n]>>)
    [] call.is = "address" -> fmt(Braces(If(call.hash, "#") \o Width(call.width)),
                                  <<[type |-> "address", n |-> call.n]>>)
    [] call.is = "text"    -> fmt(Braces(If(call.left, "-") \o Width(call.width)), <<call.of.arg>>)
    [] call.is = "span"    -> fmt(Braces(<<>>), <<call.arg>>)
    [] call.is = "pieces"  -> fmt(call.plain[1].says \o Braces(call.spec[1]) \o call.plain[2].says
                                  \o Braces(call.spec[2]) \o Braces(<<"x">>), call.arg)

(* fmt.hh:31-312: what the kernel prints says what it was given.  Numbers,  *)
(* sizes and addresses stand for their argument and keep to their width; a  *)
(* text is never cut; the bounds of a span fit the buffer they are put      *)
(* together in; and a format string prints what its pieces print one by     *)
(* one: no flag of one specification reaches the next.                      *)
FmtExact ==
  CASE call.is = "number"  -> NumberLaw(Meant(call.spec), call.n, Printed)
    [] call.is = "size"    -> SizeLaw([Fmtflags EXCEPT !.width = call.width,
                                         !.radix = CASE call.unit = "S" -> 0 [] call.unit = "K" -> 1
                                                     [] call.unit = "M" -> 2], call.n, Printed)
    [] call.is = "address" -> AddressLaw([Fmtflags EXCEPT !.prefix_radix = call.hash], call.n, Printed)
    [] call.is = "text"    ->
         TextLaw([Fmtflags EXCEPT !.width = call.width, !.align_left = call.left], call.of.shows, Printed)
    [] call.is = "span"    -> SpanLaw(call.arg, Printed)
    [] call.is = "pieces"  ->
         Printed = call.plain[1].prints \o fmt(Braces(call.spec[1]), <<call.arg[1]>>)
                   \o call.plain[2].prints \o fmt(Braces(call.spec[2]), <<call.arg[2]>>)
                   \o Braces(<<"x">>)
    [] OTHER -> TRUE

(* cmdline.hh:25-35: the search for a flag tells words from their parts,    *)
(* whatever stands around them and wherever the line was cut; a file's name *)
(* is found exactly when it fits its field (initrd.cc:48-65).               *)
FlagsExact ==
  CASE call.is = "boot" -> \A mb \in init(call.src, call.info), key \in Keys : FlagsLaw(key, call.info, mb)
    [] call.is = "name" -> NameLaw(call.name, call.other, 4)
    [] OTHER -> TRUE

(* pci.cc:65-79: finding out how large a device's ranges are moves none of  *)
(* them, and finds it out.                                                  *)
PciExact == call.is = "pci" => Pci!ScanLaw(call.devices)

(* draken.hh:60-560: the metafunctions compute what Either's layout needs.  *)
Same == [a \in Num |-> a]
AbsOf == [a \in Num |-> abs(a)]

TypeListsExact ==
  call.is = "pack" =>
    /\ SortLaw(Same, call.ts, sort(call.ts))
    /\ SortLaw(AbsOf, call.ts, sort_on(AbsOf, call.ts))
    /\ \A n \in 0 .. 5 : CutLaw(n, call.ts)
    /\ (\A i \in DOMAIN call.ts : call.ts[i].u) => StorageLaw(call.ts)
    /\ ArithmeticLaw(call.ts) /\ BranchLaw(call.ts)
=============================================================================
