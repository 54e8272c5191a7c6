------------------------------ MODULE Cmdline ------------------------------
(***************************************************************************)
(* From the boot loader's texts to the flags of the command line:          *)
(* Multiboot::init copies what fits (multiboot-info.cc, std/string.hh) and *)
(* get_flag looks for a word (cmdline.hh).  A text is a sequence of        *)
(* characters; the array it is in ends with a null character.              *)
(***************************************************************************)
EXTENDS Naturals, Sequences, FiniteSetsExt

CONSTANTS
  Space,     \* the characters isspace takes
  AddressSize, \* values of an address, 2^32
  MemoryTop, \* 1_M: the end of what multiboot may use
  InfoSize,  \* sizeof(multiboot_info)
  max_bootloader_name, max_cmdline \* sizes of the buffers

ASSUME CmdlineAssumption == max_bootloader_name \in Nat \ {0} /\ max_cmdline \in Nat \ {0}

isspace(c) == c \in Space

NUL == "\\0"

\* text[i], where the character behind the last one can be read.
Char(text, i) == IF i =< Len(text) THEN text[i] ELSE NUL

\* How far both go on alike, at most n characters.
Alike(s1, s2, n) ==
  Max({k \in 0 .. n : k =< Len(s1) /\ k =< Len(s2) /\ \A j \in 1 .. k : s1[j] = s2[j]})

strneq(s1, s2, n) ==
  n > 0 => LET k == Alike(s1, s2, n - 1) IN Char(s1, k + 1) = Char(s2, k + 1)

\* Mutants: what a slip in string.hh would make of the definition that follows.
MutPrefixOf(prefix, s2) ==
  LET k == Alike(prefix, s2, Len(prefix))
  IN  Char(prefix, k + 1) = NUL \/ Char(s2, k + 1) = NUL

str_prefix_of(prefix, s2) ==
  LET k == Alike(prefix, s2, Len(prefix))
  IN  Char(prefix, k + 1) = NUL \/ Char(prefix, k + 1) = Char(s2, k + 1)

\* What strncpy leaves in a buffer of mx > 0 characters.
strncpy(src, mx) == SubSeq(src, 1, Min({Len(src), mx - 1}))

-----------------------------------------------------------------------------
(* Multiboot.                                                              *)

\* CHECKPTR.
Below(p, sz) == p = 0 \/ (p + sz) % AddressSize =< MemoryTop

Kept(given, text, mx) == IF given THEN strncpy(text, mx) ELSE <<>>

\* What init keeps of what it is given at address src; nothing when it fails.
init(src, info) ==
  IF src # 0 /\ Below(src, InfoSize) /\ Below(info.mmap_addr, info.mmap_length)
  THEN {[flags |-> info.flags,
         bootloader_name_ |-> Kept("name" \in info.flags, info.boot_loader_name, max_bootloader_name),
         cmdline_ |-> Kept("cmdline" \in info.flags, info.cmdline, max_cmdline)]}
  ELSE {}

\* The texts, or no text when the boot loader gave none.
bootloader_name(mb) == {t \in {mb.bootloader_name_} : "name" \in mb.flags}
cmdline(mb)         == {t \in {mb.cmdline_} : "cmdline" \in mb.flags}

-----------------------------------------------------------------------------
\* From place i on, the first behind the spaces, or behind what is no space.
Skip(spaces, line, i) == Min({k \in i .. Len(line) + 1 : k > Len(line) \/ isspace(line[k]) # spaces})

\* The loop of get_flag, from the places of the line it comes to.
get_flag(key, line) ==
  LET Here(i) ==
        /\ str_prefix_of(key, SubSeq(line, i, Len(line)))
        /\ Char(line, i + Len(key)) = NUL \/ isspace(Char(line, i + Len(key)))
      found[i \in 1 .. Len(line) + 1] ==
        i =< Len(line) /\ (Here(i) \/ found[Skip(TRUE, line, Skip(FALSE, line, i))])
  IN  found[1]

-----------------------------------------------------------------------------
\* The words of a line: what stands between spaces, or an end, and others.
Words(line) ==
  {SubSeq(line, w[1], w[2]) : w \in
     {r \in (1 .. Len(line)) \X (1 .. Len(line)) :
        /\ r[1] =< r[2] /\ \A j \in r[1] .. r[2] : ~isspace(line[j])
        /\ r[1] = 1 \/ isspace(line[r[1] - 1])
        /\ r[2] = Len(line) \/ isspace(line[r[2] + 1])}}

\* Of a command line that fits exactly the words are set as flags; of another
\* one those of the part that fits, whose last word may be cut; and of none
\* there is no line to look at.
FlagsLaw(key, info, mb) ==
  /\ cmdline(mb) = {} <=> "cmdline" \notin info.flags
  /\ \A line \in cmdline(mb) :
       /\ Len(line) < max_cmdline
       /\ get_flag(key, line) <=> key \in Words(line)
       /\ Len(info.cmdline) < max_cmdline => Words(line) = Words(info.cmdline)
       /\ \A w \in Words(line) : \E v \in Words(info.cmdline) : str_prefix_of(w, v)

\* Names that are copied compare equal exactly when they are, and no name is
\* found that was cut.
NameLaw(name, other, mx) ==
  LET copy == strncpy(name, mx)
  IN  /\ Len(copy) < mx /\ Len(name) < mx => copy = name
      /\ strneq(other, copy, mx) <=> other = copy
=============================================================================
