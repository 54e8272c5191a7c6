----------------------------- MODULE MCPrograms -----------------------------
(* Programs for TLC: words of 96 values, user memory of ten pages of four   *)
(* bytes from 8 to 47, the archive at 52.                                    *)
EXTENDS Programs

MCPrograms == <<"hello.elf", "hello2.elf">>

Load(offset, v_addr, file, mem) ==
  [load |-> TRUE, offset |-> offset, v_addr |-> v_addr, size_file |-> file, size_mem |-> mem]
Other == [Load(0, 0, 0, 0) EXCEPT !.load = FALSE]

\* The k-th file of a list: eight bytes that occur nowhere else.
File(k, name, ph, entryPoint) ==
  [name |-> name, bytes |-> [b \in 1 .. 8 |-> 10 * k + b],
   elf |-> [sane |-> TRUE, ph_off |-> 2, ent_size |-> EntrySize, ph |-> ph, entry |-> entryPoint]]

Cut(file, n) == [file EXCEPT !.bytes = SubSeq(@, 1, n)]

Hello == <<Load(3, 8, 2, 3)>>

\* A segment with numbers of all kinds, alone or beside one that is in order.
Odd == {Load(o, v, f, m) : o \in {0, 5, 8, 15, 91}, v \in {4, 8, 12, 36, 40, 44, 48},
                           f \in {0, 1, 4, 7, 92}, m \in {0, 1, 4, 8, 9, 94}}
OddFiles == {File(1, "hello.elf", <<phe>>, e) : phe \in Odd, e \in {8, 13, 44}}
  \cup {File(1, "hello.elf", <<Load(3, 8, 2, 3), phe>>, 9) : phe \in {p \in Odd : p.v_addr > 8}}

\* Segments on pages of their own in ascending order, as the linker writes
\* them; their zeros may reach into the next.
LinkedFiles ==
  {File(2, "hello2.elf", <<Other, Load(2, 8, f, m), Load(4, v, g, n), Other>>, 8) :
     f \in 0 .. 4, m \in {0, 1, 3, 4}, v \in {12, 16, 20}, g \in {1, 3, 4}, n \in {0, 4, 6}}

\* Headers out of bounds.
BadFiles == {[Cut(File(1, "hello.elf", Hello, 9), n) EXCEPT !.elf.ph_off = o, !.elf.sane = b] :
               n \in {1, 2, 4, 6}, o \in {0, 2, 4, 91}, b \in BOOLEAN}
  \cup {File(1, "hello.elf", ph, 8) : ph \in {<<>>, <<Other>>, <<Other, Other, Other, Other, Other>>}}

\* Files of several sizes, also with the name of one before them.
Packed ==
  {<<Cut(File(1, x, Hello, 9), n), Cut(File(2, y, Hello, 9), o), Cut(File(3, z, Hello, 9), p)>> :
     x, y, z \in {"hello.elf", "hello2.elf"}, n, o, p \in {1, 5, 6, 8}}

\* Segments that start inside a page, of sizes with and without room for that,
\* alone, beside one that maps the page they start in, and at the end of user
\* memory.
Inside == {Load(3, v, f, m) : v \in {9, 10, 11, 14, 43, 46}, f \in {0, 1, 2, 4, 5}, m \in {0, 1, 3, 4, 6}}
InsideFiles ==
  {File(1, "hello.elf", <<phe>>, e) : phe \in Inside, e \in {10, 46}}
  \cup {File(1, "hello.elf", ph, 8) :
         ph \in UNION {{<<Load(3, 8, 2, 3), phe>>, <<phe, Load(3, 8, 2, 3)>>} : phe \in Inside}}

MCFileLists ==
  {<<>>} \cup Packed \cup {<<f>> : f \in OddFiles \cup BadFiles \cup InsideFiles}
  \cup {<<Cut(File(1, "hello.elf", Hello, 9), 6), f>> : f \in LinkedFiles}

\* All but InsideFiles are linked, and some of those.
ASSUME LET linked(f) == Linked(f.elf.ph)
       IN  /\ \A f \in OddFiles \cup BadFiles \cup LinkedFiles : linked(f)
           /\ \E f, g \in InsideFiles : linked(f) /\ ~linked(g)

Table(size, entries) ==
  [magic |-> TRUE, entry_size |-> ArchiveEntry, entries |-> entries, bytes |-> <<>>,
   size |-> size, written |-> FALSE, files |-> <<>>]
Entry(o, s, t) == [name |-> "hello.elf", terminated |-> t, offset |-> o, size |-> s]

\* Archives with numbers of all kinds, and with headers that are wrong.
MCOtherArchives ==
  {Table(z, <<Entry(o, s, t)>>) :
     z \in {0, 3, 4, 8, 12}, o \in {0, 3, 4, 8, 88, 95}, s \in {0, 1, 4, 8, 92, 95}, t \in BOOLEAN}
  \cup {Table(z, <<Entry(o, s, TRUE), Entry(p, q, TRUE)>>) :
     z \in {7, 8, 12, 14}, o, p \in {0, 2, 8, 94}, s, q \in {1, 4, 10, 95}}
  \cup {[Table(8, <<Entry(0, 0, TRUE)>>) EXCEPT !.magic = FALSE],
        [Table(8, <<Entry(0, 0, TRUE)>>) EXCEPT !.entry_size = 5]}

\* A program with two segments that share memory.
MCOverlapping == {<<File(1, "hello.elf", <<Load(3, 8, 2, 3), Load(5, v, 2, 2)>>, 9)>> : v \in {8, 9}}

\* A program whose segment starts inside a page and ends in the next.
MCCrossing == {<<File(1, "hello.elf", <<Load(3, v, 4, 0)>>, 11)>> : v \in {9, 10, 11}}
MCNone == {}
=============================================================================
