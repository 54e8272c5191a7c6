------------------------------- MODULE Initrd -------------------------------
(***************************************************************************)
(* The initial file system, kernel/src/initrd.cc, and the program that     *)
(* writes it, initrd/mkinitrd.pl: a header, a table of files and the       *)
(* files' data, whose offsets count from the end of the table.             *)
(***************************************************************************)
EXTENDS Span, Sequences, FiniteSetsExt

CONSTANTS
  initrd_start, \* where the archive lies in kernel memory
  HeaderSize,   \* sizeof(header_t) (32)
  EntrySize,    \* sizeof(file_entry_t) (32)
  Align,        \* alignment of file data (8)
  FileLists,    \* lists of files given to mkinitrd: of each its name and bytes
  OtherArchives \* archives that mkinitrd did not write

VARIABLES
  archive,     \* header, table and bytes, and the files it was written from
  reading,     \* "header", "table", or how init ended
  entry,       \* the table entry whose turn it is
  entry_count  \* 0 unless the archive is accepted

vars == <<archive, reading, entry, entry_count>>

HeadByte == 0 - 1 \* a byte of the header or the table
PadByte == 0 - 2  \* a byte between files

file_entry_offset(n) == HeaderSize + n * EntrySize

-----------------------------------------------------------------------------
\* The index of the first byte at or after i that is aligned is i + pad_size(i).
pad_size(i) == IF i % Align = 0 THEN 0 ELSE Align - (i % Align)

\* Where the data of the first n files end, counted from the end of the table.
DataEnd(files) ==
  LET end[n \in 0 .. Len(files)] ==
        IF n = 0 THEN 0
        ELSE LET i == end[n - 1] IN i + pad_size(i) + Len(files[n].bytes)
  IN  end

\* An entry of the table for each file.
Table(files) ==
  [n \in 1 .. Len(files) |->
     LET i == DataEnd(files)[n - 1]
     IN  [name |-> files[n].name, terminated |-> TRUE,
          offset |-> i + pad_size(i), size |-> Len(files[n].bytes)]]

\* What is printed for the first n files: padding and the bytes of each.
Data(files) ==
  LET data[n \in 0 .. Len(files)] ==
        IF n = 0 THEN <<>>
        ELSE LET d == data[n - 1]
             IN  d \o [i \in 1 .. pad_size(Len(d)) |-> PadByte] \o files[n].bytes
  IN  data

\* What mkinitrd prints.
Written(files) ==
  LET head == file_entry_offset(Len(files))
      bytes == [i \in 1 .. head |-> HeadByte] \o Data(files)[Len(files)]
  IN  [magic |-> TRUE, entry_size |-> EntrySize, entries |-> Table(files),
       bytes |-> bytes, size |-> Len(bytes), written |-> TRUE, files |-> files]

Init ==
  /\ archive \in {Written(files) : files \in FileLists} \cup OtherArchives
  /\ reading = "header" /\ entry = 1 /\ entry_count = 0

-----------------------------------------------------------------------------
data_offset == file_entry_offset(entry_count)

HeaderOk ==
  /\ archive.size >= HeaderSize /\ archive.magic /\ archive.entry_size = EntrySize
  /\ Len(archive.entries) * archive.entry_size =< archive.size

CheckHeader ==
  /\ reading = "header"
  /\ reading' = IF HeaderOk THEN "table" ELSE "invalid"
  /\ UNCHANGED <<archive, entry, entry_count>>

\* A sum of words that wraps around.
MutEntryOk(e) ==
  Plus(Plus(data_offset, e.offset), e.size) =< archive.size /\ e.terminated

\* The sums are of 64 bits.
EntryOk(e) ==
  /\ data_offset + e.offset =< archive.size
  /\ data_offset + e.offset + e.size =< archive.size
  /\ e.terminated

CheckEntry ==
  /\ reading = "table" /\ entry =< Len(archive.entries)
  /\ \/ EntryOk(archive.entries[entry]) /\ entry' = entry + 1 /\ UNCHANGED reading
     \/ ~EntryOk(archive.entries[entry]) /\ reading' = "invalid" /\ UNCHANGED entry
  /\ UNCHANGED <<archive, entry_count>>

Accept ==
  /\ reading = "table" /\ entry > Len(archive.entries)
  /\ reading' = "accepted" /\ entry_count' = Len(archive.entries)
  /\ UNCHANGED <<archive, entry>>

Next == CheckHeader \/ CheckEntry \/ Accept

Spec == Init /\ [][Next]_vars

-----------------------------------------------------------------------------
\* Entries of that name; get_entry returns the first.
Named(name) == {i \in 1 .. entry_count : archive.entries[i].name = name}

get_file(name) ==
  LET e == archive.entries[Min(Named(name))]
  IN  [data |-> Plus(initrd_start, Plus(data_offset, e.offset)), size |-> e.size]

\* The bytes a reader of the file finds.
Content(file) ==
  [b \in 1 .. file.size |-> archive.bytes[file.data - initrd_start + b]]

-----------------------------------------------------------------------------
\* The kernel finds what mkinitrd wrote: the archive is accepted, each name in
\* it gives the bytes of the first file of that name, and every file's data are
\* aligned ("file data are guaranteed to be aligned to 8-byte boundaries",
\* mkinitrd.pl:54).  Offsets, padding, printed data and data_offset are computed
\* in places that must agree.
FindsWritten ==
  archive.written =>
    /\ reading # "invalid"
    /\ reading = "accepted" =>
         \A k \in DOMAIN archive.files :
           LET name == archive.files[k].name
               first == Min({j \in DOMAIN archive.files : archive.files[j].name = name})
           IN  /\ Named(name) # {}
               /\ Content(get_file(name)) = archive.files[first].bytes
               /\ (data_offset + archive.entries[k].offset) % Align = 0

\* However large the numbers in a table are, no file that the kernel can find
\* ends further behind the archive than the table is long: no sum of the checks
\* wraps around, and none is visible before it is checked.
EndBounded ==
  \A i \in 1 .. entry_count :
    LET e == archive.entries[i]
    IN  data_offset + e.offset + e.size =< archive.size + entry_count * EntrySize

\* The inductive invariant of init: the entries before `entry` have been checked
\* with a table of no entries, and what mkinitrd wrote passes.
InitrdInv ==
  /\ archive.written => archive = Written(archive.files)
  /\ reading \in {"header", "table", "accepted", "invalid"}
  /\ entry \in 1 .. Len(archive.entries) + 1
  /\ reading = "accepted" => entry = Len(archive.entries) + 1
  /\ entry_count = IF reading = "accepted" THEN Len(archive.entries) ELSE 0
  /\ \A k \in 1 .. entry - 1 :
       HeaderSize + archive.entries[k].offset + archive.entries[k].size =< archive.size
  /\ archive.written => reading # "invalid"
=============================================================================
