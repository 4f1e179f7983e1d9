-------------------------------- MODULE Cpio --------------------------------
(* The initramfs writer (imager/src/cpio.rs): the lengths and offsets of a    *)
(* newc archive, against the reader the format defines.                       *)
(*                                                                            *)
(* CpioWriter pads its whole buffer to a multiple of 4 after the name and     *)
(* after the data of an entry; the format pads the name from the start of the *)
(* entry's own header, and the data from its own start.  Sizes are written in *)
(* fields of Width hexadecimal digits.                                        *)
EXTENDS Naturals, Sequences

CONSTANTS
    NameLens, DataLens,   \* the lengths of names and of contents
    MaxEntries,
    Width                 \* 8 in the code

VARIABLES
    len,       \* the length of the buffer
    ino,       \* the next inode number
    entries,   \* what was written: lengths, and where the data went
    headers,   \* what the headers say
    done       \* TRUE once finish has written the trailer

vars == <<len, ino, entries, headers, done>>

HEADER == 6 + 13 * Width
TRAILER == 10

pad4(n) == n + ((4 - (n % 4)) % 4)

\* The number a field can hold.
Field(n) == n % (16 ^ Width)

Init == len = 0 /\ ino = 1 /\ entries = <<>> /\ headers = <<>> /\ done = FALSE

\* The header, the name with its NUL, padding, the data, padding.
Entry(name, data) ==
    LET begin == pad4(len + HEADER + name + 1) IN
    /\ entries' = Append(entries, [name |-> name, data |-> data, begin |-> begin])
    /\ headers' = Append(headers, [ino |-> ino, namesize |-> Field(name + 1), filesize |-> Field(data)])
    /\ ino' = ino + 1
    /\ len' = pad4(begin + data)

\* dir, file, symlink and char_device: an entry with or without data.
Add ==
    /\ ~done /\ Len(entries) < MaxEntries /\ UNCHANGED done
    /\ \E name \in NameLens, data \in DataLens : Entry(name, data)

Finish == ~done /\ done' = TRUE /\ Entry(TRAILER, 0)

Next == Add \/ Finish

Spec == Init /\ [][Next]_vars

-----------------------------------------------------------------------------
\* The least multiple of 4 at or after n, as the format's text has it.
Aligned(n) == CHOOSE m \in n .. n + 3 : m % 4 = 0

\* Where the reader finds the n-th header and the n-th data: from the sizes in
\* the headers alone, each padded from where the reader is.
At[n \in Nat] ==
    IF n <= 1 THEN 0
    ELSE LET h == headers[n - 1]
             name == At[n - 1] + Aligned(HEADER + h.namesize)
         IN name + Aligned(h.filesize)

DataAt(n) == At[n] + Aligned(HEADER + headers[n].namesize)

\* The reader finds every entry where the writer put it, and its whole content:
\* padding the buffer is the format's padding, because every entry starts on a
\* multiple of 4.  That ends with the first content too long for its field:
\* its size is cut, and the reader looks for the next header inside it.
ReadsBack ==
    \A n \in DOMAIN entries :
        (\A k \in 1 .. n : entries[k].data < 16 ^ Width) =>
        /\ DataAt(n) = entries[n].begin
        /\ headers[n].namesize = entries[n].name + 1
        /\ headers[n].filesize = entries[n].data
=============================================================================
