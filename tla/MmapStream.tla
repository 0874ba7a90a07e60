------------------------------ MODULE MmapStream ------------------------------
(****************************************************************************)
(* Snapshots streamed into a file of fixed size through a memory mapping    *)
(* (MmapJsonStreamWriter in src/export.rs; SnapshotStream and               *)
(* stream_to_mmap in py/src/lib.rs).  All streams here are on one path, as  *)
(* a program that writes its profile to a well-known place has it.  Opening *)
(* a stream truncates the file, also under a stream that is still open.     *)
(*                                                                          *)
(* External: the file system and the mapping.  A store beyond the end of    *)
(* the file is lost when it falls into the last page and kills the process  *)
(* when it does not.  flush starts a write-back and changes nothing here.   *)
(****************************************************************************)
EXTENDS Integers, Sequences

CONSTANTS
  Streams,   \* streams, each opened once
  Contents,  \* snapshots
  Nul        \* a byte nobody has written

VARIABLES
  file,      \* what the file holds
  status,    \* whether a stream is "new", "open" or "closed"
  size,      \* mmap.len() of a stream
  position,  \* MmapJsonStreamWriter.position
  killed,    \* a store has hit a page that is gone
  accepted,  \* history: what a stream was given and took
  owner,     \* history: the stream the file was last created for
  shared     \* history: the file was created anew under an open stream

vars == <<file, status, size, position, killed, accepted, owner, shared>>

\* A chunk is the JSON of one snapshot and the newline that ends it.
Encoded(content, length) == [k \in 1 .. length |-> <<content, k, length>>]

Blank(n) == [i \in 1 .. n |-> Nul]

Init ==
  /\ file = <<>>
  /\ status = [w \in Streams |-> "new"]
  /\ size = [w \in Streams |-> 0]
  /\ position = [w \in Streams |-> 0]
  /\ killed = FALSE
  /\ accepted = [w \in Streams |-> <<>>]
  /\ owner = {}
  /\ shared = FALSE

Anew(owners) ==
  /\ owner' = owners
  /\ shared' = (shared \/ \E v \in Streams : status[v] = "open")

AtLeastOne(n) == IF n = 0 THEN 1 ELSE n

\* create: the file is emptied, given its size, and mapped.
Open(w, capacity) ==
  /\ ~killed
  /\ status[w] = "new"
  /\ status' = [status EXCEPT ![w] = "open"]
  /\ size' = [size EXCEPT ![w] = AtLeastOne(capacity)]
  /\ file' = Blank(AtLeastOne(capacity))
  /\ Anew({w})
  /\ UNCHANGED <<position, killed, accepted>>

\* create fails after it has emptied the file: when it cannot give it its
\* size, or when it cannot map it.
OpenFails(w, capacity) ==
  /\ ~killed
  /\ status[w] = "new"
  /\ status' = [status EXCEPT ![w] = "closed"]
  /\ file' \in {<<>>, Blank(AtLeastOne(capacity))}
  /\ Anew({})
  /\ UNCHANGED <<size, position, killed, accepted>>

\* The file once the bytes of a chunk from place p on are stored.
Stored(p, chunk) ==
  [i \in DOMAIN file |->
     IF i \in p + 1 .. p + Len(chunk) THEN chunk[i - p] ELSE file[i]]

\* Plausible bug: what fits is written before the chunk is refused.
WriteClipped(w, content, length) ==
  /\ ~killed
  /\ status[w] = "open"
  /\ file' = Stored(position[w], Encoded(content, length))
  /\ IF position[w] + length <= size[w]
       THEN /\ position' = [position EXCEPT ![w] = @ + length]
            /\ accepted' = [accepted EXCEPT ![w] = @ \o Encoded(content, length)]
       ELSE UNCHANGED <<position, accepted>>
  /\ killed' = FALSE
  /\ UNCHANGED <<status, size, owner, shared>>

\* write_bytes of a chunk that fits.  One that does not is refused whole.
Write(w, content, length) ==
  /\ ~killed
  /\ status[w] = "open"
  /\ position[w] + length <= size[w]
  /\ file' = Stored(position[w], Encoded(content, length))
  /\ position' = [position EXCEPT ![w] = @ + length]
  /\ accepted' = [accepted EXCEPT ![w] = @ \o Encoded(content, length)]
  /\ killed' \in (IF position[w] + length > Len(file) THEN BOOLEAN ELSE {FALSE})
  /\ UNCHANGED <<status, size, owner, shared>>

Refuse(w, length) ==
  /\ ~killed
  /\ status[w] = "open"
  /\ position[w] + length > size[w]
  /\ UNCHANGED vars

\* close drops the mapping.
Close(w) ==
  /\ ~killed
  /\ status[w] = "open"
  /\ status' = [status EXCEPT ![w] = "closed"]
  /\ UNCHANGED <<file, size, position, killed, accepted, owner, shared>>

Next ==
  \E w \in Streams :
    \/ \E n \in Nat : Open(w, n) \/ OpenFails(w, n)
    \/ \E c \in Contents, n \in Nat \ {0} : Write(w, c, n) \/ Refuse(w, n)
    \/ Close(w)

Spec == Init /\ [][Next]_vars

-----------------------------------------------------------------------------
\* A stream's position is within its mapping, and says what it has taken.
TypeOK ==
  /\ status \in [Streams -> {"new", "open", "closed"}]
  /\ owner \subseteq Streams
  /\ killed \in BOOLEAN /\ shared \in BOOLEAN
  /\ \A w \in Streams : position[w] = Len(accepted[w]) /\ position[w] <= size[w]

\* As long as the file has not been created anew under an open stream, it holds
\* exactly the chunks that its stream has taken, whole and in order, and
\* nothing after them: also after a chunk was refused, after the stream was
\* closed, and whatever the file held before it was opened.  And no store goes
\* astray (MmapJsonStreamWriter::create, write_bytes).
FileWhole ==
  ~shared =>
    /\ ~killed
    /\ \A w \in owner :
         file = accepted[w] \o Blank(size[w] - Len(accepted[w]))
=============================================================================
