---------------------------- MODULE ReportingProofs ----------------------------
(****************************************************************************)
(* Proofs about Reporting and its three parts.                              *)
(*                                                                          *)
(* Each part has an inductive invariant: StreamInv for MmapStream,          *)
(* ExportInv for PprofExport, Numbers for SnapshotDelta.  Reporting is then *)
(* shown to implement each of the three, so that what holds of a part holds *)
(* of it.                                                                   *)
(****************************************************************************)
EXTENDS Reporting, FiniteSetTheorems, TLAPS

-----------------------------------------------------------------------------
(* MmapStream.                                                              *)

\* A byte of the file.
Cell == {Nul} \cup (Contents \X Nat \X Nat)

StreamTypes ==
  /\ file \in Seq(Cell)
  /\ status \in [Streams -> {"new", "open", "closed"}]
  /\ size \in [Streams -> Nat]
  /\ position \in [Streams -> Nat]
  /\ killed \in BOOLEAN
  /\ accepted \in [Streams -> Seq(Cell)]
  /\ owner \in SUBSET Streams
  /\ shared \in BOOLEAN

\* A stream has written what it took, within its mapping.
Within ==
  \A w \in Streams : position[w] = Len(accepted[w]) /\ position[w] <= size[w]

\* A stream that was not opened has not been given anything.
Unopened ==
  \A w \in Streams : status[w] = "new" => accepted[w] = <<>> /\ w \notin owner

\* Unless the file was shared, whoever has it open is the one it was made for.
Exclusive ==
  /\ \A v, w \in owner : v = w
  /\ ~shared => \A w \in Streams : status[w] = "open" => w \in owner

\* The inductive invariant of a stream.
StreamInv == StreamTypes /\ Within /\ Unopened /\ Exclusive /\ M!FileWhole

-----------------------------------------------------------------------------
\* A chunk is a sequence of its length, and so is a blank file.
LEMMA EncodedType ==
  ASSUME NEW c \in Contents, NEW n \in Nat
  PROVE  M!Encoded(c, n) \in Seq(Cell) /\ Len(M!Encoded(c, n)) = n
BY DEF M!Encoded, Cell

LEMMA BlankType ==
  ASSUME NEW n \in Nat
  PROVE  /\ M!Blank(n) \in Seq(Cell) /\ Len(M!Blank(n)) = n
         /\ \A i \in 1 .. n : M!Blank(n)[i] = Nul
BY DEF M!Blank, Cell

\* What concatenation does, for sequences that are expressions.
LEMMA ConcatAt ==
  ASSUME NEW a \in Seq(Cell), NEW b \in Seq(Cell)
  PROVE  /\ a \o b \in Seq(Cell) /\ Len(a \o b) = Len(a) + Len(b)
         /\ \A i \in 1 .. Len(a) + Len(b) :
              (a \o b)[i] = IF i <= Len(a) THEN a[i] ELSE b[i - Len(a)]
OBVIOUS

\* Storing a chunk after what a file holds is appending it to that.
LEMMA StoreAppends ==
  ASSUME NEW a \in Seq(Cell), NEW e \in Seq(Cell), NEW n \in Nat,
         Len(a) + Len(e) <= n,
         file = a \o M!Blank(n - Len(a))
  PROVE  M!Stored(Len(a), e) = (a \o e) \o M!Blank(n - Len(a \o e))
<1> DEFINE f == file
           s == M!Stored(Len(a), e)
           m == n - Len(a)
           k == n - Len(a \o e)
           t == (a \o e) \o M!Blank(k)
<1>0. s = [i \in DOMAIN f |->
             IF i \in Len(a) + 1 .. Len(a) + Len(e) THEN e[i - Len(a)] ELSE f[i]]
  BY DEF M!Stored
<1>1. m \in Nat /\ Len(a) \in Nat /\ Len(e) \in Nat
  OBVIOUS
<1>2. M!Blank(m) \in Seq(Cell) /\ Len(M!Blank(m)) = m /\ \A i \in 1 .. m : M!Blank(m)[i] = Nul
  BY <1>1, BlankType
<1>3. /\ f \in Seq(Cell) /\ Len(f) = n /\ DOMAIN f = 1 .. n
      /\ \A i \in 1 .. n : f[i] = IF i <= Len(a) THEN a[i] ELSE Nul
  <2>1. f \in Seq(Cell) /\ Len(f) = Len(a) + Len(M!Blank(m))
    BY <1>1, <1>2
  <2>2. \A i \in 1 .. n : f[i] = IF i <= Len(a) THEN a[i] ELSE M!Blank(m)[i - Len(a)]
    BY <1>1, <1>2, <2>1
  <2> HIDE DEF m
  <2>3. n = Len(a) + m
    BY DEF m
  <2>4. \A i \in 1 .. n : i > Len(a) => M!Blank(m)[i - Len(a)] = Nul
    BY <1>1, <1>2, <2>3
  <2> QED BY <1>1, <1>2, <2>1, <2>2, <2>3, <2>4
<1>4. /\ a \o e \in Seq(Cell) /\ Len(a \o e) = Len(a) + Len(e)
      /\ \A i \in 1 .. Len(a) + Len(e) :
           (a \o e)[i] = IF i <= Len(a) THEN a[i] ELSE e[i - Len(a)]
  BY <1>1
<1>5. k \in Nat /\ n = Len(a) + Len(e) + k
  BY <1>1, <1>4
<1>6. M!Blank(k) \in Seq(Cell) /\ Len(M!Blank(k)) = k /\ \A i \in 1 .. k : M!Blank(k)[i] = Nul
  BY <1>5, BlankType
<1>7. /\ t \in Seq(Cell) /\ Len(t) = n /\ DOMAIN t = 1 .. n
      /\ \A i \in 1 .. n :
           t[i] = IF i <= Len(a) + Len(e) THEN (a \o e)[i] ELSE Nul
  <2> HIDE DEF k
  <2>1. t \in Seq(Cell) /\ Len(t) = n
    BY ONLY <1>1, <1>4, <1>5, <1>6, ConcatAt
  <2>2. \A i \in 1 .. n :
          t[i] = IF i <= Len(a \o e) THEN (a \o e)[i] ELSE M!Blank(k)[i - Len(a \o e)]
    <3>1. Len(a \o e) + Len(M!Blank(k)) = n
      BY <1>4, <1>5, <1>6
    <3> QED BY ONLY <1>4, <1>6, <3>1, ConcatAt
  <2>3. \A i \in 1 .. n : i > Len(a) + Len(e) => M!Blank(k)[i - Len(a \o e)] = Nul
    <3> TAKE i \in 1 .. n
    <3> HAVE i > Len(a) + Len(e)
    <3>1. i - Len(a \o e) \in 1 .. k
      BY <1>1, <1>4, <1>5
    <3> QED BY <1>6, <3>1
  <2> QED BY <1>1, <1>4, <2>1, <2>2, <2>3
<1>8. DOMAIN s = 1 .. n /\ \A i \in 1 .. n : s[i] = t[i]
  <2> HIDE DEF t, s, f
  <2>1. DOMAIN s = 1 .. n
    BY <1>0, <1>3
  <2>2. ASSUME NEW i \in 1 .. n
        PROVE  s[i] = t[i]
    <3>1. s[i] = IF i \in Len(a) + 1 .. Len(a) + Len(e) THEN e[i - Len(a)] ELSE f[i]
      BY <1>0, <1>3
    <3>2. CASE i <= Len(a)
      BY <3>1, <3>2, <1>1, <1>3, <1>4, <1>7
    <3>3. CASE i > Len(a) /\ i <= Len(a) + Len(e)
      BY <3>1, <3>3, <1>1, <1>3, <1>4, <1>7
    <3>4. CASE i > Len(a) + Len(e)
      BY <3>1, <3>4, <1>1, <1>3, <1>7
    <3> QED BY <3>2, <3>3, <3>4, <1>1
  <2> QED BY <2>1, <2>2
<1>9. s = t
  <2>1. s = [i \in DOMAIN s |-> s[i]]
    BY <1>0
  <2>2. t = [i \in DOMAIN t |-> t[i]]
    BY <1>7
  <2> HIDE DEF s, t
  <2> QED BY <1>7, <1>8, <2>1, <2>2
<1> QED BY <1>9

-----------------------------------------------------------------------------
LEMMA InitStream == M!Init => StreamInv
<1> SUFFICES ASSUME M!Init PROVE StreamInv
  OBVIOUS
<1>1. StreamTypes
  <2>1. <<>> \in Seq(Cell)
    OBVIOUS
  <2> QED BY <2>1 DEF M!Init, StreamTypes
<1>2. Within /\ Unopened /\ Exclusive /\ M!FileWhole
  BY DEF M!Init, Within, Unopened, Exclusive, M!FileWhole
<1> QED BY <1>1, <1>2 DEF StreamInv

LEMMA OpenStream ==
  ASSUME StreamInv, NEW w \in Streams, NEW n \in Nat, M!Open(w, n)
  PROVE  StreamInv'
<1> DEFINE c == M!AtLeastOne(n)
<1>1. c \in Nat
  BY DEF M!AtLeastOne
<1>2. M!Blank(c) \in Seq(Cell) /\ Len(M!Blank(c)) = c
  BY <1>1, BlankType
<1> USE DEF StreamInv, M!Open, M!Anew
<1>3. StreamTypes'
  BY <1>1, <1>2 DEF StreamTypes
<1>4. Within'
  BY <1>1, <1>3 DEF StreamTypes, Within, Unopened
<1>5. Unopened'
  BY DEF StreamTypes, Unopened
<1>6. Exclusive'
  BY DEF StreamTypes, Exclusive
<1>7. M!FileWhole'
  <2>1. owner' = {w} /\ accepted' = accepted /\ accepted[w] = <<>> /\ killed' = FALSE
    BY DEF StreamTypes, Unopened
  <2>2. size'[w] = c /\ file' = M!Blank(c)
    BY DEF StreamTypes
  <2>3. <<>> \o M!Blank(c - Len(<<>>)) = M!Blank(c)
    BY <1>1, <1>2
  <2> QED BY <2>1, <2>2, <2>3 DEF M!FileWhole
<1> QED BY <1>3, <1>4, <1>5, <1>6, <1>7

LEMMA OpenFailsStream ==
  ASSUME StreamInv, NEW w \in Streams, NEW n \in Nat, M!OpenFails(w, n)
  PROVE  StreamInv'
<1>1. M!Blank(M!AtLeastOne(n)) \in Seq(Cell) /\ <<>> \in Seq(Cell)
  BY BlankType DEF M!AtLeastOne
<1> USE DEF StreamInv, M!OpenFails, M!Anew
<1>2. StreamTypes'
  <2>1. file' \in Seq(Cell)
    BY <1>1
  <2> QED BY <2>1 DEF StreamTypes
<1>3. Within' /\ Unopened' /\ Exclusive'
  BY DEF StreamTypes, Within, Unopened, Exclusive
<1>4. M!FileWhole'
  BY DEF M!FileWhole
<1> QED BY <1>2, <1>3, <1>4

\* A write: the store is an append, as the position is where the blanks begin.
LEMMA WriteStream ==
  ASSUME StreamInv, NEW w \in Streams, NEW c \in Contents, NEW n \in Nat,
         M!Write(w, c, n)
  PROVE  StreamInv'
<1> DEFINE e == M!Encoded(c, n)
<1>1. e \in Seq(Cell) /\ Len(e) = n
  BY EncodedType
<1>2. /\ accepted[w] \in Seq(Cell) /\ position[w] = Len(accepted[w])
      /\ position[w] \in Nat /\ size[w] \in Nat /\ position[w] + n <= size[w]
  BY DEF StreamInv, StreamTypes, Within, M!Write
<1>3. /\ accepted[w] \o e \in Seq(Cell)
      /\ Len(accepted[w] \o e) = position[w] + n
  <2> HIDE DEF e
  <2> QED BY ONLY <1>1, <1>2, ConcatAt
<1> HIDE DEF e
<1>4. /\ position' = [position EXCEPT ![w] = @ + n]
      /\ accepted' = [accepted EXCEPT ![w] = @ \o e]
      /\ file' = M!Stored(position[w], e)
      /\ UNCHANGED <<status, size, owner, shared>>
  BY DEF M!Write, e
<1>5. StreamTypes'
  <2>1. file' \in Seq(Cell)
    <3>1. DOMAIN file' = DOMAIN file /\ \A i \in DOMAIN file : file'[i] \in Cell
      BY <1>1, <1>2, <1>4 DEF M!Stored, StreamInv, StreamTypes
    <3>2. file' = [i \in 1 .. Len(file) |-> file'[i]]
      BY <1>4, <3>1 DEF M!Stored, StreamInv, StreamTypes
    <3>3. Len(file) \in Nat /\ DOMAIN file = 1 .. Len(file)
      BY DEF StreamInv, StreamTypes
    <3> QED BY <3>1, <3>2, <3>3
  <2>2. killed' \in BOOLEAN
    BY DEF M!Write
  <2> QED BY <1>2, <1>3, <1>4, <2>1, <2>2 DEF StreamInv, StreamTypes
<1>6. Within'
  BY <1>2, <1>3, <1>4 DEF StreamInv, StreamTypes, Within
<1>7. Unopened' /\ Exclusive'
  BY <1>4 DEF StreamInv, StreamTypes, Unopened, Exclusive, M!Write
<1>8. M!FileWhole'
  <2> SUFFICES ASSUME ~shared'
               PROVE  /\ ~killed'
                      /\ \A v \in owner : file' = accepted'[v] \o M!Blank(size[v] - Len(accepted'[v]))
    BY <1>4 DEF M!FileWhole
  <2>1. w \in owner /\ ~shared /\ \A v \in owner : v = w
    BY <1>4 DEF StreamInv, Exclusive, M!Write
  <2>2. file = accepted[w] \o M!Blank(size[w] - Len(accepted[w]))
    BY <2>1 DEF StreamInv, M!FileWhole
  <2>3. file' = (accepted[w] \o e) \o M!Blank(size[w] - Len(accepted[w] \o e))
    <3>1. Len(accepted[w]) + Len(e) <= size[w]
      BY <1>1, <1>2
    <3>2. M!Stored(Len(accepted[w]), e)
            = (accepted[w] \o e) \o M!Blank(size[w] - Len(accepted[w] \o e))
      BY ONLY <1>1, <1>2, <2>2, <3>1, StoreAppends
    <3> QED BY <1>2, <1>4, <3>2
  <2>4. accepted'[w] = accepted[w] \o e
    BY <1>4 DEF StreamInv, StreamTypes
  <2>5. Len(file) = size[w]
    <3> DEFINE b == size[w] - Len(accepted[w])
    <3>1. b \in Nat /\ size[w] = Len(accepted[w]) + b
      BY <1>2
    <3>2. M!Blank(b) \in Seq(Cell) /\ Len(M!Blank(b)) = b
      BY <3>1, BlankType
    <3>3. Len(file) = Len(accepted[w]) + Len(M!Blank(b))
      BY <1>2, <2>2, <3>2, ConcatAt
    <3> HIDE DEF b
    <3> QED BY <3>1, <3>2, <3>3
  <2>6. ~killed'
    <3>1. ~(position[w] + n > Len(file))
      BY <1>2, <2>5
    <3> QED BY <3>1, Zenon DEF M!Write
  <2> QED BY <2>1, <2>3, <2>4, <2>6
<1> QED BY <1>5, <1>6, <1>7, <1>8 DEF StreamInv

LEMMA CloseStream ==
  ASSUME StreamInv, NEW w \in Streams, M!Close(w)
  PROVE  StreamInv'
BY DEF StreamInv, M!Close, StreamTypes, Within, Unopened, Exclusive, M!FileWhole

LEMMA StutterStream ==
  ASSUME StreamInv, UNCHANGED M!vars
  PROVE  StreamInv'
BY DEF StreamInv, M!vars, StreamTypes, Within, Unopened, Exclusive, M!FileWhole

\* Every step keeps the invariant, one lemma for each kind of step.
LEMMA NextStream == StreamInv /\ [M!Next]_(M!vars) => StreamInv'
<1> SUFFICES ASSUME StreamInv, [M!Next]_(M!vars) PROVE StreamInv'
  OBVIOUS
<1>1. CASE UNCHANGED M!vars
  BY <1>1, StutterStream
<1>2. CASE M!Next
  <2> PICK w \in Streams :
        \/ \E n \in Nat : M!Open(w, n) \/ M!OpenFails(w, n)
        \/ \E c \in Contents, n \in Nat \ {0} : M!Write(w, c, n) \/ M!Refuse(w, n)
        \/ M!Close(w)
    BY <1>2 DEF M!Next
  <2>1. CASE \E n \in Nat : M!Open(w, n) \/ M!OpenFails(w, n)
    BY <2>1, OpenStream, OpenFailsStream
  <2>2. CASE \E c \in Contents, n \in Nat \ {0} : M!Write(w, c, n) \/ M!Refuse(w, n)
    <3> PICK c \in Contents, n \in Nat \ {0} : M!Write(w, c, n) \/ M!Refuse(w, n)
      BY <2>2
    <3>1. CASE M!Write(w, c, n)
      BY <3>1, WriteStream
    <3>2. CASE M!Refuse(w, n)
      BY <3>2, StutterStream DEF M!Refuse
    <3> QED BY <3>1, <3>2
  <2>3. CASE M!Close(w)
    BY <2>3, CloseStream
  <2> QED BY <2>1, <2>2, <2>3
<1> QED BY <1>1, <1>2

\* What every stream keeps: the file of an unshared stream is what it took, with
\* blanks after it (MmapJsonStreamWriter).
THEOREM StreamInvariant == M!Spec => []StreamInv
BY InitStream, NextStream, PTL DEF M!Spec

\* Positions are within the mapping (MmapJsonStreamWriter::write_bytes), for
\* every number of streams and whatever is written.
THEOREM StreamTypeOK == M!Spec => []M!TypeOK
<1>1. StreamInv => M!TypeOK
  BY DEF StreamInv, StreamTypes, Within, M!TypeOK
<1> QED BY <1>1, StreamInvariant, PTL

\* A file holds exactly the chunks its stream has taken, and no store goes
\* astray, unless the file was created anew under an open stream
\* (MmapJsonStreamWriter::create, write_bytes).
THEOREM FileHoldsStream == M!Spec => []M!FileWhole
<1>1. StreamInv => M!FileWhole
  BY DEF StreamInv
<1> QED BY <1>1, StreamInvariant, PTL

-----------------------------------------------------------------------------
(* PprofExport.                                                             *)

\* What an export interns besides the words and lines of frames.
AllWords == Words \cup {"", "<unknown>", "space", "bytes", "allocations", "count"}

AllLines == Lines \cup {0}

AnyFrame == [filename : AllWords, function : AllWords, lineno : AllLines]

Function == [filename : Nat, function : Nat, lineno : AllLines]

Location == [function_id : Nat, lineno : AllLines]

\* The map of a table says where each entry is; ids count from `base`.
Good(t, K, base) ==
  /\ t.entries \in Seq(K)
  /\ DOMAIN t.ids = {t.entries[i] : i \in 1 .. Len(t.entries)}
  /\ \A i \in 1 .. Len(t.entries) : t.ids[t.entries[i]] = i - 1 + base

\* The entries of t are the first of those of u.
Prefix(t, u) ==
  /\ Len(t.entries) <= Len(u.entries)
  /\ \A i \in 1 .. Len(t.entries) : u.entries[i] = t.entries[i]

\* The key is in u, and is all that u has and t has not.
Added(t, u, key) ==
  /\ Prefix(t, u)
  /\ \E i \in 1 .. Len(u.entries) : u.entries[i] = key
  /\ \A i \in 1 .. Len(u.entries) : i > Len(t.entries) => u.entries[i] = key

\* The map leads from the word to its entry.
Has(t, word) ==
  /\ t.ids[word] \in 0 .. Len(t.entries) - 1
  /\ t.entries[t.ids[word] + 1] = word

\* References between the tables lead somewhere, and a location's line is that
\* of its function.
Linked(s, f, l) ==
  /\ \A i \in 1 .. Len(f.entries) :
       f.entries[i].filename \in 0 .. Len(s.entries) - 1
         /\ f.entries[i].function \in 0 .. Len(s.entries) - 1
  /\ \A i \in 1 .. Len(l.entries) :
       /\ l.entries[i].function_id \in 1 .. Len(f.entries)
       /\ f.entries[l.entries[i].function_id].lineno = l.entries[i].lineno

Tables(s, f, l) ==
  /\ Good(s, AllWords, 0)
  /\ Good(f, Function, 1)
  /\ Good(l, Location, 1)
  /\ Linked(s, f, l)

\* FrameAt as a function of the tables.
FrameIn(s, f, l, i) ==
  LET location == l.entries[i]
      function == f.entries[location.function_id]
  IN [filename |-> s.entries[function.filename + 1],
      function |-> s.entries[function.function + 1],
      lineno |-> location.lineno]

-----------------------------------------------------------------------------
(* One table                                                                *)

\* What appending does, for sequences that are expressions.
LEMMA AppendFacts ==
  ASSUME NEW K, NEW q \in Seq(K), NEW x \in K
  PROVE  /\ Append(q, x) \in Seq(K) /\ Len(Append(q, x)) = Len(q) + 1
         /\ Len(q) \in Nat
         /\ \A i \in 1 .. Len(q) : Append(q, x)[i] = q[i] /\ q[i] \in K
         /\ Append(q, x)[Len(q) + 1] = x
OBVIOUS

\* Interning keeps a table good and moves nothing; the key is in the table then,
\* and what is added, if anything, is the key.
LEMMA InternedGood ==
  ASSUME NEW K, NEW base \in {0, 1}, NEW t, Good(t, K, base), NEW key \in K,
         NEW u, u = P!Interned(t, key, Len(t.entries) + base)
  PROVE  Good(u, K, base) /\ Added(t, u, key)
<1>1. t.entries \in Seq(K) /\ Len(t.entries) \in Nat
  BY DEF Good
<1>2. CASE key \in DOMAIN t.ids
  <2>1. u = t
    BY <1>2 DEF P!Interned
  <2>2. PICK i \in 1 .. Len(t.entries) : key = t.entries[i]
    BY <1>2 DEF Good
  <2> QED BY <1>1, <2>1, <2>2 DEF Added, Prefix
<1>3. CASE key \notin DOMAIN t.ids
  <2> DEFINE n == Len(t.entries)
             ids == [k \in DOMAIN t.ids \cup {key} |->
                       IF k = key THEN n + base ELSE t.ids[k]]
  <2>1. u = [entries |-> Append(t.entries, key), ids |-> ids]
    BY <1>3 DEF P!Interned
  <2>2. u.entries = Append(t.entries, key) /\ u.ids = ids
    BY <2>1
  <2>3. /\ u.entries \in Seq(K) /\ Len(u.entries) = n + 1
        /\ \A i \in 1 .. n : u.entries[i] = t.entries[i]
        /\ u.entries[n + 1] = key
    BY ONLY <1>1, <2>2, key \in K, AppendFacts
  <2>4. \A i \in 1 .. n : t.entries[i] \in DOMAIN t.ids /\ t.entries[i] # key
    BY <1>3 DEF Good
  <2>5. /\ DOMAIN u.ids = DOMAIN t.ids \cup {key}
        /\ u.ids[key] = n + base
        /\ \A k \in DOMAIN t.ids : k # key => u.ids[k] = t.ids[k]
    BY <2>2
  <2> HIDE DEF ids
  <2>6. DOMAIN u.ids = {u.entries[i] : i \in 1 .. Len(u.entries)}
    <3>1. DOMAIN t.ids = {t.entries[i] : i \in 1 .. n}
      BY DEF Good
    <3>2. \A i \in 1 .. n + 1 : i \in 1 .. n \/ i = n + 1
      BY <1>1
    <3>3. \A i \in 1 .. n : i \in 1 .. n + 1
      BY <1>1
    <3>4. n + 1 \in 1 .. n + 1
      BY <1>1
    <3> HIDE DEF n
    <3> QED BY <2>3, <2>5, <3>1, <3>2, <3>3, <3>4
  <2>7. \A i \in 1 .. Len(u.entries) : u.ids[u.entries[i]] = i - 1 + base
    <3> SUFFICES ASSUME NEW i \in 1 .. n + 1
                 PROVE  u.ids[u.entries[i]] = i - 1 + base
      BY <2>3
    <3>1. CASE i \in 1 .. n
      <4>1. u.ids[t.entries[i]] = t.ids[t.entries[i]]
        BY <2>4, <2>5, <3>1
      <4>2. t.ids[t.entries[i]] = i - 1 + base
        BY <3>1 DEF Good
      <4> QED BY <2>3, <3>1, <4>1, <4>2
    <3>2. CASE i = n + 1
      BY <1>1, <2>3, <2>5, <3>2
    <3> QED BY <1>1, <3>1, <3>2
  <2>8. Good(u, K, base)
    BY <2>3, <2>6, <2>7 DEF Good
  <2>9. Prefix(t, u)
    BY <1>1, <2>3 DEF Prefix
  <2>10. n + 1 \in 1 .. n + 1
    BY <1>1
  <2>11. \A i \in 1 .. n + 1 : i > n => i = n + 1
    BY <1>1
  <2> QED BY <1>1, <2>3, <2>8, <2>9, <2>10, <2>11 DEF Added
<1> QED BY <1>2, <1>3

\* The same for strings, whose indices start at 0 ...
LEMMA StringInterned ==
  ASSUME NEW t, Good(t, AllWords, 0), NEW word \in AllWords,
         NEW u, u = P!Intern(t, word)
  PROVE  /\ Good(u, AllWords, 0) /\ Prefix(t, u)
         /\ Len(t.entries) \in Nat /\ Len(u.entries) \in Nat
         /\ Has(u, word)
<1>1. Len(t.entries) \in Nat
  BY DEF Good
<1>2. Len(t.entries) + 0 = Len(t.entries)
  BY <1>1
<1>3. u = P!Interned(t, word, Len(t.entries) + 0)
  BY ONLY <1>2, u = P!Intern(t, word), Zenon DEF P!Intern
<1>4. Good(u, AllWords, 0) /\ Added(t, u, word)
  <2>1. 0 \in {0, 1}
    OBVIOUS
  <2> QED BY ONLY <1>3, <2>1, Good(t, AllWords, 0), word \in AllWords, InternedGood, Zenon
<1>5. Len(u.entries) \in Nat
  BY <1>4 DEF Good
<1> PICK i \in 1 .. Len(u.entries) : u.entries[i] = word
  BY <1>4 DEF Added
<1>6. u.ids[word] = i - 1 + 0
  BY <1>4 DEF Good
<1> QED BY <1>1, <1>4, <1>5, <1>6 DEF Added, Has

\* ... and for functions and locations, whose ids start at 1.
LEMMA IdAssigned ==
  ASSUME NEW K, NEW t, Good(t, K, 1), NEW key \in K,
         NEW u, u = P!WithId(t, key)
  PROVE  /\ Good(u, K, 1) /\ Added(t, u, key)
         /\ Len(t.entries) \in Nat /\ Len(u.entries) \in Nat
         /\ u.ids[key] \in 1 .. Len(u.entries)
         /\ u.entries[u.ids[key]] = key
<1>1. u = P!Interned(t, key, Len(t.entries) + 1)
  BY Zenon DEF P!WithId
<1>2. Good(u, K, 1) /\ Added(t, u, key)
  <2>1. 1 \in {0, 1}
    OBVIOUS
  <2> QED BY ONLY <1>1, <2>1, Good(t, K, 1), key \in K, InternedGood, Zenon
<1>3. Len(t.entries) \in Nat /\ Len(u.entries) \in Nat
  BY <1>2 DEF Good
<1> PICK i \in 1 .. Len(u.entries) : u.entries[i] = key
  BY <1>2 DEF Added
<1>4. u.ids[key] = i - 1 + 1
  BY <1>2 DEF Good
<1> QED BY <1>2, <1>3, <1>4

\* Interning twice also moves nothing.
LEMMA PrefixTransitive ==
  ASSUME NEW t, NEW u, NEW v, Prefix(t, u), Prefix(u, v),
         Len(t.entries) \in Nat, Len(u.entries) \in Nat
  PROVE  Prefix(t, v)
BY DEF Prefix

\* A good table has no entry twice.
LEMMA GoodDistinct ==
  ASSUME NEW K, NEW base \in {0, 1}, NEW t, Good(t, K, base),
         NEW i \in 1 .. Len(t.entries), NEW j \in 1 .. Len(t.entries),
         t.entries[i] = t.entries[j]
  PROVE  i = j
<1>1. t.ids[t.entries[i]] = i - 1 + base /\ t.ids[t.entries[j]] = j - 1 + base
  BY DEF Good
<1> QED BY <1>1

-----------------------------------------------------------------------------
(* The three tables together                                                *)

\* What a location leads to stays the same while the tables grow.
LEMMA FrameKept ==
  ASSUME NEW s, NEW f, NEW l, Tables(s, f, l),
         NEW s2, NEW f2, NEW l2, Prefix(s, s2), Prefix(f, f2), Prefix(l, l2),
         NEW i \in 1 .. Len(l.entries)
  PROVE  FrameIn(s2, f2, l2, i) = FrameIn(s, f, l, i)
<1>1. l2.entries[i] = l.entries[i]
  BY DEF Prefix
<1>2. PICK k \in 1 .. Len(f.entries) : k = l.entries[i].function_id
  BY DEF Tables, Linked
<1>3. f2.entries[k] = f.entries[k]
  BY <1>2 DEF Prefix
<1>4. /\ f.entries[k].filename \in 0 .. Len(s.entries) - 1
      /\ f.entries[k].function \in 0 .. Len(s.entries) - 1
  BY <1>2 DEF Tables, Linked
<1>5. Len(s.entries) \in Nat
  BY DEF Tables, Good
<1>6. PICK m \in 1 .. Len(s.entries) : m = f.entries[k].filename + 1
  BY ONLY <1>4, <1>5
<1>7. PICK n \in 1 .. Len(s.entries) : n = f.entries[k].function + 1
  BY ONLY <1>4, <1>5
<1>8. s2.entries[m] = s.entries[m] /\ s2.entries[n] = s.entries[n]
  BY ONLY <1>6, <1>7, Prefix(s, s2) DEF Prefix
<1> QED BY ONLY <1>1, <1>2, <1>3, <1>6, <1>7, <1>8, Zenon DEF FrameIn

\* Two locations never lead to one frame: equal strings have equal indices,
\* so the functions are the same, and so are the lines.
LEMMA FramesDistinct ==
  ASSUME NEW s, NEW f, NEW l, Tables(s, f, l),
         NEW i \in 1 .. Len(l.entries), NEW j \in 1 .. Len(l.entries),
         FrameIn(s, f, l, i) = FrameIn(s, f, l, j)
  PROVE  i = j
<1>1. /\ Good(s, AllWords, 0) /\ Good(f, Function, 1) /\ Good(l, Location, 1)
      /\ Linked(s, f, l)
  BY DEF Tables
<1>2. PICK a \in Location : a = l.entries[i]
  BY <1>1 DEF Good
<1>3. PICK b \in Location : b = l.entries[j]
  BY <1>1 DEF Good
<1>4. PICK p \in 1 .. Len(f.entries) : p = a.function_id
  BY <1>1, <1>2 DEF Linked
<1>5. PICK q \in 1 .. Len(f.entries) : q = b.function_id
  BY <1>1, <1>3 DEF Linked
<1>6. PICK fa \in Function : fa = f.entries[p]
  BY <1>1 DEF Good
<1>7. PICK fb \in Function : fb = f.entries[q]
  BY <1>1 DEF Good
<1>8. fa.lineno = a.lineno /\ fb.lineno = b.lineno
  BY ONLY <1>1, <1>2, <1>3, <1>4, <1>5, <1>6, <1>7,
          i \in 1 .. Len(l.entries), j \in 1 .. Len(l.entries) DEF Linked
<1>9. Len(s.entries) \in Nat
  BY <1>1 DEF Good
<1>10. /\ fa.filename + 1 \in 1 .. Len(s.entries) /\ fb.filename + 1 \in 1 .. Len(s.entries)
       /\ fa.function + 1 \in 1 .. Len(s.entries) /\ fb.function + 1 \in 1 .. Len(s.entries)
  <2>1. /\ fa.filename \in 0 .. Len(s.entries) - 1 /\ fb.filename \in 0 .. Len(s.entries) - 1
        /\ fa.function \in 0 .. Len(s.entries) - 1 /\ fb.function \in 0 .. Len(s.entries) - 1
    BY ONLY <1>1, <1>6, <1>7, p \in 1 .. Len(f.entries), q \in 1 .. Len(f.entries)
       DEF Linked
  <2>2. \A x \in 0 .. Len(s.entries) - 1 : x + 1 \in 1 .. Len(s.entries)
    BY ONLY <1>9
  <2> QED BY ONLY <2>1, <2>2, Zenon
<1>11. /\ s.entries[fa.filename + 1] = s.entries[fb.filename + 1]
       /\ s.entries[fa.function + 1] = s.entries[fb.function + 1]
       /\ a.lineno = b.lineno
  <2>1. FrameIn(s, f, l, i) = [filename |-> s.entries[fa.filename + 1],
          function |-> s.entries[fa.function + 1], lineno |-> a.lineno]
    BY ONLY <1>2, <1>4, <1>6, Zenon DEF FrameIn
  <2>2. FrameIn(s, f, l, j) = [filename |-> s.entries[fb.filename + 1],
          function |-> s.entries[fb.function + 1], lineno |-> b.lineno]
    BY ONLY <1>3, <1>5, <1>7, Zenon DEF FrameIn
  <2>3. /\ FrameIn(s, f, l, i).filename = s.entries[fa.filename + 1]
        /\ FrameIn(s, f, l, i).function = s.entries[fa.function + 1]
        /\ FrameIn(s, f, l, i).lineno = a.lineno
    BY ONLY <2>1
  <2>4. /\ FrameIn(s, f, l, j).filename = s.entries[fb.filename + 1]
        /\ FrameIn(s, f, l, j).function = s.entries[fb.function + 1]
        /\ FrameIn(s, f, l, j).lineno = b.lineno
    BY ONLY <2>2
  <2> QED BY ONLY <2>3, <2>4, FrameIn(s, f, l, i) = FrameIn(s, f, l, j), Zenon
<1>12. fa.filename + 1 = fb.filename + 1 /\ fa.function + 1 = fb.function + 1
  <2>1. 0 \in {0, 1}
    OBVIOUS
  <2> QED BY ONLY <1>1, <1>10, <1>11, <2>1, GoodDistinct, Zenon
<1>13. fa = fb
  BY ONLY <1>8, <1>11, <1>12, fa \in Function, fb \in Function DEF Function
<1>14. p = q
  <2>1. 1 \in {0, 1}
    OBVIOUS
  <2> QED BY ONLY <1>1, <1>6, <1>7, <1>13, <2>1, p \in 1 .. Len(f.entries),
                  q \in 1 .. Len(f.entries), GoodDistinct, Zenon
<1>15. a = b
  <2>1. a = [function_id |-> a.function_id, lineno |-> a.lineno]
    BY ONLY a \in Location DEF Location
  <2>2. b = [function_id |-> b.function_id, lineno |-> b.lineno]
    BY ONLY b \in Location DEF Location
  <2> QED BY ONLY <1>4, <1>5, <1>11, <1>14, <2>1, <2>2, Zenon
<1> QED
  <2>1. 1 \in {0, 1}
    OBVIOUS
  <2> QED BY ONLY <1>1, <1>2, <1>3, <1>15, <2>1, i \in 1 .. Len(l.entries),
                  j \in 1 .. Len(l.entries), GoodDistinct, Zenon

\* What intern_location_for_frame makes of the tables, and the id it returns.
Places(s, f, l, frame, s2, f2, l2, id) ==
  \E s1, fk, lk :
    /\ s1 = P!Intern(s, frame.filename) /\ s2 = P!Intern(s1, frame.function)
    /\ fk = [filename |-> s2.ids[frame.filename],
             function |-> s2.ids[frame.function], lineno |-> frame.lineno]
    /\ f2 = P!WithId(f, fk)
    /\ lk = [function_id |-> f2.ids[fk], lineno |-> frame.lineno]
    /\ l2 = P!WithId(l, lk)
    /\ id = l2.ids[lk]

\* intern_location_for_frame keeps the tables good and linked, moves nothing,
\* and returns a location that leads to the frame.
LEMMA Located ==
  ASSUME NEW s, NEW f, NEW l, Tables(s, f, l), NEW frame \in AnyFrame,
         NEW s2, NEW f2, NEW l2, NEW id, Places(s, f, l, frame, s2, f2, l2, id)
  PROVE  /\ Tables(s2, f2, l2)
         /\ Prefix(s, s2) /\ Prefix(f, f2) /\ Prefix(l, l2)
         /\ id \in 1 .. Len(l2.entries)
         /\ FrameIn(s2, f2, l2, id) = frame
<1> PICK s1, fk, lk :
      /\ s1 = P!Intern(s, frame.filename) /\ s2 = P!Intern(s1, frame.function)
      /\ fk = [filename |-> s2.ids[frame.filename],
               function |-> s2.ids[frame.function], lineno |-> frame.lineno]
      /\ f2 = P!WithId(f, fk)
      /\ lk = [function_id |-> f2.ids[fk], lineno |-> frame.lineno]
      /\ l2 = P!WithId(l, lk)
      /\ id = l2.ids[lk]
  BY Zenon DEF Places
<1>1. frame.filename \in AllWords /\ frame.function \in AllWords /\ frame.lineno \in AllLines
  BY DEF AnyFrame
<1>2. /\ Good(s, AllWords, 0) /\ Good(f, Function, 1) /\ Good(l, Location, 1)
      /\ Linked(s, f, l)
  BY DEF Tables
<1>3. /\ Good(s1, AllWords, 0) /\ Prefix(s, s1)
      /\ Len(s.entries) \in Nat /\ Len(s1.entries) \in Nat
      /\ s1.ids[frame.filename] \in 0 .. Len(s1.entries) - 1
      /\ s1.entries[s1.ids[frame.filename] + 1] = frame.filename
  BY ONLY <1>1, <1>2, s1 = P!Intern(s, frame.filename), StringInterned, Zenon DEF Has
<1>4. /\ Good(s2, AllWords, 0) /\ Prefix(s1, s2) /\ Len(s2.entries) \in Nat
      /\ s2.ids[frame.function] \in 0 .. Len(s2.entries) - 1
      /\ s2.entries[s2.ids[frame.function] + 1] = frame.function
  BY ONLY <1>1, <1>3, s2 = P!Intern(s1, frame.function), StringInterned, Zenon DEF Has
<1>5. Prefix(s, s2)
  BY ONLY <1>3, <1>4, PrefixTransitive, Zenon
\* The second word does not move the first.
<1>6. /\ s2.ids[frame.filename] \in 0 .. Len(s2.entries) - 1
      /\ s2.entries[s2.ids[frame.filename] + 1] = frame.filename
  <2>1. PICK i \in 1 .. Len(s1.entries) : s1.entries[i] = frame.filename
    <3>1. s1.ids[frame.filename] + 1 \in 1 .. Len(s1.entries)
      BY ONLY <1>3
    <3> QED BY ONLY <1>3, <3>1, Zenon
  <2>2. i \in 1 .. Len(s2.entries) /\ s2.entries[i] = frame.filename
    BY ONLY <1>3, <1>4, <2>1, i \in 1 .. Len(s1.entries) DEF Prefix
  <2>3. s2.ids[s2.entries[i]] = i - 1 + 0
    BY ONLY <1>4, <2>2 DEF Good
  <2> QED BY ONLY <1>4, <2>2, <2>3
<1>7. /\ fk.filename = s2.ids[frame.filename] /\ fk.function = s2.ids[frame.function]
      /\ fk.lineno = frame.lineno
      /\ fk \in Function
  BY ONLY <1>1, <1>4, <1>6, fk = [filename |-> s2.ids[frame.filename],
             function |-> s2.ids[frame.function], lineno |-> frame.lineno] DEF Function
<1>8. /\ Good(f2, Function, 1) /\ Added(f, f2, fk)
      /\ Len(f.entries) \in Nat /\ Len(f2.entries) \in Nat
      /\ f2.ids[fk] \in 1 .. Len(f2.entries) /\ f2.entries[f2.ids[fk]] = fk
  BY ONLY <1>2, <1>7, f2 = P!WithId(f, fk), IdAssigned
<1>9. /\ lk.function_id = f2.ids[fk] /\ lk.lineno = frame.lineno
      /\ lk \in Location
  BY ONLY <1>1, <1>8, lk = [function_id |-> f2.ids[fk], lineno |-> frame.lineno]
     DEF Location
<1>10. /\ Good(l2, Location, 1) /\ Added(l, l2, lk)
       /\ Len(l.entries) \in Nat /\ Len(l2.entries) \in Nat
       /\ l2.ids[lk] \in 1 .. Len(l2.entries) /\ l2.entries[l2.ids[lk]] = lk
  BY ONLY <1>2, <1>9, l2 = P!WithId(l, lk), IdAssigned
<1>11. Linked(s2, f2, l2)
  <2>1. ASSUME NEW i \in 1 .. Len(f2.entries)
        PROVE  /\ f2.entries[i].filename \in 0 .. Len(s2.entries) - 1
               /\ f2.entries[i].function \in 0 .. Len(s2.entries) - 1
    <3>1. CASE i <= Len(f.entries)
      <4>1. i \in 1 .. Len(f.entries) /\ f2.entries[i] = f.entries[i]
        BY ONLY <1>8, <2>1, <3>1 DEF Added, Prefix
      <4>2. /\ f.entries[i].filename \in 0 .. Len(s.entries) - 1
            /\ f.entries[i].function \in 0 .. Len(s.entries) - 1
        BY ONLY <1>2, <4>1 DEF Linked
      <4>3. Len(s.entries) <= Len(s2.entries)
        BY ONLY <1>5 DEF Prefix
      <4>4. \A x \in 0 .. Len(s.entries) - 1 : x \in 0 .. Len(s2.entries) - 1
        BY ONLY <1>3, <1>4, <4>3
      <4> QED BY ONLY <4>1, <4>2, <4>4, Zenon
    <3>2. CASE i > Len(f.entries)
      <4>1. f2.entries[i] = fk
        BY ONLY <1>8, <2>1, <3>2 DEF Added
      <4> QED BY ONLY <1>4, <1>6, <1>7, <4>1
    <3> QED BY ONLY <1>8, <2>1, <3>1, <3>2
  <2>2. ASSUME NEW i \in 1 .. Len(l2.entries)
        PROVE  /\ l2.entries[i].function_id \in 1 .. Len(f2.entries)
               /\ f2.entries[l2.entries[i].function_id].lineno = l2.entries[i].lineno
    <3>1. CASE i <= Len(l.entries)
      <4>1. i \in 1 .. Len(l.entries) /\ l2.entries[i] = l.entries[i]
        BY ONLY <1>10, <2>2, <3>1 DEF Added, Prefix
      <4>2. /\ l.entries[i].function_id \in 1 .. Len(f.entries)
            /\ f.entries[l.entries[i].function_id].lineno = l.entries[i].lineno
        BY ONLY <1>2, <4>1 DEF Linked
      <4>3. /\ Len(f.entries) <= Len(f2.entries)
            /\ f2.entries[l.entries[i].function_id] = f.entries[l.entries[i].function_id]
        BY ONLY <1>8, <4>2 DEF Added, Prefix
      <4> QED BY ONLY <1>8, <4>1, <4>2, <4>3
    <3>2. CASE i > Len(l.entries)
      <4>1. l2.entries[i] = lk
        BY ONLY <1>10, <2>2, <3>2 DEF Added
      <4> QED BY ONLY <1>7, <1>8, <1>9, <4>1
    <3> QED BY ONLY <1>10, <2>2, <3>1, <3>2
  <2> QED BY ONLY <2>1, <2>2 DEF Linked
<1>12. FrameIn(s2, f2, l2, l2.ids[lk]) = frame
  <2>1. FrameIn(s2, f2, l2, l2.ids[lk])
          = [filename |-> s2.entries[fk.filename + 1],
             function |-> s2.entries[fk.function + 1], lineno |-> frame.lineno]
    BY ONLY <1>8, <1>9, <1>10, Zenon DEF FrameIn
  <2>2. frame = [filename |-> frame.filename, function |-> frame.function,
                 lineno |-> frame.lineno]
    BY DEF AnyFrame
  <2> QED BY ONLY <1>4, <1>6, <1>7, <2>1, <2>2, Zenon
<1> QED BY ONLY <1>4, <1>5, <1>8, <1>10, <1>11, <1>12, id = l2.ids[lk], Zenon
        DEF Tables, Added

-----------------------------------------------------------------------------
(* The invariant                                                            *)

AnySample == [location_id : Seq(Nat), value : (MinSigned .. MaxSigned) \X ((0 .. MaxUnsigned) \cup {MaxSigned})]

\* The ids lead to the first of the frames.
Begins(s, f, l, ids, frames) ==
  /\ Len(ids) <= Len(frames)
  /\ \A i \in 1 .. Len(ids) :
       ids[i] \in 1 .. Len(l.entries) /\ FrameIn(s, f, l, ids[i]) = frames[i]

\* A sample says of its record what it should.
Tells(s, f, l, sample, r) ==
  /\ Len(sample.location_id) = Len(P!FramesOf(r))
  /\ Begins(s, f, l, sample.location_id, P!FramesOf(r))
  /\ sample.value = <<r.bytes, P!Signed(r.allocations)>>

ProfileTypes ==
  /\ records \in Seq(P!Record)
  /\ samples \in Seq(AnySample) /\ Len(samples) <= Len(records)
  /\ stack \in Seq(Nat)

SamplesTell ==
  \A i \in 1 .. Len(samples) :
    Tells(strings, functions, locations, samples[i], records[i])

StackBegins ==
  Len(samples) < Len(records) =>
    Begins(strings, functions, locations, stack, P!FramesOf(P!Current))

TypesNamed ==
  types # <<>> =>
    /\ Len(samples) = Len(records)
    /\ P!Word(types[1].ty) = "space" /\ P!Word(types[1].unit) = "bytes"
    /\ P!Word(types[2].ty) = "allocations" /\ P!Word(types[2].unit) = "count"

ExportInv ==
  /\ ProfileTypes
  /\ Tables(strings, functions, locations)
  /\ SamplesTell
  /\ StackBegins
  /\ TypesNamed

\* A record's stack, as a sequence of at least one frame.
LEMMA FramesOfRecord ==
  ASSUME NEW r \in P!Record
  PROVE  /\ P!FramesOf(r) \in Seq(AnyFrame)
         /\ r.frames \in Seq(P!Frame)
         /\ r.frames # <<>> => P!FramesOf(r) = r.frames
<1>1. r.frames \in Seq(P!Frame)
  BY DEF P!Record
<1>2. \A x \in P!Frame : x \in AnyFrame
  BY DEF P!Frame, AnyFrame, AllWords, AllLines
<1>3. r.frames \in Seq(AnyFrame)
  BY <1>1, <1>2
<1>4. P!UnknownFrame \in AnyFrame
  BY DEF P!UnknownFrame, AnyFrame, AllWords, AllLines
<1>5. <<P!UnknownFrame>> \in Seq(AnyFrame)
  BY ONLY <1>4
<1> QED BY <1>1, <1>3, <1>5, Zenon DEF P!FramesOf

\* What ids lead to stays the same while the tables grow.
LEMMA BeginsKept ==
  ASSUME NEW s, NEW f, NEW l, Tables(s, f, l),
         NEW s2, NEW f2, NEW l2, Prefix(s, s2), Prefix(f, f2), Prefix(l, l2),
         Tables(s2, f2, l2),
         NEW ids \in Seq(Nat), NEW frames, Begins(s, f, l, ids, frames)
  PROVE  Begins(s2, f2, l2, ids, frames)
<1>1. Len(ids) <= Len(frames)
  BY Zenon DEF Begins
<1>2. ASSUME NEW i \in 1 .. Len(ids)
      PROVE  ids[i] \in 1 .. Len(l2.entries) /\ FrameIn(s2, f2, l2, ids[i]) = frames[i]
  <2>1. ids[i] \in 1 .. Len(l.entries) /\ FrameIn(s, f, l, ids[i]) = frames[i]
    BY Zenon DEF Begins
  <2>2. FrameIn(s2, f2, l2, ids[i]) = FrameIn(s, f, l, ids[i])
    <3> PICK m \in 1 .. Len(l.entries) : m = ids[i]
      BY ONLY <2>1, Zenon
    <3>1. FrameIn(s2, f2, l2, m) = FrameIn(s, f, l, m)
      BY ONLY Tables(s, f, l), Prefix(s, s2), Prefix(f, f2), Prefix(l, l2),
              m \in 1 .. Len(l.entries), FrameKept
    <3> QED BY <3>1, Zenon
  <2>3. Len(l.entries) \in Nat /\ Len(l2.entries) \in Nat /\ Len(l.entries) <= Len(l2.entries)
    BY DEF Tables, Good, Prefix
  <2>4. \A x \in 1 .. Len(l.entries) : x \in 1 .. Len(l2.entries)
    BY ONLY <2>3
  <2> QED BY ONLY <2>1, <2>2, <2>4, Zenon
<1> QED BY ONLY <1>1, <1>2, Zenon DEF Begins

\* The same for samples.
LEMMA TellsKept ==
  ASSUME NEW s, NEW f, NEW l, Tables(s, f, l),
         NEW s2, NEW f2, NEW l2, Prefix(s, s2), Prefix(f, f2), Prefix(l, l2),
         Tables(s2, f2, l2),
         NEW sample \in AnySample, NEW r, Tells(s, f, l, sample, r)
  PROVE  Tells(s2, f2, l2, sample, r)
<1>1. sample.location_id \in Seq(Nat)
  BY DEF AnySample
<1> QED BY <1>1, BeginsKept, Zenon DEF Tells

-----------------------------------------------------------------------------
(* The steps                                                                *)

\* The tables that an export begins with.
LEMMA TablesEmpty == Tables(P!NoStrings, P!Empty, P!Empty)
<1>1. Good(P!NoStrings, AllWords, 0)
  <2>1. /\ P!NoStrings.entries = <<"">> /\ DOMAIN P!NoStrings.ids = {""}
        /\ P!NoStrings.ids[""] = 0
    BY DEF P!NoStrings
  <2>2. "" \in AllWords
    BY DEF AllWords
  <2>3. \A w \in AllWords : <<w>> \in Seq(AllWords) /\ Len(<<w>>) = 1 /\ <<w>>[1] = w
    OBVIOUS
  <2>4. \A i : i \in 1 .. 1 <=> i = 1
    OBVIOUS
  <2>5. 1 - 1 + 0 = 0
    OBVIOUS
  <2>6. /\ P!NoStrings.entries \in Seq(AllWords)
        /\ Len(P!NoStrings.entries) = 1 /\ P!NoStrings.entries[1] = ""
    BY ONLY <2>1, <2>2, <2>3, Zenon
  <2>7. DOMAIN P!NoStrings.ids = {P!NoStrings.entries[i] : i \in 1 .. Len(P!NoStrings.entries)}
    BY ONLY <2>1, <2>4, <2>6
  <2>8. \A i \in 1 .. Len(P!NoStrings.entries) : P!NoStrings.ids[P!NoStrings.entries[i]] = i - 1 + 0
    BY ONLY <2>1, <2>4, <2>5, <2>6, Zenon
  <2> QED BY ONLY <2>6, <2>7, <2>8, Zenon DEF Good
<1>2. P!Empty.entries = <<>> /\ DOMAIN P!Empty.ids = {} /\ Len(P!Empty.entries) = 0
  BY DEF P!Empty
<1>3. Good(P!Empty, Function, 1) /\ Good(P!Empty, Location, 1)
  BY <1>2 DEF Good
<1>4. Linked(P!NoStrings, P!Empty, P!Empty)
  BY <1>2 DEF Linked
<1> QED BY <1>1, <1>3, <1>4 DEF Tables

\* The start of the export of rs.
FreshFor(rs) ==
  /\ records = rs
  /\ strings = P!NoStrings /\ functions = P!Empty /\ locations = P!Empty
  /\ samples = <<>> /\ stack = <<>> /\ types = <<>>

\* The invariant holds at the start of every export.
LEMMA Fresh == \A rs \in Seq(P!Record) : FreshFor(rs) => ExportInv
<1> SUFFICES ASSUME NEW rs \in Seq(P!Record), FreshFor(rs) PROVE ExportInv
  OBVIOUS
<1> USE DEF FreshFor
<1>1. ProfileTypes
  BY DEF ProfileTypes
<1>2. Tables(strings, functions, locations)
  BY TablesEmpty
<1>3. SamplesTell
  BY DEF SamplesTell
<1>4. StackBegins
  <2> SUFFICES ASSUME Len(samples) < Len(records)
               PROVE  Begins(strings, functions, locations, stack, P!FramesOf(P!Current))
    BY DEF StackBegins
  <2>1. P!Current \in P!Record
    BY DEF P!Current
  <2>2. P!FramesOf(P!Current) \in Seq(AnyFrame)
    BY <2>1, FramesOfRecord
  <2> QED BY <2>2 DEF Begins
<1>5. TypesNamed
  BY DEF TypesNamed
<1> QED BY <1>1, <1>2, <1>3, <1>4, <1>5 DEF ExportInv

\* Tables that grow leave the samples as they are.
LEMMA SamplesKept ==
  ASSUME ProfileTypes, Tables(strings, functions, locations), SamplesTell,
         NEW s2, NEW f2, NEW l2, Tables(s2, f2, l2),
         Prefix(strings, s2), Prefix(functions, f2), Prefix(locations, l2),
         NEW i \in 1 .. Len(samples)
  PROVE  Tells(s2, f2, l2, samples[i], records[i])
<1>1. samples[i] \in AnySample
  BY DEF ProfileTypes
<1>2. Tells(strings, functions, locations, samples[i], records[i])
  BY DEF SamplesTell
<1> QED BY <1>1, <1>2, TellsKept, Zenon

\* One more frame of the current record.
LEMMA LocatedInv ==
  ASSUME ExportInv, Len(samples) < Len(records), NEW frame \in AnyFrame, P!Locate(frame),
         Len(stack) < Len(P!FramesOf(P!Current)),
         frame = P!FramesOf(P!Current)[Len(stack) + 1]
  PROVE  ExportInv'
<1>1. /\ ProfileTypes /\ Tables(strings, functions, locations)
      /\ SamplesTell /\ StackBegins /\ TypesNamed
  BY DEF ExportInv
<1>2. PICK s2, f2, l2, id :
        /\ Places(strings, functions, locations, frame, s2, f2, l2, id)
        /\ strings' = s2 /\ functions' = f2 /\ locations' = l2
        /\ stack' = Append(stack, id)
        /\ records' = records /\ samples' = samples /\ types' = types
  <2> DEFINE s1 == P!Intern(strings, frame.filename)
             s2 == P!Intern(s1, frame.function)
             fk == [filename |-> s2.ids[frame.filename],
                    function |-> s2.ids[frame.function], lineno |-> frame.lineno]
             f2 == P!WithId(functions, fk)
             lk == [function_id |-> f2.ids[fk], lineno |-> frame.lineno]
             l2 == P!WithId(locations, lk)
             id == l2.ids[lk]
  <2>1. /\ strings' = s2 /\ functions' = f2 /\ locations' = l2
        /\ stack' = Append(stack, id)
        /\ records' = records /\ samples' = samples /\ types' = types
    BY Zenon DEF P!Locate
  <2>2. /\ s1 = P!Intern(strings, frame.filename) /\ s2 = P!Intern(s1, frame.function)
        /\ fk = [filename |-> s2.ids[frame.filename],
                 function |-> s2.ids[frame.function], lineno |-> frame.lineno]
        /\ f2 = P!WithId(functions, fk)
        /\ lk = [function_id |-> f2.ids[fk], lineno |-> frame.lineno]
        /\ l2 = P!WithId(locations, lk)
        /\ id = l2.ids[lk]
    BY Zenon
  <2> HIDE DEF s1, s2, fk, f2, lk, l2, id
  <2>3. Places(strings, functions, locations, frame, s2, f2, l2, id)
    BY ONLY <2>2, Zenon DEF Places
  <2> QED BY ONLY <2>1, <2>3, Zenon
<1>3. /\ Tables(s2, f2, l2)
      /\ Prefix(strings, s2) /\ Prefix(functions, f2) /\ Prefix(locations, l2)
      /\ id \in 1 .. Len(l2.entries)
      /\ FrameIn(s2, f2, l2, id) = frame
  BY ONLY <1>1, <1>2, frame \in AnyFrame, Located
<1>4. Len(l2.entries) \in Nat
  BY <1>3 DEF Tables, Good
<1>5. id \in Nat
  BY <1>3, <1>4
<1>6. P!Current' = P!Current
  BY <1>2, Zenon DEF P!Current
<1>7. ProfileTypes'
  <2>1. stack' = Append(stack, id) /\ stack \in Seq(Nat)
    BY <1>1, <1>2, <1>5 DEF ProfileTypes
  <2>2. stack' \in Seq(Nat)
    BY ONLY <2>1, <1>5
  <2> QED BY ONLY <1>1, <1>2, <2>2, Zenon DEF ProfileTypes
<1>8. SamplesTell'
  BY <1>1, <1>2, <1>3, SamplesKept DEF SamplesTell
<1>9. StackBegins'
  <2>1. stack \in Seq(Nat) /\ stack' = Append(stack, id)
    BY <1>1, <1>2, <1>5 DEF ProfileTypes
  <2>2. /\ Len(stack') = Len(stack) + 1 /\ Len(stack) \in Nat
        /\ \A i \in 1 .. Len(stack) : stack'[i] = stack[i]
        /\ stack'[Len(stack) + 1] = id
    BY ONLY <1>5, <2>1
  <2>3. Begins(strings, functions, locations, stack, P!FramesOf(P!Current))
    BY <1>1 DEF StackBegins
  <2>4. Begins(s2, f2, l2, stack, P!FramesOf(P!Current))
    BY ONLY <1>1, <1>3, <2>1, <2>3, BeginsKept
  <2>5. P!Current \in P!Record
    <3>1. Len(samples) + 1 \in 1 .. Len(records)
      BY <1>1 DEF ProfileTypes
    <3> QED BY <1>1, <3>1 DEF ProfileTypes, P!Current
  <2>6. Len(P!FramesOf(P!Current)) \in Nat
    BY ONLY <2>5, FramesOfRecord
  <2>7. ASSUME NEW i \in 1 .. Len(stack')
        PROVE  /\ stack'[i] \in 1 .. Len(l2.entries)
               /\ FrameIn(s2, f2, l2, stack'[i]) = P!FramesOf(P!Current)[i]
    <3>1. CASE i \in 1 .. Len(stack)
      BY ONLY <2>2, <2>4, <3>1, Zenon DEF Begins
    <3>2. CASE i = Len(stack) + 1
      BY ONLY <1>3, <1>5, <2>2, <3>2, frame = P!FramesOf(P!Current)[Len(stack) + 1], Zenon
    <3> QED BY ONLY <2>2, <2>7, <3>1, <3>2
  <2>8. Len(stack') <= Len(P!FramesOf(P!Current))
    BY ONLY <2>2, <2>6, Len(stack) < Len(P!FramesOf(P!Current))
  <2>9. Begins(s2, f2, l2, stack', P!FramesOf(P!Current))
    BY ONLY <2>7, <2>8, Zenon DEF Begins
  <2>10. P!FramesOf(P!Current)' = P!FramesOf(P!Current)
    BY <1>6, Zenon DEF P!FramesOf
  <2> QED BY ONLY <1>2, <2>9, <2>10, Zenon DEF StackBegins
<1>10. TypesNamed'
  <2>1. Len(samples) # Len(records)
    BY ONLY <1>1, Len(samples) < Len(records) DEF ProfileTypes
  <2>2. types' = <<>>
    BY ONLY <1>1, <1>2, <2>1, Zenon DEF TypesNamed
  <2> QED BY ONLY <2>2, Zenon DEF TypesNamed
<1>11. Tables(strings, functions, locations)'
  BY ONLY <1>2, <1>3, Zenon
<1> QED BY <1>7, <1>8, <1>9, <1>10, <1>11 DEF ExportInv

\* The two actions that do so.
LEMMA LocateInv ==
  ASSUME ExportInv, P!LocateFrame \/ P!LocateUnknown
  PROVE  ExportInv'
<1>1. ProfileTypes
  BY DEF ExportInv
<1>2. Len(samples) < Len(records)
  BY DEF P!LocateFrame, P!LocateUnknown
<1>3. P!Current \in P!Record
  <2>1. Len(samples) + 1 \in 1 .. Len(records)
    BY <1>1, <1>2 DEF ProfileTypes
  <2> QED BY <1>1, <2>1 DEF ProfileTypes, P!Current
<1>4. /\ P!FramesOf(P!Current) \in Seq(AnyFrame) /\ P!Current.frames \in Seq(P!Frame)
      /\ P!Current.frames # <<>> => P!FramesOf(P!Current) = P!Current.frames
  BY ONLY <1>3, FramesOfRecord
<1>5. stack \in Seq(Nat)
  BY <1>1 DEF ProfileTypes
<1>6. CASE P!LocateFrame
  <2>1. Len(stack) < Len(P!Current.frames) /\ P!Locate(P!Current.frames[Len(stack) + 1])
    BY <1>6 DEF P!LocateFrame
  <2>2. P!Current.frames # <<>>
    BY ONLY <1>4, <1>5, <2>1
  <2>3. /\ Len(stack) < Len(P!FramesOf(P!Current))
        /\ P!Locate(P!FramesOf(P!Current)[Len(stack) + 1])
    BY ONLY <1>4, <2>1, <2>2, Zenon
  <2>4. Len(stack) + 1 \in 1 .. Len(P!FramesOf(P!Current))
    BY ONLY <1>4, <1>5, <2>3
  <2>5. P!FramesOf(P!Current)[Len(stack) + 1] \in AnyFrame
    BY ONLY <1>4, <2>4
  <2> QED BY ONLY <1>2, <2>3, <2>5, ExportInv, LocatedInv, Zenon
<1>7. CASE P!LocateUnknown
  <2>1. P!Current.frames = <<>> /\ stack = <<>> /\ P!Locate(P!UnknownFrame)
    BY <1>7 DEF P!LocateUnknown
  <2>2. P!FramesOf(P!Current) = <<P!UnknownFrame>>
    BY <2>1, Zenon DEF P!FramesOf
  <2>3. Len(stack) = 0 /\ Len(<<P!UnknownFrame>>) = 1 /\ <<P!UnknownFrame>>[0 + 1] = P!UnknownFrame
    BY ONLY <2>1
  <2>4. P!UnknownFrame \in AnyFrame
    BY DEF P!UnknownFrame, AnyFrame, AllWords, AllLines
  <2>5. /\ Len(stack) < Len(P!FramesOf(P!Current))
        /\ P!UnknownFrame = P!FramesOf(P!Current)[Len(stack) + 1]
    BY ONLY <2>2, <2>3
  <2> QED BY ONLY <1>2, <2>1, <2>4, <2>5, ExportInv, LocatedInv, Zenon
<1> QED BY <1>6, <1>7

\* The stack that is complete becomes a sample.
LEMMA AddSampleInv ==
  ASSUME ExportInv, P!AddSample
  PROVE  ExportInv'
<1>1. /\ ProfileTypes /\ Tables(strings, functions, locations)
      /\ SamplesTell /\ StackBegins /\ TypesNamed
  BY DEF ExportInv
<1> DEFINE sample == [location_id |-> stack,
                      value |-> <<P!Current.bytes, P!Signed(P!Current.allocations)>>]
<1>2. /\ Len(samples) < Len(records) /\ Len(stack) = Len(P!FramesOf(P!Current))
      /\ samples' = Append(samples, sample) /\ stack' = <<>>
      /\ records' = records /\ strings' = strings /\ functions' = functions
      /\ locations' = locations /\ types' = types
  BY Zenon DEF P!AddSample
<1>3. /\ Len(samples) \in Nat /\ Len(records) \in Nat
      /\ samples \in Seq(AnySample) /\ records \in Seq(P!Record) /\ stack \in Seq(Nat)
  BY <1>1 DEF ProfileTypes
<1>4. P!Current \in P!Record /\ P!Current = records[Len(samples) + 1]
  <2>1. Len(samples) + 1 \in 1 .. Len(records)
    BY ONLY <1>2, <1>3
  <2> QED BY <1>3, <2>1 DEF P!Current
<1>5. sample \in AnySample
  <2>1. P!Current.bytes \in (MinSigned .. MaxSigned) /\ P!Current.allocations \in (0 .. MaxUnsigned)
    BY ONLY <1>4 DEF P!Record
  <2>2. P!Signed(P!Current.allocations) \in (0 .. MaxUnsigned) \cup {MaxSigned}
    BY ONLY <2>1 DEF P!Signed
  <2> QED BY ONLY <1>3, <2>1, <2>2 DEF AnySample
<1>6. /\ sample.location_id = stack
      /\ sample.value = <<P!Current.bytes, P!Signed(P!Current.allocations)>>
  BY Zenon
<1> HIDE DEF sample
<1>7. /\ samples' \in Seq(AnySample) /\ Len(samples') = Len(samples) + 1
      /\ \A i \in 1 .. Len(samples) : samples'[i] = samples[i]
      /\ samples'[Len(samples) + 1] = sample
  BY ONLY <1>2, <1>3, <1>5
<1>8. ProfileTypes'
  <2>1. Len(samples') <= Len(records')
    BY ONLY <1>2, <1>3, <1>7
  <2>2. stack' \in Seq(Nat)
    BY <1>2
  <2> QED BY ONLY <1>2, <1>3, <1>7, <2>1, <2>2, Zenon DEF ProfileTypes
<1>9. SamplesTell'
  <2>1. ASSUME NEW i \in 1 .. Len(samples')
        PROVE  Tells(strings, functions, locations, samples'[i], records[i])
    <3>1. CASE i \in 1 .. Len(samples)
      BY ONLY <1>1, <1>7, <3>1, Zenon DEF SamplesTell
    <3>2. CASE i = Len(samples) + 1
      <4>1. Begins(strings, functions, locations, stack, P!FramesOf(P!Current))
        BY <1>1, <1>2 DEF StackBegins
      <4>2. Tells(strings, functions, locations, sample, P!Current)
        BY ONLY <1>2, <1>6, <4>1, Zenon DEF Tells
      <4> QED BY ONLY <1>4, <1>7, <3>2, <4>2, Zenon
    <3> QED BY ONLY <1>3, <1>7, <2>1, <3>1, <3>2
  <2> QED BY ONLY <1>2, <2>1, Zenon DEF SamplesTell
<1>10. StackBegins'
  <2> SUFFICES ASSUME Len(samples') < Len(records')
               PROVE  Begins(strings', functions', locations', stack', P!FramesOf(P!Current'))
    BY Zenon DEF StackBegins, P!FramesOf
  <2>1. P!Current' = records[Len(samples') + 1]
    BY <1>2, Zenon DEF P!Current
  <2>2. Len(samples') + 1 \in 1 .. Len(records)
    BY ONLY <1>2, <1>3, <1>7, Len(samples') < Len(records')
  <2>3. P!Current' \in P!Record
    BY ONLY <1>3, <2>1, <2>2
  <2>4. P!FramesOf(P!Current') \in Seq(AnyFrame)
    BY ONLY <2>3, FramesOfRecord
  <2>5. Len(<<>>) = 0 /\ Len(<<>>) <= Len(P!FramesOf(P!Current'))
    BY ONLY <2>4
  <2>6. Len(stack') <= Len(P!FramesOf(P!Current')) /\ \A i : ~ (i \in 1 .. Len(stack'))
    BY ONLY <1>2, <2>5
  <2> QED BY ONLY <2>6, Zenon DEF Begins
<1>11. TypesNamed'
  <2>1. Len(samples) # Len(records)
    BY ONLY <1>2, <1>3
  <2>2. types' = <<>>
    BY ONLY <1>1, <1>2, <2>1, Zenon DEF TypesNamed
  <2> QED BY ONLY <2>2, Zenon DEF TypesNamed
<1>12. Tables(strings, functions, locations)'
  BY ONLY <1>1, <1>2, Zenon
<1> QED BY <1>8, <1>9, <1>10, <1>11, <1>12 DEF ExportInv

\* The index of a word stays that of the word.
LEMMA WordKept ==
  ASSUME NEW t, Good(t, AllWords, 0), NEW u, Good(u, AllWords, 0), Prefix(t, u),
         NEW word, Has(t, word)
  PROVE  Has(u, word)
<1>1. Len(t.entries) \in Nat /\ Len(u.entries) \in Nat
  BY DEF Good
<1>2. PICK i \in 1 .. Len(t.entries) : i = t.ids[word] + 1
  BY ONLY <1>1, Has(t, word) DEF Has
<1>3. i \in 1 .. Len(u.entries) /\ u.entries[i] = word
  BY ONLY <1>1, <1>2, Prefix(t, u), Has(t, word) DEF Prefix, Has
<1>4. u.ids[word] = i - 1 + 0
  BY ONLY <1>3, Good(u, AllWords, 0) DEF Good
<1>5. u.ids[word] + 1 = i /\ u.ids[word] \in 0 .. Len(u.entries) - 1
  BY ONLY <1>1, <1>3, <1>4
<1> QED BY ONLY <1>3, <1>5, Zenon DEF Has

\* The four words interned last are where the types say, and move nothing.
LEMMA CompleteInv ==
  ASSUME ExportInv, P!Complete
  PROVE  ExportInv'
<1>1. /\ ProfileTypes /\ Tables(strings, functions, locations)
      /\ SamplesTell /\ StackBegins /\ TypesNamed
  BY DEF ExportInv
<1>2. PICK t1, t2, t3, t4 :
        /\ t1 = P!Intern(strings, "space") /\ t2 = P!Intern(t1, "bytes")
        /\ t3 = P!Intern(t2, "allocations") /\ t4 = P!Intern(t3, "count")
        /\ strings' = t4
        /\ types' = <<[ty |-> t4.ids["space"], unit |-> t4.ids["bytes"]],
                      [ty |-> t4.ids["allocations"], unit |-> t4.ids["count"]]>>
  BY DEF P!Complete
<1>3. /\ Len(samples) = Len(records)
      /\ records' = records /\ functions' = functions /\ locations' = locations
      /\ samples' = samples /\ stack' = stack
  BY DEF P!Complete
<1>4. Good(strings, AllWords, 0)
  BY <1>1 DEF Tables
<1>5. /\ "space" \in AllWords /\ "bytes" \in AllWords
      /\ "allocations" \in AllWords /\ "count" \in AllWords
  BY DEF AllWords
<1>6. Good(t1, AllWords, 0) /\ Prefix(strings, t1) /\ Has(t1, "space")
      /\ Len(strings.entries) \in Nat /\ Len(t1.entries) \in Nat
  BY ONLY <1>2, <1>4, <1>5, StringInterned, Zenon
<1>7. Good(t2, AllWords, 0) /\ Prefix(t1, t2) /\ Has(t2, "bytes") /\ Len(t2.entries) \in Nat
  BY ONLY <1>2, <1>5, <1>6, StringInterned, Zenon
<1>8. Good(t3, AllWords, 0) /\ Prefix(t2, t3) /\ Has(t3, "allocations")
      /\ Len(t3.entries) \in Nat
  BY ONLY <1>2, <1>5, <1>7, StringInterned, Zenon
<1>9. Good(t4, AllWords, 0) /\ Prefix(t3, t4) /\ Has(t4, "count") /\ Len(t4.entries) \in Nat
  BY ONLY <1>2, <1>5, <1>8, StringInterned, Zenon
<1>10. Has(t2, "space")
  BY ONLY <1>6, <1>7, WordKept, Zenon
<1>11. Has(t3, "space") /\ Has(t3, "bytes")
  BY ONLY <1>7, <1>8, <1>10, WordKept, Zenon
<1>12. Has(t4, "space") /\ Has(t4, "bytes") /\ Has(t4, "allocations")
  BY ONLY <1>8, <1>9, <1>11, WordKept, Zenon
<1>13. Prefix(strings, t4)
  <2>1. Prefix(strings, t2)
    BY ONLY <1>6, <1>7, PrefixTransitive, Zenon
  <2>2. Prefix(strings, t3)
    BY ONLY <1>6, <1>7, <1>8, <2>1, PrefixTransitive, Zenon
  <2> QED BY ONLY <1>6, <1>8, <1>9, <2>2, PrefixTransitive, Zenon
<1>14. Tables(t4, functions, locations)
  <2>1. \A x \in 0 .. Len(strings.entries) - 1 : x \in 0 .. Len(t4.entries) - 1
    BY ONLY <1>6, <1>9, <1>13 DEF Prefix
  <2>2. Linked(strings, functions, locations)
    BY <1>1 DEF Tables
  <2>3. Linked(t4, functions, locations)
    BY ONLY <2>1, <2>2, Zenon DEF Linked
  <2> QED BY ONLY <1>1, <1>9, <2>3, Zenon DEF Tables
<1>15. ProfileTypes'
  BY ONLY <1>1, <1>3, Zenon DEF ProfileTypes
<1>16. SamplesTell'
  <2>1. Prefix(functions, functions) /\ Prefix(locations, locations)
    <3>1. Len(functions.entries) \in Nat /\ Len(locations.entries) \in Nat
      BY <1>1 DEF Tables, Good
    <3> QED BY <3>1 DEF Prefix
  <2>2. \A i \in 1 .. Len(samples) : Tells(t4, functions, locations, samples[i], records[i])
    BY ONLY <1>1, <1>13, <1>14, <2>1, SamplesKept
  <2> QED BY ONLY <1>2, <1>3, <2>2, Zenon DEF SamplesTell
<1>17. StackBegins'
  <2>1. ~ (Len(samples') < Len(records'))
    BY ONLY <1>1, <1>3 DEF ProfileTypes
  <2> QED BY ONLY <2>1, Zenon DEF StackBegins
<1>18. TypesNamed'
  <2>1. /\ types'[1].ty = t4.ids["space"] /\ types'[1].unit = t4.ids["bytes"]
        /\ types'[2].ty = t4.ids["allocations"] /\ types'[2].unit = t4.ids["count"]
    BY ONLY <1>2
  <2>2. /\ P!Word(types[1].ty)' = "space" /\ P!Word(types[1].unit)' = "bytes"
        /\ P!Word(types[2].ty)' = "allocations" /\ P!Word(types[2].unit)' = "count"
    BY ONLY <1>2, <1>9, <1>12, <2>1, Zenon DEF P!Word, Has
  <2> QED BY ONLY <1>3, <2>2, Zenon DEF TypesNamed
<1>19. Tables(strings, functions, locations)'
  BY ONLY <1>2, <1>3, <1>14, Zenon
<1> QED BY <1>15, <1>16, <1>17, <1>18, <1>19 DEF ExportInv

-----------------------------------------------------------------------------
(* The theorems                                                             *)

\* The tables stay good and linked, and all that was made of them holds.
THEOREM ExportInvariant == P!Spec => []ExportInv
<1>1. P!Init => ExportInv
  <2>1. <<>> \in Seq(P!Record)
    OBVIOUS
  <2> QED BY <2>1, Fresh DEF P!Init, FreshFor
<1>2. (\A rs \in Seq(P!Record) : FreshFor(rs) => ExportInv)'
  BY Fresh, PTL
<1>3. ExportInv /\ [P!Next]_(P!vars) => ExportInv'
  <2> SUFFICES ASSUME ExportInv, [P!Next]_(P!vars) PROVE ExportInv'
    OBVIOUS
  <2>1. CASE P!LocateFrame \/ P!LocateUnknown
    BY ONLY <2>1, ExportInv, LocateInv, Zenon
  <2>2. CASE P!AddSample
    BY ONLY <2>2, ExportInv, AddSampleInv, Zenon
  <2>3. CASE P!Complete
    BY ONLY <2>3, ExportInv, CompleteInv, Zenon
  <2>4. ASSUME NEW rs \in Seq(P!Record), P!Begin(rs) PROVE ExportInv'
    <3>1. FreshFor(rs)'
      BY <2>4, Zenon DEF P!Begin, FreshFor
    <3> QED BY ONLY <1>2, <3>1, rs \in Seq(P!Record), Zenon
  <2>5. CASE UNCHANGED P!vars
    BY <2>5 DEF P!vars, ExportInv, ProfileTypes, SamplesTell, StackBegins, TypesNamed, P!Current, P!Word
  <2> QED BY <2>1, <2>2, <2>3, <2>4, <2>5, Zenon DEF P!Next, P!Step
<1> QED BY <1>1, <1>3, PTL DEF P!Spec

\* FrameAt reads the present tables.
LEMMA FrameAtIn ==
  ASSUME NEW i
  PROVE  P!FrameAt(i) = FrameIn(strings, functions, locations, i)
BY Zenon DEF P!FrameAt, FrameIn, P!Word

\* Every sample leads to the frames of its record and has its values, and the
\* two values bear their names, whatever the snapshot (build_pprof_profile).
THEOREM ExportFaithful == P!Spec => []P!ProfileFaithful
<1>1. ExportInv => P!ProfileFaithful
  <2> SUFFICES ASSUME ExportInv PROVE P!ProfileFaithful
    OBVIOUS
  <2>1. ProfileTypes /\ SamplesTell /\ TypesNamed
    BY DEF ExportInv
  <2>2. ASSUME NEW i \in 1 .. Len(samples)
        PROVE  /\ P!FramesAt(samples[i].location_id) = P!FramesOf(records[i])
               /\ samples[i].value = <<records[i].bytes, P!Signed(records[i].allocations)>>
    <3>1. Tells(strings, functions, locations, samples[i], records[i])
      BY <2>1 DEF SamplesTell
    <3>2. i \in 1 .. Len(records)
      BY <2>1 DEF ProfileTypes
    <3>3. records[i] \in P!Record
      BY <2>1, <3>2 DEF ProfileTypes
    <3> DEFINE ids == samples[i].location_id
               frames == P!FramesOf(records[i])
    <3>4. frames \in Seq(AnyFrame)
      BY <3>3, FramesOfRecord
    <3>5. ids \in Seq(Nat)
      <4>1. samples[i] \in AnySample
        BY <2>1 DEF ProfileTypes
      <4> QED BY <4>1 DEF AnySample
    <3>6. Len(ids) = Len(frames)
      BY <3>1, Zenon DEF Tells
    <3>7. \A j \in 1 .. Len(ids) : FrameIn(strings, functions, locations, ids[j]) = frames[j]
      BY <3>1, Zenon DEF Tells, Begins
    <3> HIDE DEF ids, frames
    <3>8. P!FramesAt(ids) = frames
      <4>1. \A j \in 1 .. Len(ids) : P!FrameAt(ids[j]) = frames[j]
        BY ONLY <3>7, FrameAtIn, Zenon
      <4>2. frames = [j \in 1 .. Len(frames) |-> frames[j]]
        BY ONLY <3>4
      <4>3. DOMAIN ids = 1 .. Len(ids)
        BY ONLY <3>5
      <4>4. P!FramesAt(ids) = [j \in 1 .. Len(ids) |-> P!FrameAt(ids[j])]
        BY ONLY <4>3, Zenon DEF P!FramesAt
      <4>5. [j \in 1 .. Len(ids) |-> P!FrameAt(ids[j])] = [j \in 1 .. Len(ids) |-> frames[j]]
        BY ONLY <4>1
      <4> QED BY ONLY <3>6, <4>2, <4>4, <4>5, Zenon
    <3> QED BY <3>1, <3>8, Zenon DEF Tells, ids, frames
  <2> QED BY ONLY <2>1, <2>2, Zenon DEF P!ProfileFaithful, TypesNamed
<1> QED BY <1>1, ExportInvariant, PTL

\* A frame never has two locations, whatever the snapshot: equal strings have
\* one index, so that equal frames have one function and one location
\* (StringTable::intern, FunctionKey, LocationKey).
THEOREM ExportOneLocation == P!Spec => []P!OneLocationPerFrame
<1>1. ExportInv => P!OneLocationPerFrame
  <2> SUFFICES ASSUME ExportInv, NEW l \in 1 .. Len(locations.entries),
                      NEW m \in 1 .. Len(locations.entries), P!FrameAt(l) = P!FrameAt(m)
               PROVE  l = m
    BY DEF P!OneLocationPerFrame
  <2>1. Tables(strings, functions, locations)
    BY DEF ExportInv
  <2>2. FrameIn(strings, functions, locations, l) = FrameIn(strings, functions, locations, m)
    BY ONLY FrameAtIn, P!FrameAt(l) = P!FrameAt(m), Zenon
  <2> QED BY <2>1, <2>2, FramesDistinct, Zenon
<1> QED BY <1>1, ExportInvariant, PTL

-----------------------------------------------------------------------------
(* Numbers with a width.                                                    *)

\* How the bounds of the two kinds of counters are related.
LEMMA Widths ==
  /\ MaxSigned \in Nat /\ MinSigned \in Int /\ MaxUnsigned \in Nat
  /\ MinSigned = -MaxSigned - 1 /\ MaxUnsigned = 2 * MaxSigned + 1
BY ReportingAssumption DEF MinSigned, MaxUnsigned

\* What saturates keeps to its width.
LEMMA ClampedType == \A n \in Int : Clamped(n) \in MinSigned .. MaxSigned
BY Widths DEF Clamped

\* A counter of u64 keeps to its width and never falls.
LEMMA AtMostGrows ==
  \A m \in 0 .. MaxUnsigned, n \in Nat :
    AtMost(m + n) \in 0 .. MaxUnsigned /\ m <= AtMost(m + n)
BY Widths DEF AtMost

\* What is left when a number is divided by w, close to 0.
LEMMA Remainders ==
  ASSUME NEW x \in Int, NEW w \in Nat \ {0}
  PROVE  /\ 0 <= x /\ x < w => x % w = x
         /\ -w <= x /\ x < 0 => x % w = x + w
         /\ w <= x /\ x < 2 * w => x % w = x - w
OBVIOUS

\* The subtraction of i64 that wraps is undone by an addition that wraps.
LEMMA WrappedBack ==
  ASSUME NEW a \in MinSigned .. MaxSigned, NEW b \in MinSigned .. MaxSigned
  PROVE  Wrapped(a + Wrapped(b - a)) = b
<1> DEFINE w == MaxUnsigned + 1
<1>1. /\ w \in Nat \ {0} /\ w = 2 * MaxSigned + 2 /\ MaxSigned \in Nat
      /\ MinSigned = -MaxSigned - 1 /\ a \in Int /\ b \in Int /\ MinSigned \in Int
      /\ MinSigned <= a /\ a <= MaxSigned /\ MinSigned <= b /\ b <= MaxSigned
  BY Widths
<1> HIDE DEF w
<1>2. \A n \in Int : Wrapped(n) = ((n - MinSigned) % w) + MinSigned
  BY DEF Wrapped, w
<1>3. PICK x : x = b - a - MinSigned
  OBVIOUS
<1>4. x \in Int /\ -w <= x /\ x < 2 * w /\ b - a \in Int
  BY <1>1, <1>3
<1>5. PICK r : r = x % w
  OBVIOUS
<1>6. r = x \/ r = x + w \/ r = x - w
  <2>1. /\ 0 <= x /\ x < w => x % w = x
        /\ -w <= x /\ x < 0 => x % w = x + w
        /\ w <= x /\ x < 2 * w => x % w = x - w
    BY <1>1, <1>4, Remainders
  <2>2. (0 <= x /\ x < w) \/ (-w <= x /\ x < 0) \/ (w <= x /\ x < 2 * w)
    BY <1>1, <1>4
  <2> QED
    BY <1>5, <2>1, <2>2
<1>7. r \in Int
  BY <1>1, <1>4, <1>6
<1>8. PICK n : n = a + Wrapped(b - a)
  OBVIOUS
<1>9. n \in Int /\ n - MinSigned = a + r
  <2>1. Wrapped(b - a) = r + MinSigned
    BY <1>1, <1>2, <1>3, <1>4, <1>5, <1>7
  <2>2. n = a + (r + MinSigned)
    BY <1>8, <2>1
  <2> QED
    BY <1>1, <1>7, <2>2
<1>10. Wrapped(n) = ((a + r) % w) + MinSigned
  BY <1>2, <1>9
<1>11. PICK y : y = b - MinSigned
  OBVIOUS
<1>12. y \in Int /\ 0 <= y /\ y < w
  BY <1>1, <1>11
<1>13. a + r = y \/ a + r = y + w \/ a + r = y - w
  BY <1>1, <1>3, <1>6, <1>11
<1>14. (a + r) % w = y
  <2>1. CASE a + r = y
    BY <1>1, <1>12, <2>1, Remainders
  <2>2. CASE a + r = y + w
    <3>1. y + w \in Int /\ w <= y + w /\ y + w < 2 * w
      BY <1>1, <1>12
    <3>2. (y + w) % w = (y + w) - w
      BY <1>1, <3>1, Remainders
    <3> QED
      BY <1>1, <1>12, <2>2, <3>2
  <2>3. CASE a + r = y - w
    <3>1. y - w \in Int /\ -w <= y - w /\ y - w < 0
      BY <1>1, <1>12
    <3>2. (y - w) % w = (y - w) + w
      BY <1>1, <3>1, Remainders
    <3> QED
      BY <1>1, <1>12, <2>3, <3>2
  <2> QED
    BY <1>13, <2>1, <2>2, <2>3
<1> QED
  BY <1>1, <1>8, <1>11, <1>14, <1>10

-----------------------------------------------------------------------------
(* Snapshots, and what has happened since they were taken.                  *)

Entry == [stack_id : Stacks, stats : Counters]

SnapshotType == [records : Seq(Entry), dropped_events : 0 .. MaxUnsigned]

\* A snapshot names a stack once.
NamesOnce(x) ==
  \A i, j \in DOMAIN x.records :
    x.records[i].stack_id = x.records[j].stack_id => i = j

\* No counter falls.
Grown(c, d) ==
  /\ c.allocations <= d.allocations /\ c.deallocations <= d.deallocations
  /\ c.total_allocated <= d.total_allocated /\ c.total_freed <= d.total_freed

\* y was taken after x, with no reset in between.
Follows(y, x) ==
  /\ \A j \in DOMAIN x.records : \E i \in DOMAIN y.records :
       /\ y.records[i].stack_id = x.records[j].stack_id
       /\ Grown(x.records[j].stats, y.records[i].stats)
  /\ x.dropped_events <= y.dropped_events

\* The statistics are those of x, or later ones.
Continues(x) ==
  /\ \A j \in DOMAIN x.records :
       /\ x.records[j].stack_id \in DOMAIN stats
       /\ Grown(x.records[j].stats, stats[x.records[j].stack_id])
  /\ x.dropped_events <= droppedEvents

\* Types; only finitely many stacks are counted, so that a snapshot can list them.
NumbersOK ==
  /\ DOMAIN stats \subseteq Stacks /\ IsFiniteSet(DOMAIN stats)
  /\ \A s \in DOMAIN stats : stats[s] \in Counters
  /\ droppedEvents \in 0 .. MaxUnsigned
  /\ older \in SnapshotType /\ newer \in SnapshotType
  /\ events \in 0 .. MaxEvents
  /\ reset \in [between : BOOLEAN, since : BOOLEAN]

\* The inductive invariant of the numbers.
Numbers ==
  /\ NumbersOK
  /\ NamesOnce(older) /\ NamesOnce(newer)
  /\ ~reset.between => Follows(newer, older)
  /\ ~reset.since => Continues(newer)

\* The records of a snapshot are entries.
LEMMA EntriesOfSnapshot ==
  ASSUME NEW x \in SnapshotType, NEW i \in DOMAIN x.records
  PROVE  /\ x.records[i] \in Entry /\ x.records[i].stack_id \in Stacks
         /\ x.records[i].stats \in Counters
<1>1. \A q \in Seq(Entry) : \A k \in DOMAIN q : q[k] \in Entry
  OBVIOUS
<1>2. x.records[i] \in Entry
  BY <1>1, Zenon DEF SnapshotType
<1> QED
  BY <1>2 DEF Entry

LEMMA CountersParts ==
  ASSUME NEW c \in Counters
  PROVE  /\ c.allocations \in 0 .. MaxUnsigned /\ c.deallocations \in 0 .. MaxUnsigned
         /\ c.total_allocated \in 0 .. MaxUnsigned /\ c.total_freed \in 0 .. MaxUnsigned
         /\ c.current_bytes \in MinSigned .. MaxSigned
BY DEF Counters

LEMMA ZeroCounters == Zero \in Counters
BY Widths DEF Zero, Counters

LEMMA GrownItself == \A c \in Counters : Grown(c, c)
BY CountersParts, Widths DEF Grown

\* Growth upon growth is growth.
LEMMA GrownOn ==
  ASSUME NEW c \in Counters, NEW d \in Counters, NEW e \in Counters, Grown(c, d), Grown(d, e)
  PROVE  Grown(c, e)
<1>1. 0 .. MaxUnsigned \subseteq Int
  OBVIOUS
<1> QED
  BY <1>1, CountersParts DEF Grown

\* An event makes no counter of its stack fall.
LEMMA IngestGrows ==
  ASSUME NEW c \in Counters, NEW n \in Nat
  PROVE  /\ OnAllocation(c, n) \in Counters /\ Grown(c, OnAllocation(c, n))
         /\ OnDeallocation(c, n) \in Counters /\ Grown(c, OnDeallocation(c, n))
<1>1. /\ c.allocations \in 0 .. MaxUnsigned /\ c.deallocations \in 0 .. MaxUnsigned
      /\ c.total_allocated \in 0 .. MaxUnsigned /\ c.total_freed \in 0 .. MaxUnsigned
      /\ c.current_bytes \in Int
  BY CountersParts, Widths
<1>2. /\ \A m \in 0 .. MaxUnsigned :
           /\ AtMost(m + n) \in 0 .. MaxUnsigned /\ m <= AtMost(m + n)
           /\ AtMost(m + 1) \in 0 .. MaxUnsigned /\ m <= AtMost(m + 1)
      /\ \A m \in 0 .. MaxUnsigned : m <= m
  BY AtMostGrows
<1>3. /\ Clamped(c.current_bytes + n) \in MinSigned .. MaxSigned
      /\ Clamped(c.current_bytes - n) \in MinSigned .. MaxSigned
  BY <1>1, ClampedType
<1>4. OnAllocation(c, n) \in Counters /\ OnDeallocation(c, n) \in Counters
  BY <1>1, <1>2, <1>3 DEF OnAllocation, OnDeallocation, Counters
<1>5. /\ OnAllocation(c, n).allocations = AtMost(c.allocations + 1)
      /\ OnAllocation(c, n).deallocations = c.deallocations
      /\ OnAllocation(c, n).total_allocated = AtMost(c.total_allocated + n)
      /\ OnAllocation(c, n).total_freed = c.total_freed
  BY DEF OnAllocation, Counters
<1>6. /\ OnDeallocation(c, n).allocations = c.allocations
      /\ OnDeallocation(c, n).deallocations = AtMost(c.deallocations + 1)
      /\ OnDeallocation(c, n).total_allocated = c.total_allocated
      /\ OnDeallocation(c, n).total_freed = AtMost(c.total_freed + n)
  BY DEF OnDeallocation, Counters
<1>7. Grown(c, OnAllocation(c, n))
  BY <1>1, <1>2, <1>5 DEF Grown
<1>8. Grown(c, OnDeallocation(c, n))
  BY <1>1, <1>2, <1>6 DEF Grown
<1> QED
  BY <1>4, <1>7, <1>8

-----------------------------------------------------------------------------
(* The numbers, step by step.                                               *)

\* A stack that is not counted has counters, too.
LEMMA StatsOfCounters == NumbersOK => \A s \in Stacks : StatsOf(s) \in Counters
BY ZeroCounters DEF NumbersOK, StatsOf

\* One stack is counted anew.
LEMMA CountNumbers ==
  ASSUME Numbers, NEW s \in Stacks, NEW c \in Counters, Arrive, Count(s, c),
         s \in DOMAIN stats => Grown(stats[s], c)
  PROVE  Numbers'
<1>1. /\ NumbersOK /\ NamesOnce(older) /\ NamesOnce(newer)
      /\ ~reset.between => Follows(newer, older)
      /\ ~reset.since => Continues(newer)
  BY DEF Numbers
<1>2. /\ UNCHANGED <<older, newer, reset, droppedEvents>>
      /\ events < MaxEvents /\ events' = events + 1
      /\ stats' = [x \in DOMAIN stats \cup {s} |-> IF x = s THEN c ELSE stats[x]]
  BY DEF Arrive, Count
<1>3. /\ DOMAIN stats' = DOMAIN stats \cup {s} /\ stats'[s] = c
      /\ \A x \in DOMAIN stats : x # s => stats'[x] = stats[x]
  BY <1>2
<1>4. IsFiniteSet(DOMAIN stats')
  BY <1>1, <1>3, FS_AddElement DEF NumbersOK
<1>5. events' \in 0 .. MaxEvents
  BY <1>1, <1>2, ReportingAssumption DEF NumbersOK
<1>6. NumbersOK'
  BY <1>1, <1>2, <1>3, <1>4, <1>5 DEF NumbersOK
<1>7. ASSUME ~reset.since PROVE Continues(newer)'
  <2>1. Continues(newer) /\ newer \in SnapshotType
    BY <1>1, <1>7 DEF NumbersOK
  <2>2. ASSUME NEW j \in DOMAIN newer.records
        PROVE  /\ newer.records[j].stack_id \in DOMAIN stats'
               /\ Grown(newer.records[j].stats, stats'[newer.records[j].stack_id])
    <3> DEFINE r == newer.records[j]
    <3>1. r.stack_id \in DOMAIN stats /\ Grown(r.stats, stats[r.stack_id])
      BY <2>1 DEF Continues
    <3>2. r \in Entry
      BY <2>1 DEF SnapshotType
    <3>3. r.stats \in Counters /\ stats[r.stack_id] \in Counters
      BY <1>1, <3>1, <3>2 DEF Entry, NumbersOK
    <3>4. r.stack_id = s => Grown(r.stats, c)
      BY <3>1, <3>3, GrownOn
    <3> QED
      BY <1>3, <3>1, <3>4
  <2> QED
    BY <1>2, <2>1, <2>2 DEF Continues
<1> QED
  BY <1>1, <1>2, <1>6, <1>7 DEF Numbers, NamesOnce, Follows

LEMMA DropNumbers ==
  ASSUME Numbers, NEW n \in Nat, Arrive, Drop(n)
  PROVE  Numbers'
<1>1. /\ NumbersOK /\ NamesOnce(older) /\ NamesOnce(newer)
      /\ ~reset.between => Follows(newer, older)
      /\ ~reset.since => Continues(newer)
  BY DEF Numbers
<1>2. /\ UNCHANGED <<older, newer, reset, stats>>
      /\ events < MaxEvents /\ events' = events + 1
      /\ droppedEvents' = AtMost(droppedEvents + n)
  BY DEF Arrive, Drop
<1>3. droppedEvents' \in 0 .. MaxUnsigned /\ droppedEvents <= droppedEvents'
  BY <1>1, <1>2, AtMostGrows DEF NumbersOK
<1>4. events' \in 0 .. MaxEvents
  BY <1>1, <1>2, ReportingAssumption DEF NumbersOK
<1>5. NumbersOK'
  BY <1>1, <1>2, <1>3, <1>4 DEF NumbersOK
<1>6. ASSUME ~reset.since PROVE newer.dropped_events <= droppedEvents'
  <2>1. newer.dropped_events <= droppedEvents /\ newer.dropped_events \in Int
        /\ droppedEvents \in Int /\ droppedEvents' \in Int
    BY <1>1, <1>3, <1>6 DEF Continues, NumbersOK, SnapshotType
  <2> QED
    BY <1>3, <2>1
<1> QED
  BY <1>1, <1>2, <1>5, <1>6 DEF Numbers, NamesOnce, Follows, Continues

\* After a reset nothing relates the statistics to the newer snapshot.
LEMMA ResetNumbers == Numbers /\ Reset => Numbers'
<1> SUFFICES ASSUME Numbers, Reset PROVE Numbers'
  OBVIOUS
<1>1. /\ UNCHANGED <<older, newer, events>> /\ stats' = <<>> /\ droppedEvents' = 0
      /\ reset' = [reset EXCEPT !.since = TRUE]
      /\ NumbersOK
  BY DEF Reset, Numbers
<1>2. reset' \in [between : BOOLEAN, since : BOOLEAN] /\ reset'.since = TRUE
      /\ reset'.between = reset.between
  BY <1>1 DEF NumbersOK
<1>3. DOMAIN stats' = {} /\ IsFiniteSet(DOMAIN stats')
  BY <1>1, FS_EmptySet
<1>4. 0 \in 0 .. MaxUnsigned
  BY Widths
<1>5. NumbersOK'
  BY <1>1, <1>2, <1>3, <1>4 DEF NumbersOK
<1> QED
  BY <1>1, <1>2, <1>5 DEF Numbers, NamesOnce, Follows

\* A snapshot lists every stack, and none twice.
LEMMA OrderedAll ==
  ASSUME NumbersOK, NEW o \in Orders
  PROVE  /\ \E n \in Nat : DOMAIN o = 1 .. n
         /\ \A i \in DOMAIN o : o[i] \in DOMAIN stats
         /\ \A i, j \in DOMAIN o : o[i] = o[j] => i = j
         /\ \A s \in DOMAIN stats : \E i \in DOMAIN o : o[i] = s
<1> DEFINE D == DOMAIN stats
           n == Cardinality(D)
<1>1. IsFiniteSet(D) /\ n \in Nat
  BY FS_CardinalityType DEF NumbersOK
<1>2. /\ o \in [1 .. n -> D]
      /\ \A i, j \in DOMAIN o : i < j => o[i] # o[j]
  BY DEF Orders
<1>3. DOMAIN o = 1 .. n
  BY <1>2
<1>4. \A i, j \in DOMAIN o : o[i] = o[j] => i = j
  <2> SUFFICES ASSUME NEW i \in DOMAIN o, NEW j \in DOMAIN o, o[i] = o[j] PROVE i = j
    OBVIOUS
  <2>1. i \in Int /\ j \in Int
    BY <1>3
  <2> QED
    BY <1>2, <2>1
<1>5. o \in Injection(1 .. n, D)
  BY <1>2, <1>3, <1>4 DEF Injection, IsInjective
<1>6. Cardinality(1 .. n) = n
  BY <1>1, FS_Interval
<1> HIDE DEF n, D
<1>7. o \in Surjection(1 .. n, D)
  BY <1>1, <1>5, <1>6, FS_Injection DEF n
<1>8. \A s \in D : \E i \in DOMAIN o : o[i] = s
  BY <1>3, <1>7 DEF Surjection
<1> QED
  BY <1>1, <1>2, <1>3, <1>4, <1>8 DEF D

\* A snapshot lists the counters as they are; the one before it keeps below them.
LEMMA SnapshotNumbers ==
  ASSUME Numbers, NEW o \in Orders, Snapshot(o)
  PROVE  Numbers'
<1>1. /\ NumbersOK /\ NamesOnce(newer) /\ newer \in SnapshotType
      /\ ~reset.since => Continues(newer)
  BY DEF Numbers, NumbersOK
<1>2. /\ UNCHANGED <<stats, droppedEvents, events>> /\ older' = newer
      /\ reset' = [between |-> reset.since, since |-> FALSE]
      /\ newer' = [records |-> [i \in DOMAIN o |->
                                  [stack_id |-> o[i], stats |-> stats[o[i]]]],
                   dropped_events |-> droppedEvents]
  BY DEF Snapshot
<1>3. /\ \E n \in Nat : DOMAIN o = 1 .. n
      /\ \A i \in DOMAIN o : o[i] \in DOMAIN stats
      /\ \A i, j \in DOMAIN o : o[i] = o[j] => i = j
      /\ \A s \in DOMAIN stats : \E i \in DOMAIN o : o[i] = s
  BY <1>1, OrderedAll
<1>4. /\ DOMAIN newer'.records = DOMAIN o
      /\ \A i \in DOMAIN o : /\ newer'.records[i].stack_id = o[i]
                             /\ newer'.records[i].stats = stats[o[i]]
      /\ newer'.dropped_events = droppedEvents
  BY <1>2
<1>5. newer' \in SnapshotType
  <2> DEFINE r == [i \in DOMAIN o |-> [stack_id |-> o[i], stats |-> stats[o[i]]]]
  <2>1. PICK n \in Nat : DOMAIN o = 1 .. n
    BY <1>3
  <2>2. \A i \in DOMAIN o : [stack_id |-> o[i], stats |-> stats[o[i]]] \in Entry
    BY <1>1, <1>3 DEF NumbersOK, Entry
  <2>3. r \in [1 .. n -> Entry]
    BY <2>1, <2>2
  <2>4. r \in Seq(Entry)
    <3> HIDE DEF r
    <3> QED
      BY <2>3
  <2>5. droppedEvents \in 0 .. MaxUnsigned
    BY <1>1 DEF NumbersOK
  <2> QED
    BY <1>2, <2>4, <2>5 DEF SnapshotType
<1>6. reset' \in [between : BOOLEAN, since : BOOLEAN] /\ reset'.between = reset.since
  BY <1>1, <1>2 DEF NumbersOK
<1>7. NumbersOK'
  BY <1>1, <1>2, <1>5, <1>6 DEF NumbersOK
<1>8. NamesOnce(newer)' /\ NamesOnce(older)'
  BY <1>1, <1>2, <1>3, <1>4 DEF NamesOnce
<1>9. Continues(newer)'
  <2>1. \A i \in DOMAIN o : Grown(stats[o[i]], stats[o[i]])
    BY <1>1, <1>3, GrownItself DEF NumbersOK
  <2>2. droppedEvents <= droppedEvents
    BY <1>1 DEF NumbersOK
  <2> QED
    BY <1>2, <1>3, <1>4, <2>1, <2>2 DEF Continues
<1>10. ASSUME ~reset.since PROVE Follows(newer, older)'
  <2>1. Continues(newer)
    BY <1>1, <1>10
  <2>2. ASSUME NEW j \in DOMAIN newer.records
        PROVE  \E i \in DOMAIN newer'.records :
                 /\ newer'.records[i].stack_id = newer.records[j].stack_id
                 /\ Grown(newer.records[j].stats, newer'.records[i].stats)
    <3>1. /\ newer.records[j].stack_id \in DOMAIN stats
          /\ Grown(newer.records[j].stats, stats[newer.records[j].stack_id])
      BY <2>1 DEF Continues
    <3>2. PICK i \in DOMAIN o : o[i] = newer.records[j].stack_id
      BY <1>3, <3>1
    <3> QED
      BY <1>4, <3>1, <3>2
  <2>3. newer.dropped_events <= newer'.dropped_events
    BY <1>4, <2>1 DEF Continues
  <2> QED
    BY <1>2, <2>2, <2>3 DEF Follows
<1> QED
  BY <1>6, <1>7, <1>8, <1>9, <1>10 DEF Numbers

LEMMA InitNumbers == Init => Numbers
<1> SUFFICES ASSUME Init PROVE Numbers
  OBVIOUS
<1>1. /\ DOMAIN stats = {} /\ droppedEvents = 0 /\ older = NoSnapshot /\ newer = NoSnapshot
      /\ events = 0 /\ reset = [between |-> FALSE, since |-> FALSE]
  BY DEF Init
<1>2. NoSnapshot \in SnapshotType /\ NoSnapshot.records = <<>> /\ NoSnapshot.dropped_events = 0
  BY Widths DEF NoSnapshot, SnapshotType
<1>3. NumbersOK
  BY <1>1, <1>2, FS_EmptySet, Widths, ReportingAssumption DEF NumbersOK
<1> QED
  BY <1>1, <1>2, <1>3 DEF Numbers, NamesOnce, Follows, Continues

\* Every step keeps them.
LEMMA NumbersStep == Numbers /\ [Next]_vars => Numbers'
<1> SUFFICES ASSUME Numbers, [Next]_vars PROVE Numbers'
  OBVIOUS
<1>1. NumbersOK /\ \A s \in Stacks : StatsOf(s) \in Counters
  BY StatsOfCounters DEF Numbers
<1>2. ASSUME NEW s \in Stacks, NEW n \in Sizes, IngestAllocation(s, n) \/ IngestDeallocation(s, n)
      PROVE  Numbers'
  <2>1. n \in Nat
    BY ReportingAssumption
  <2>2. \A c \in {OnAllocation(StatsOf(s), n), OnDeallocation(StatsOf(s), n)} :
          /\ c \in Counters
          /\ s \in DOMAIN stats => Grown(stats[s], c)
    BY <1>1, <2>1, IngestGrows DEF StatsOf
  <2>3. /\ Arrive
        /\ \/ Drop(1)
           \/ Count(s, OnAllocation(StatsOf(s), n))
           \/ Count(s, OnDeallocation(StatsOf(s), n))
    BY <1>2 DEF IngestAllocation, IngestDeallocation
  <2> QED
    BY <2>2, <2>3, CountNumbers, DropNumbers
<1>3. ASSUME NEW n \in 1 .. MaxUnsigned, IngestDropped(n) PROVE Numbers'
  <2>1. n \in Nat
    BY Widths
  <2> QED
    BY <1>3, <2>1, DropNumbers DEF IngestDropped
<1>4. CASE UNCHANGED vars
  <2>1. UNCHANGED <<stats, droppedEvents, older, newer, events, reset>>
    BY <1>4 DEF vars
  <2> QED
    BY <2>1 DEF Numbers, NumbersOK, NamesOnce, Follows, Continues
<1> QED
  BY <1>2, <1>3, <1>4, ResetNumbers, SnapshotNumbers DEF Next

-----------------------------------------------------------------------------
(* The difference of two snapshots.                                         *)

\* Where no counter fell, the difference makes up for what is missing.
LEMMA DifferenceAdds ==
  ASSUME NEW c \in Counters, NEW d \in Counters, Grown(c, d)
  PROVE  Adds(c, Minus(d, c), d)
<1>1. \A m, n \in 0 .. MaxUnsigned : m <= n => m + AtLeastZero(n - m) = n
  BY DEF AtLeastZero
<1>2. Wrapped(c.current_bytes + Wrapped(d.current_bytes - c.current_bytes))
        = d.current_bytes
  BY CountersParts, WrappedBack
<1>3. /\ Minus(d, c).allocations = AtLeastZero(d.allocations - c.allocations)
      /\ Minus(d, c).current_bytes = Wrapped(d.current_bytes - c.current_bytes)
      /\ Minus(d, c).deallocations = AtLeastZero(d.deallocations - c.deallocations)
      /\ Minus(d, c).total_allocated = AtLeastZero(d.total_allocated - c.total_allocated)
      /\ Minus(d, c).total_freed = AtLeastZero(d.total_freed - c.total_freed)
  BY DEF Minus
<1> QED
  BY <1>1, <1>2, <1>3, CountersParts DEF Adds, Grown

\* A record finds the one of its stack, wherever it is.
LEMMA OneRecord ==
  ASSUME NEW x, NamesOnce(x), NEW j \in DOMAIN x.records, NEW r,
         x.records[j].stack_id = r.stack_id
  PROVE  SameStack(x, r) = {x.records[j]}
<1>1. \A i \in DOMAIN x.records : x.records[i].stack_id = r.stack_id => i = j
  BY DEF NamesOnce
<1> QED
  BY <1>1 DEF SameStack

\* That record's difference is what the delta lists.
LEMMA DeltaRecord ==
  ASSUME NEW x \in SnapshotType, NEW y \in SnapshotType, NamesOnce(x),
         NEW j \in DOMAIN x.records, NEW i \in DOMAIN y.records,
         y.records[i].stack_id = x.records[j].stack_id
  PROVE  /\ Delta(y, x).records[i].stack_id = x.records[j].stack_id
         /\ Delta(y, x).records[i].stats = Minus(y.records[i].stats, x.records[j].stats)
<1> DEFINE r == y.records[i]
           b == x.records[j]
<1>1. SameStack(x, r) = {b}
  BY OneRecord
<1>2. (CHOOSE e \in SameStack(x, r) : TRUE) = b
  BY <1>1
<1>3. Delta(y, x).records[i] = [r EXCEPT !.stats = Minus(@, b.stats)]
  BY <1>1, <1>2 DEF Delta
<1>4. r \in Entry
  BY DEF SnapshotType
<1> QED
  BY <1>3, <1>4 DEF Entry

\* The deltas of snapshots of growing counters are exact.
LEMMA DeltaOfNumbers == Numbers => DeltaExact
<1> SUFFICES ASSUME Numbers, ~reset.between
             PROVE  /\ \A j \in DOMAIN older.records :
                         \E i \in DOMAIN Delta(newer, older).records :
                           /\ Delta(newer, older).records[i].stack_id
                                = older.records[j].stack_id
                           /\ Adds(older.records[j].stats,
                                   Delta(newer, older).records[i].stats,
                                   newer.records[i].stats)
                    /\ \A i \in DOMAIN newer.records :
                         (\A j \in DOMAIN older.records :
                            older.records[j].stack_id # newer.records[i].stack_id) =>
                           Delta(newer, older).records[i] = newer.records[i]
                    /\ \/ older.dropped_events + Delta(newer, older).dropped_events
                            = newer.dropped_events
                       \/ newer.dropped_events - older.dropped_events > MaxSigned
  BY DEF DeltaExact
<1>1. /\ older \in SnapshotType /\ newer \in SnapshotType
      /\ NamesOnce(older) /\ Follows(newer, older)
  BY DEF Numbers, NumbersOK
<1>2. DOMAIN Delta(newer, older).records = DOMAIN newer.records
  BY DEF Delta
<1>3. ASSUME NEW j \in DOMAIN older.records
      PROVE  \E i \in DOMAIN Delta(newer, older).records :
               /\ Delta(newer, older).records[i].stack_id = older.records[j].stack_id
               /\ Adds(older.records[j].stats, Delta(newer, older).records[i].stats,
                       newer.records[i].stats)
  <2>1. PICK i \in DOMAIN newer.records :
          /\ newer.records[i].stack_id = older.records[j].stack_id
          /\ Grown(older.records[j].stats, newer.records[i].stats)
    BY <1>1 DEF Follows
  <2>2. /\ Delta(newer, older).records[i].stack_id = older.records[j].stack_id
        /\ Delta(newer, older).records[i].stats
             = Minus(newer.records[i].stats, older.records[j].stats)
    BY <1>1, <2>1, DeltaRecord
  <2>3. older.records[j].stats \in Counters /\ newer.records[i].stats \in Counters
    BY <1>1, <2>1, EntriesOfSnapshot
  <2> QED
    BY <1>2, <2>1, <2>2, <2>3, DifferenceAdds
<1>4. ASSUME NEW i \in DOMAIN newer.records,
             \A j \in DOMAIN older.records :
               older.records[j].stack_id # newer.records[i].stack_id
      PROVE  Delta(newer, older).records[i] = newer.records[i]
  <2>1. SameStack(older, newer.records[i]) = {}
    BY <1>4 DEF SameStack
  <2> QED
    BY <2>1 DEF Delta
<1>5. \/ older.dropped_events + Delta(newer, older).dropped_events = newer.dropped_events
      \/ newer.dropped_events - older.dropped_events > MaxSigned
  <2>1. Delta(newer, older).dropped_events
          = Clamped(newer.dropped_events - older.dropped_events)
    BY DEF Delta
  <2>2. /\ older.dropped_events \in Int /\ newer.dropped_events \in Int
        /\ older.dropped_events <= newer.dropped_events
    BY <1>1, Widths DEF SnapshotType, Follows
  <2> QED
    BY <2>1, <2>2, Widths DEF Clamped
<1> QED
  BY <1>3, <1>4, <1>5

\* Along every behaviour the counters of a stack only grow until they are
\* cleared, and a snapshot names a stack once (Aggregator::ingest, snapshot).
THEOREM SnapshotNumbersAlways == Spec => []Numbers
BY InitNumbers, NumbersStep, PTL DEF Spec

\* The older snapshot and the delta make up the newer one, whatever the width
\* of the counters and the number of stacks (SnapshotDelta::from_snapshots).
THEOREM SnapshotDeltaExact == Spec => []DeltaExact
BY SnapshotNumbersAlways, DeltaOfNumbers, PTL

\* Every counter keeps to its width.
THEOREM SnapshotTypeOK == Spec => []TypeOK
<1>1. Numbers => TypeOK
  <2> SUFFICES ASSUME Numbers PROVE TypeOK
    OBVIOUS
  <2>1. \A x \in SnapshotType : IsSnapshot(x)
    <3> SUFFICES ASSUME NEW x \in SnapshotType PROVE IsSnapshot(x)
      OBVIOUS
    <3>1. x.records \in Seq(Entry) /\ x.dropped_events \in 0 .. MaxUnsigned
      BY DEF SnapshotType
    <3>2. DOMAIN x.records = 1 .. Len(x.records)
      BY <3>1
    <3> QED
      BY <3>1, <3>2, EntriesOfSnapshot DEF IsSnapshot
  <2> QED
    BY <2>1 DEF Numbers, NumbersOK, TypeOK
<1> QED
  BY <1>1, SnapshotNumbersAlways, PTL

-----------------------------------------------------------------------------
(* What a client does with snapshots.                                       *)

\* The numbers do not depend on what the snapshots are used for.
LEMMA ReportImplementsSnapshots == ReportSpec => Spec
<1>1. ReportInit => Init
  BY DEF ReportInit
<1>2. [ReportNext]_all => [Next]_vars
  BY DEF ReportNext, TakeStep, ExportStep, StreamStep, Ended, all
<1> QED
  BY <1>1, <1>2, PTL DEF ReportSpec, Spec

\* What is exported is a sequence of records.
LEMMA ExportedRecords == NumbersOK => Exported \in Seq(P!Record)
<1> SUFFICES ASSUME NumbersOK PROVE Exported \in Seq(P!Record)
  OBVIOUS
<1>1. newer.records \in Seq(Entry) /\ newer \in SnapshotType
  BY DEF NumbersOK, SnapshotType
<1>2. ASSUME NEW i \in DOMAIN newer.records
      PROVE  [frames |-> Frames[newer.records[i].stack_id],
              bytes |-> newer.records[i].stats.current_bytes,
              allocations |-> newer.records[i].stats.allocations] \in P!Record
  <2>1. newer.records[i].stack_id \in Stacks /\ newer.records[i].stats \in Counters
    BY <1>1, EntriesOfSnapshot
  <2>2. Frames[newer.records[i].stack_id] \in Seq(P!Frame)
    BY <2>1, ReportingAssumption
  <2> QED
    BY <2>1, <2>2, CountersParts DEF P!Record
<1>3. PICK n \in Nat : DOMAIN newer.records = 1 .. n
  BY <1>1
<1>4. Exported \in [1 .. n -> P!Record]
  BY <1>2, <1>3 DEF Exported
<1> QED
  BY <1>4

\* An export is one of PprofExport, although the next snapshot is taken
\* meanwhile: the records were copied.
THEOREM ReportImplementsExport == ReportSpec => P!Spec
<1>1. ReportInit => P!Init
  BY DEF ReportInit
<1>2. NumbersOK /\ [ReportNext]_all => [P!Next]_(P!vars)
  <2> SUFFICES ASSUME NumbersOK, [ReportNext]_all PROVE [P!Next]_(P!vars)
    OBVIOUS
  <2>1. CASE ExportStep
    BY <2>1, ExportedRecords DEF ExportStep, P!Next
  <2>2. CASE TakeStep \/ StreamStep \/ Ended \/ UNCHANGED all
    BY <2>2 DEF TakeStep, StreamStep, Ended, all, profileVars, P!vars
  <2> QED
    BY <2>1, <2>2 DEF ReportNext
<1>3. Numbers => NumbersOK
  BY DEF Numbers
<1> QED
  BY <1>1, <1>2, <1>3, ReportImplementsSnapshots, SnapshotNumbersAlways, PTL
  DEF ReportSpec, P!Spec

\* A stream is one of MmapStream.
LEMMA ReportImplementsStream == ReportSpec => M!Spec
<1>1. ReportInit => M!Init
  BY DEF ReportInit
<1>2. [ReportNext]_all => [M!Next]_(M!vars)
  <2> SUFFICES ASSUME [ReportNext]_all PROVE [M!Next]_(M!vars)
    OBVIOUS
  <2>1. CASE StreamStep
    <3>1. Capacities \subseteq Nat /\ Lengths \subseteq Nat \ {0}
      BY ReportingAssumption
    <3>2. PICK w \in Streams :
            \/ \E n \in Capacities : M!Open(w, n) \/ M!OpenFails(w, n)
            \/ \E c \in Contents, n \in Lengths : M!Write(w, c, n)
            \/ \E n \in Lengths : M!Refuse(w, n)
            \/ M!Close(w)
      BY <2>1, Zenon DEF StreamStep
    <3>3. ASSUME NEW n \in Lengths, M!Refuse(w, n) PROVE UNCHANGED M!vars
      BY <3>3, Zenon DEF M!Refuse
    <3> QED
      BY <3>1, <3>2, <3>3, Zenon DEF M!Next
  <2>2. CASE TakeStep \/ ExportStep \/ Ended \/ UNCHANGED all
    BY <2>2 DEF TakeStep, ExportStep, Ended, all, streamVars, M!vars
  <2> QED
    BY <2>1, <2>2 DEF ReportNext
<1> QED
  BY <1>1, <1>2, PTL DEF ReportSpec, M!Spec
-----------------------------------------------------------------------------
(* What the runs of Reporting check, for every client.                      *)

\* Snapshot deltas are exact for every client.
THEOREM ReportDeltaExact == ReportSpec => []DeltaExact
BY ReportImplementsSnapshots, SnapshotDeltaExact, PTL

\* The numbers keep to their types, and the positions of streams to their files.
THEOREM ReportTypes == ReportSpec => []ReportTypeOK
BY ReportImplementsSnapshots, SnapshotTypeOK, ReportImplementsStream, StreamTypeOK, PTL
DEF ReportTypeOK

\* Every sample of a client's profile leads to the frames of its record
\* (build_pprof_profile).
THEOREM ReportProfileFaithful == ReportSpec => []ProfileFaithful
BY ReportImplementsExport, ExportFaithful, PTL DEF ProfileFaithful

\* No frame of a client's profile has two locations.
THEOREM ReportOneLocation == ReportSpec => []OneLocationPerFrame
BY ReportImplementsExport, ExportOneLocation, PTL DEF OneLocationPerFrame

\* A client's file holds exactly what its stream took
\* (MmapJsonStreamWriter::write_bytes).
THEOREM ReportFileWhole == ReportSpec => []FileWhole
BY ReportImplementsStream, FileHoldsStream, PTL DEF FileWhole
=============================================================================
