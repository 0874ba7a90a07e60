----------------------------- MODULE PprofExport -----------------------------
(****************************************************************************)
(* build_pprof_profile (src/export.rs): a snapshot's records become samples *)
(* of location ids.  A location refers to a function by id, a function to   *)
(* its names by index into a table of strings, and each of the three tables *)
(* is filled while the samples are made.                                    *)
(*                                                                          *)
(* Tables are bounded by memory long before an index of 64 bits is.         *)
(****************************************************************************)
EXTENDS Integers, Sequences

CONSTANTS
  Words,      \* file and function names that frames may have
  Lines,      \* line numbers
  Bytes,      \* values of current_bytes
  Counts,     \* values of allocations
  MaxSigned   \* i64::MAX

VARIABLES
  records,    \* the records of the snapshot that is exported
  strings,    \* StringTable
  functions,  \* functions and function_ids
  locations,  \* locations and location_ids
  samples,    \* a sample for each record so far
  stack,      \* stack_location_ids of the record that is next
  types       \* sample_type, once the profile is complete

vars == <<records, strings, functions, locations, samples, stack, types>>

\* FrameMetadata
Frame == [filename : Words, function : Words, lineno : Lines]

UnknownFrame ==
  [filename |-> "<unknown>", function |-> "<unknown>", lineno |-> 0]

\* A stack the table does not know is as good as one without frames.
Record == [frames : Seq(Frame), bytes : Bytes, allocations : Counts]

FramesOf(r) == IF r.frames = <<>> THEN <<UnknownFrame>> ELSE r.frames

-----------------------------------------------------------------------------
(* A table is a sequence of what was interned and a map from that to ids.   *)

Empty == [entries |-> <<>>, ids |-> <<>>]

\* Plausible bug: the map has the empty string and the entries do not.
Unseeded == [entries |-> <<>>, ids |-> [w \in {""} |-> 0]]

\* StringTable::new: index 0 is the empty string.
NoStrings == [entries |-> <<"">>, ids |-> [w \in {""} |-> 0]]

\* Plausible bug: an entry is added without a look at the map.
AlwaysAdded(table, key, id) ==
  [entries |-> Append(table.entries, key),
   ids |-> [k \in DOMAIN table.ids \cup {key} |->
              IF k = key THEN id ELSE table.ids[k]]]

Interned(table, key, id) ==
  IF key \in DOMAIN table.ids THEN table
  ELSE [entries |-> Append(table.entries, key),
        ids |-> [k \in DOMAIN table.ids \cup {key} |->
                   IF k = key THEN id ELSE table.ids[k]]]

\* StringTable::intern: indices start at 0.
Intern(table, word) == Interned(table, word, Len(table.entries))

\* next_id: ids start at 1, as 0 means that there is none.
WithId(table, key) == Interned(table, key, Len(table.entries) + 1)

-----------------------------------------------------------------------------
Init ==
  /\ records = <<>>
  /\ strings = NoStrings
  /\ functions = Empty
  /\ locations = Empty
  /\ samples = <<>>
  /\ stack = <<>>
  /\ types = <<>>

\* The next export begins; it shares nothing with the one before, which is
\* complete.  (The first is that of an empty snapshot.)
Begin(rs) ==
  /\ types # <<>>
  /\ records' = rs
  /\ strings' = NoStrings
  /\ functions' = Empty
  /\ locations' = Empty
  /\ samples' = <<>>
  /\ stack' = <<>>
  /\ types' = <<>>

\* intern_location_for_frame
Locate(f) ==
  LET withFile == Intern(strings, f.filename)
      withName == Intern(withFile, f.function)
      function == [filename |-> withName.ids[f.filename],
                   function |-> withName.ids[f.function], lineno |-> f.lineno]
      withFunction == WithId(functions, function)
      location == [function_id |-> withFunction.ids[function], lineno |-> f.lineno]
      withLocation == WithId(locations, location)
  IN /\ strings' = withName
     /\ functions' = withFunction
     /\ locations' = withLocation
     /\ stack' = Append(stack, withLocation.ids[location])
     /\ UNCHANGED <<records, samples, types>>

\* The record whose sample is next.
Current == records[Len(samples) + 1]

\* The next frame of the record, or the one made up for want of any.
LocateFrame ==
  /\ Len(samples) < Len(records)
  /\ Len(stack) < Len(Current.frames)
  /\ Locate(Current.frames[Len(stack) + 1])

LocateUnknown ==
  /\ Len(samples) < Len(records)
  /\ Current.frames = <<>>
  /\ stack = <<>>
  /\ Locate(UnknownFrame)

\* i64::try_from(n).unwrap_or(i64::MAX)
Signed(n) == IF n > MaxSigned THEN MaxSigned ELSE n

AddSample ==
  /\ Len(samples) < Len(records)
  /\ Len(stack) = Len(FramesOf(Current))
  /\ samples' = Append(samples,
                  [location_id |-> stack,
                   value |-> <<Current.bytes, Signed(Current.allocations)>>])
  /\ stack' = <<>>
  /\ UNCHANGED <<records, strings, functions, locations, types>>

\* The names and units of the two values are interned last.
Complete ==
  /\ Len(samples) = Len(records)
  /\ types = <<>>
  /\ LET space == Intern(strings, "space")
         bytes == Intern(space, "bytes")
         allocations == Intern(bytes, "allocations")
         count == Intern(allocations, "count")
     IN /\ strings' = count
        /\ types' = <<[ty |-> count.ids["space"], unit |-> count.ids["bytes"]],
                      [ty |-> count.ids["allocations"], unit |-> count.ids["count"]]>>
  /\ UNCHANGED <<records, functions, locations, samples, stack>>

Step == LocateFrame \/ LocateUnknown \/ AddSample \/ Complete

Next == Step \/ \E rs \in Seq(Record) : Begin(rs)

Spec == Init /\ [][Next]_vars

-----------------------------------------------------------------------------
(* What a reader of the profile finds.                                      *)

Word(i) == strings.entries[i + 1]

FrameAt(l) ==
  LET location == locations.entries[l]
      function == functions.entries[location.function_id]
  IN [filename |-> Word(function.filename), function |-> Word(function.function),
      lineno |-> location.lineno]

FramesAt(ids) == [i \in DOMAIN ids |-> FrameAt(ids[i])]

\* Every sample, from the moment it is added until the profile is complete,
\* leads to the frames of its record, in order, and carries its values: what is
\* interned later never disturbs what earlier ids lead to.  Nor do the names of
\* the values, interned last, when frames bear the same names
\* (build_pprof_profile, intern_location_for_frame).
ProfileFaithful ==
  /\ \A i \in 1 .. Len(samples) :
       /\ FramesAt(samples[i].location_id) = FramesOf(records[i])
       /\ samples[i].value = <<records[i].bytes, Signed(records[i].allocations)>>
  /\ types # <<>> =>
       /\ Word(types[1].ty) = "space" /\ Word(types[1].unit) = "bytes"
       /\ Word(types[2].ty) = "allocations" /\ Word(types[2].unit) = "count"

\* No frame has two locations, as tools that add samples up by location id
\* need, although locations are told apart by function id and line, and
\* functions by string indices and line (LocationKey, FunctionKey).
OneLocationPerFrame ==
  \A l, m \in 1 .. Len(locations.entries) : FrameAt(l) = FrameAt(m) => l = m
=============================================================================
