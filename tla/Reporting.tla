------------------------------ MODULE Reporting ------------------------------
(****************************************************************************)
(* What a client does with snapshots (the Snapshot and SnapshotStream of    *)
(* py/src/lib.rs): it takes them while events go on arriving and compares   *)
(* them, or exports them as profiles, or streams them into files.  A        *)
(* snapshot is a copy and all that the three have in common, so a client    *)
(* here does one of them.  An export goes on while the next snapshot is     *)
(* taken.  Of a snapshot that is streamed only the length of its JSON       *)
(* matters, which also depends on names and timestamps: it may be anything. *)
(****************************************************************************)
EXTENDS SnapshotDelta

CONSTANTS
  Words, Lines,  \* names and lines of frames
  Frames,        \* the frames of each stack; <<>> if the table lacks it
  Streams,       \* streams on one path
  Capacities,    \* sizes of the files
  Contents,      \* snapshots that are streamed
  Lengths,       \* lengths of their JSON, with its newline
  Nul            \* a byte nobody has written

VARIABLES
  records, strings, functions, locations, samples, stack, types,
  file, status, size, position, killed, accepted, owner, shared,
  use            \* what this client does with snapshots

P == INSTANCE PprofExport WITH
       Bytes <- MinSigned .. MaxSigned, Counts <- 0 .. MaxUnsigned

M == INSTANCE MmapStream

ASSUME ReportingAssumption ==
  /\ MaxSigned \in Nat /\ MaxEvents \in Nat
  /\ Sizes \subseteq Nat \ {0}
  /\ Capacities \subseteq Nat /\ Lengths \subseteq Nat \ {0}
  /\ Frames \in [Stacks -> Seq(P!Frame)]

profileVars == <<records, strings, functions, locations, samples, stack, types>>
streamVars == <<file, status, size, position, killed, accepted, owner, shared>>
all == <<vars, profileVars, streamVars, use>>

ReportInit ==
  /\ Init /\ P!Init /\ M!Init
  /\ use \in {"compare", "export", "stream"}

\* The records that build_pprof_profile goes through.
Exported ==
  [i \in DOMAIN newer.records |->
     [frames |-> Frames[newer.records[i].stack_id],
      bytes |-> newer.records[i].stats.current_bytes,
      allocations |-> newer.records[i].stats.allocations]]

TakeStep ==
  /\ use \in {"compare", "export"}
  /\ Next
  /\ UNCHANGED <<profileVars, streamVars, use>>

ExportStep ==
  /\ use = "export"
  /\ P!Begin(Exported) \/ P!Step
  /\ UNCHANGED <<vars, streamVars, use>>

StreamStep ==
  /\ use = "stream"
  /\ \E w \in Streams :
       \/ \E n \in Capacities : M!Open(w, n) \/ M!OpenFails(w, n)
       \/ \E c \in Contents, n \in Lengths : M!Write(w, c, n)
       \/ \E n \in Lengths : M!Refuse(w, n)
       \/ M!Close(w)
  /\ UNCHANGED <<vars, profileVars, use>>

\* All streams are closed, or the operating system has ended the process.
Ended ==
  /\ use = "stream"
  /\ killed \/ \A w \in Streams : status[w] = "closed"
  /\ UNCHANGED all

ReportNext == TakeStep \/ ExportStep \/ StreamStep \/ Ended

ReportSpec == ReportInit /\ [][ReportNext]_all

-----------------------------------------------------------------------------
\* The types of the numbers and of the streams.
ReportTypeOK == TypeOK /\ M!TypeOK

\* PprofExport: samples lead to the frames of their records.
ProfileFaithful == P!ProfileFaithful

\* PprofExport: a frame has one location.
OneLocationPerFrame == P!OneLocationPerFrame

\* MmapStream: a file holds what its stream took.
FileWhole == M!FileWhole
=============================================================================
