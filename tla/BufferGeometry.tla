--------------------------- MODULE BufferGeometry ---------------------------
(****************************************************************************)
(* How ThreadBuffer::new (src/ring_buffer.rs) turns a byte budget into the  *)
(* capacity and the flush threshold of a thread's buffer.                   *)
(****************************************************************************)
EXTENDS Naturals

AtLeastOne(n) == IF n = 0 THEN 1 ELSE n

\* The capacity used when the budget is smaller than one event.
DefaultEvents == 1024

\* Events that fit in `bytes`; a budget that fits none gets the default.
MaxEvents(bytes, eventSize) ==
  IF bytes \div eventSize = 0 THEN DefaultEvents ELSE bytes \div eventSize

\* Three quarters of the capacity, rounded up: 1 <= FlushThreshold <= capacity.
FlushThreshold(capacity) == AtLeastOne(capacity - capacity \div 4)
=============================================================================
