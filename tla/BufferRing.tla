----------------------------- MODULE BufferRing -----------------------------
(***************************************************************************)
(* One camera stream in shared memory: the ring of slots CameraHost writes *)
(* (SharedMemoryPublisher), the Provider's loop that makes a BufferRef of  *)
(* the newest slot and publishes it to the Fabric, and a consumer that     *)
(* copies a payload under generation checks.  The host may be killed at    *)
(* any step and started again; the memory lives while somebody maps it.    *)
(*                                                                         *)
(* A payload is copied in two parts, and each part holds the frame it was  *)
(* copied from.  The barriers of the code make its stores and loads happen *)
(* in program order, so a step is one of them.  `boot' counts the hosts;   *)
(* neither the memory nor a BufferRef knows it.                            *)
(***************************************************************************)
EXTENDS Integers

CONSTANTS Slots,      \* slot_count
          MaxFrames,  \* bound: frames published, over all hosts
          MaxBoots,   \* bound: hosts started
          None

Slot == 0 .. Slots - 1

VARIABLES up, boot,       \* the host runs; how many have been started
          seq,            \* sequence word of each slot
          hdr, lo, hi,    \* frame of each slot's header and payload parts
          latest,         \* descriptor's latest_slot
          frame,          \* frames published so far
          w,              \* the host in publish
          maps,           \* who, besides the host, has the mapping open
          p,              \* the Provider in latest_ref
          lastGen,        \* last_sequences of the stream
          fabric,         \* the stream's latest BufferRef in the Fabric
          c,              \* the consumer in read_ref
          accepted        \* the last payload it returned

memory == <<seq, hdr, lo, hi, latest>>
host == <<up, boot, frame, w>>
provider == <<p, lastGen, fabric>>
consumer == <<c, accepted>>
vars == <<up, boot, seq, hdr, lo, hi, latest, frame, w, maps, p, lastGen, fabric, c, accepted>>

Zeroed ==
    /\ seq = [s \in Slot |-> 0]
    /\ hdr = [s \in Slot |-> 0] /\ lo = [s \in Slot |-> 0] /\ hi = [s \in Slot |-> 0]
    /\ latest = -1

Idle == [pc |-> "idle"]

Init ==
    /\ Zeroed
    /\ up = TRUE /\ boot = 1
    /\ frame = 0
    /\ w = Idle
    /\ maps = {}
    /\ p = Idle /\ lastGen = None /\ fabric = None
    /\ c = Idle /\ accepted = None

-----------------------------------------------------------------------------
(* SharedMemoryPublisher::publish.                                          *)

\* Mutant: the writer stays on the published slot.
NextSlotSame == IF latest < 0 THEN 0 ELSE latest

NextSlot == (latest + 1) % Slots

Odd(n) == IF n % 2 = 0 THEN n + 1 ELSE n + 2

Begin ==
    /\ up /\ w.pc = "idle" /\ frame < MaxFrames
    /\ LET s == NextSlot IN
         /\ w' = [pc |-> "header", slot |-> s, odd |-> Odd(seq[s]), frame |-> frame + 1]
         /\ seq' = [seq EXCEPT ![s] = Odd(@)]
    /\ frame' = frame + 1
    /\ UNCHANGED <<up, boot, hdr, lo, hi, latest, maps, provider, consumer>>

\* The steps after Begin, in order.
Write(pc, next) ==
    /\ up /\ w.pc = pc
    /\ w' = [w EXCEPT !.pc = next]
    /\ UNCHANGED <<up, boot, frame, maps, provider, consumer>>

Header ==
    /\ Write("header", "low")
    /\ hdr' = [hdr EXCEPT ![w.slot] = w.frame]
    /\ UNCHANGED <<seq, lo, hi, latest>>

Low ==
    /\ Write("low", "high")
    /\ lo' = [lo EXCEPT ![w.slot] = w.frame]
    /\ UNCHANGED <<seq, hdr, hi, latest>>

High ==
    /\ Write("high", "commit")
    /\ hi' = [hi EXCEPT ![w.slot] = w.frame]
    /\ UNCHANGED <<seq, hdr, lo, latest>>

Commit ==
    /\ Write("commit", "point")
    /\ seq' = [seq EXCEPT ![w.slot] = w.odd + 1]
    /\ UNCHANGED <<hdr, lo, hi, latest>>

Point ==
    /\ up /\ w.pc = "point"
    /\ latest' = w.slot
    /\ w' = Idle
    /\ UNCHANGED <<up, boot, frame, seq, hdr, lo, hi, maps, provider, consumer>>

\* The Provider kills a host, or it crashes; without a mapping the memory goes.
Die ==
    /\ up
    /\ up' = FALSE /\ w' = Idle
    /\ UNCHANGED <<boot, frame, memory, maps, provider, consumer>>

\* SharedMemoryPublisher::create: a mapping that still exists is refused.
Create ==
    /\ ~up /\ maps = {} /\ boot < MaxBoots
    /\ up' = TRUE /\ boot' = boot + 1
    /\ seq' = [s \in Slot |-> 0]
    /\ hdr' = [s \in Slot |-> 0] /\ lo' = [s \in Slot |-> 0] /\ hi' = [s \in Slot |-> 0]
    /\ latest' = -1
    /\ UNCHANGED <<frame, w, maps, provider, consumer>>

-----------------------------------------------------------------------------
(* The Provider: latest_ref, and its part of _publish_latest.               *)

Mapped == up \/ maps # {}

Open ==
    /\ "provider" \notin maps /\ Mapped
    /\ maps' = maps \cup {"provider"}
    /\ UNCHANGED <<host, memory, provider, consumer>>

\* _close_reader, and what start_hot clears before a new host is started.
Close ==
    /\ "provider" \in maps
    /\ maps' = maps \ {"provider"}
    /\ p' = Idle /\ lastGen' = None
    /\ UNCHANGED <<host, memory, fabric, consumer>>

P(pc) == "provider" \in maps /\ p.pc = pc /\ UNCHANGED <<host, memory, maps, consumer>>

FindStream ==
    /\ P("idle") /\ latest >= 0
    /\ p' = [pc |-> "before", slot |-> latest]
    /\ UNCHANGED <<lastGen, fabric>>

\* An odd or zero sequence is tried again, and again until the attempts end.
SequenceBefore ==
    /\ P("before")
    /\ p' = IF seq[p.slot] <= 0 \/ seq[p.slot] % 2 = 1 THEN Idle
            ELSE [pc |-> "header", slot |-> p.slot, gen |-> seq[p.slot]]
    /\ UNCHANGED <<lastGen, fabric>>

ReadHeader ==
    /\ P("header")
    /\ p' = [pc |-> "after", slot |-> p.slot, gen |-> p.gen, frame |-> hdr[p.slot]]
    /\ UNCHANGED <<lastGen, fabric>>

SequenceAfter ==
    /\ P("after")
    /\ p' = IF seq[p.slot] # p.gen THEN Idle ELSE [p EXCEPT !.pc = "made"]
    /\ UNCHANGED <<lastGen, fabric>>

\* A generation seen last is skipped; else it is noted, and the batch may fail.
Publish ==
    /\ P("made")
    /\ p' = Idle
    /\ lastGen' = p.gen
    /\ \/ fabric' = IF lastGen = p.gen THEN fabric
                    ELSE [slot |-> p.slot, gen |-> p.gen, frame |-> p.frame, boot |-> boot]
       \/ UNCHANGED fabric

-----------------------------------------------------------------------------
(* A consumer: CameraSharedMemory.read_ref, WindowsBufferRefReader.read_ref. *)

Take ==
    /\ c.pc = "idle" /\ fabric # None
    /\ c' = [pc |-> "open", ref |-> fabric]
    /\ UNCHANGED <<host, memory, maps, provider, accepted>>

\* A mapping that does not exist is an error.
OpenRef ==
    /\ c.pc = "open"
    /\ \/ /\ Mapped /\ maps' = maps \cup {"consumer"}
          /\ c' = [c EXCEPT !.pc = "before"]
       \/ ~Mapped /\ c' = Idle /\ UNCHANGED maps
    /\ UNCHANGED <<host, memory, provider, accepted>>

C(pc) == c.pc = pc /\ UNCHANGED <<host, memory, provider>>

Recycled == seq[c.ref.slot] # c.ref.gen \/ seq[c.ref.slot] % 2 = 1

SameAfter == seq[c.ref.slot] = c.ref.gen

Expired ==
    /\ C("before") /\ Recycled
    /\ c' = Idle /\ maps' = maps \ {"consumer"}
    /\ UNCHANGED accepted

GenerationBefore ==
    /\ C("before") /\ ~Recycled
    /\ c' = [c EXCEPT !.pc = "low"]
    /\ UNCHANGED <<maps, accepted>>

CopyLow ==
    /\ C("low")
    /\ c' = [pc |-> "high", ref |-> c.ref, lo |-> lo[c.ref.slot]]
    /\ UNCHANGED <<maps, accepted>>

CopyHigh ==
    /\ C("high")
    /\ c' = [pc |-> "after", ref |-> c.ref, lo |-> c.lo, hi |-> hi[c.ref.slot]]
    /\ UNCHANGED <<maps, accepted>>

\* Another attempt starts at the first read.
GenerationAfter ==
    /\ C("after")
    /\ \/ /\ SameAfter
          /\ accepted' = [ref |-> c.ref, lo |-> c.lo, hi |-> c.hi, boot |-> boot]
          /\ c' = Idle /\ maps' = maps \ {"consumer"}
       \/ /\ ~SameAfter
          /\ c' = [pc |-> "before", ref |-> c.ref]
          /\ UNCHANGED <<maps, accepted>>

Next ==
    \/ Begin \/ Header \/ Low \/ High \/ Commit \/ Point \/ Die \/ Create
    \/ Open \/ Close \/ FindStream \/ SequenceBefore \/ ReadHeader \/ SequenceAfter \/ Publish
    \/ Take \/ OpenRef \/ Expired \/ GenerationBefore \/ CopyLow \/ CopyHigh \/ GenerationAfter

Spec == Init /\ [][Next]_vars

-----------------------------------------------------------------------------
(* Properties.                                                              *)

\* The slot readers are pointed at is never the one being written: with a
\* running host its sequence is even and header and payload are of one frame.
LatestIsStable ==
    up /\ latest >= 0 =>
        /\ seq[latest] % 2 = 0
        /\ hdr[latest] = lo[latest] /\ lo[latest] = hi[latest]

\* A payload that passed the generation checks, in whatever way the copy and
\* the writer interleaved, is whole, and is the frame its BufferRef was made
\* for, as long as the same host still runs.
AcceptedIsReferenced ==
    accepted # None =>
        /\ accepted.lo = accepted.hi
        /\ accepted.boot = accepted.ref.boot => accepted.lo = accepted.ref.frame
=============================================================================
